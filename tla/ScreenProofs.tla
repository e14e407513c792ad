----------------------------- MODULE ScreenProofs -----------------------------
(***************************************************************************)
(* Theorems about the screen.  About ScreenActions over AdbLink, for all     *)
(* screens, addresses, attempts and scrolls: what rediscovery has tried when  *)
(* it gives up, where a pinned input lands, that a locked phone is left alone, *)
(* and how many scrolls follow STOP.  Elements and Hash stay unexpanded but for *)
(* the point that equal hashes name the same texts and places.               *)
(*                                                                         *)
(* About UiTree, for all dumps, texts and selectors: that an index means one *)
(* node.  What its recursive functions compute is proved by induction on the  *)
(* nodes' positions, with the least number that fails for an induction rule.  *)
(***************************************************************************)
EXTENDS ScreenActions, UiTree, FiniteSetTheorems, TLAPS

Targets == (UNION {Range(els) : els \in Sights}) \cup {WholeScreen}

\* What the command, its observation and the inputs are made of; ensure runs only
\* as the command's first step, and an aim is an element of the last snapshot
\* until the input has gone in.
CmdShape ==
    cmd = [verb |-> cmd.verb, i |-> cmd.i, pinned |-> cmd.pinned, staleOk |-> cmd.staleOk,
           sight |-> cmd.sight, pc |-> cmd.pc, ret |-> cmd.ret, left |-> cmd.left,
           aim |-> cmd.aim, result |-> cmd.result]
ObsShape ==
    /\ obs = [tries |-> obs.tries, dump |-> obs.dump]
    /\ obs.dump \in Screens \cup {Nothing}
Returns == {"idle", "check", "compare", "halt", "judge", "end"}
AimShape ==
    /\ cmd.ret \in Returns
    /\ cmd.aim # 0 => \/ cmd.pc \in {"input", "second", "end", "idle"}
                      \/ cmd.pc \in {"tree", "window"} /\ cmd.ret = "end"
    /\ cmd.pc \in {"input", "second"} => cmd.aim \in {0} \cup DOMAIN last.els
Shape ==
    /\ CmdShape /\ ObsShape /\ AimShape
    /\ calm = [linked |-> calm.linked, locked |-> calm.locked]
    /\ shown \in Screens
    /\ last.els \in Sights \cup {Nothing}
    /\ taps \in Seq(Targets) /\ late \in Nat
    /\ ens # "idle" => cmd.pc = "ensure"

\* Where ensure stands, and which addresses have been tried by then.
LinkInv ==
    /\ ens \in {"check", "wake", "saved"} => saved = start
    /\ ~strayed /\ ens \in Rediscovery \cup {"failed"} => at # start
    /\ ens = "listed" =>
         \/ todo = <<>> /\ (~strayed => at \notin heard)
         \/ \E a \in heard : todo = <<a>> /\ heard = {a}
    /\ ~strayed /\ ens \in {"probing", "scanning", "failed"} => at \notin heard

\* From the comparison of the hashes to the input the last observation stays the
\* one that was compared, and the aim is the caller's index.
Aims(n) == n.text = cmd.sight[cmd.i].text /\ n.point = cmd.sight[cmd.i].point
PinInv ==
    cmd.pinned /\ ~cmd.staleOk /\ cmd.verb # "key" =>
        /\ cmd.verb \in {"tap", "double_tap", "swipe_in"}
        /\ cmd.i \in DOMAIN cmd.sight /\ cmd.i # 0
        /\ \A n \in DOMAIN taps : Aims(taps[n])
        /\ cmd.pc \in {"resolve", "input", "second"} => Hash(last.els) = Hash(cmd.sight)
        /\ cmd.pc \in {"input", "second"} => cmd.aim = cmd.i

\* The link that held keeps ensure away from rediscovery, and the observation before
\* the act ends the command.
LockedInv ==
    cmd.verb # "none" /\ calm.locked /\ calm.linked =>
        /\ locked /\ Up /\ ens \in {"idle", "check", "ok"}
        /\ taps = <<>>
        /\ \/ cmd.pc \in {"ensure", "tree", "window"} /\ cmd.result = "none"
           \/ cmd.pc = "idle" /\ cmd.result = "device_locked"

\* After the one scroll that a late STOP cannot take back, the loop's way leads
\* through halt.
ScrollInv ==
    cmd.verb = "scroll_until" =>
        /\ cmd.pc \in {"ensure", "tree", "window", "halt", "judge", "end", "idle"}
        /\ cmd.pc \in {"tree", "window"} => cmd.ret \in {"halt", "judge", "end"}
        /\ \/ late = 0
           \/ /\ late = 1 /\ stop
              /\ \/ cmd.pc \in {"halt", "end", "idle"}
                 \/ cmd.pc \in {"tree", "window"} /\ cmd.ret \in {"halt", "end"}

-----------------------------------------------------------------------------
(* The link.                                                               *)

LEMMA InitLink == LinkInit => LinkInv
BY DEF LinkInit, LinkInv, Rediscovery

LEMMA BeginLink == ASSUME LinkInv, EnsureBegin PROVE LinkInv'
BY DEF LinkInv, EnsureBegin, Rediscovery

LEMMA LookLink == ASSUME LinkInv, EnsureLook PROVE LinkInv'
BY DEF LinkInv, EnsureLook, Rediscovery

\* The saved address is tried first; when that fails the phone is not there.
LEMMA TrySavedLink == ASSUME LinkInv, TrySaved PROVE LinkInv'
<1>1. /\ ens = "saved" /\ UNCHANGED <<at, start, strayed, heard>>
      /\ saved # at => ens' = "redial"
      /\ saved = at => ens' = "ok"
  BY DEF TrySaved, Try, Links
<1>2. QED BY <1>1 DEF LinkInv, Rediscovery

LEMMA TryNextLink == ASSUME LinkInv, TryNext PROVE LinkInv'
<1>1. /\ ens \in Rediscovery /\ todo # <<>> /\ UNCHANGED <<at, start, strayed, heard>>
      /\ Head(todo) = at => ens' = "ok"
      /\ Head(todo) # at => ens' = ens /\ todo' = Tail(todo)
  BY DEF TryNext, Try, Links
<1>2. CASE ens = "listed" /\ Head(todo) # at
  <2>1. PICK a \in heard : todo = <<a>> /\ heard = {a} BY <1>1, <1>2 DEF LinkInv
  <2>2. a # at /\ todo' = <<>> BY <1>1, <1>2, <2>1
  <2>3. QED BY <1>1, <1>2, <2>1, <2>2 DEF LinkInv, Rediscovery
<1>3. QED BY <1>1, <1>2 DEF LinkInv, Rediscovery

LEMMA SourceLink ==
    ASSUME LinkInv, AskMdns \/ Probe \/ Scan
    PROVE  LinkInv'
<1>1. CASE AskMdns
  <2>1. PICK list \in Listed : Source("redial", "listed", list) /\ heard' = Range(list)
    BY <1>1 DEF AskMdns
  <2>2. \/ list = <<>> /\ Range(list) = {}
        \/ \E a : list = <<a>> /\ Range(list) = {a}
    BY <2>1 DEF Listed, Range
  <2>3. /\ ens = "redial" /\ ens' = "listed" /\ todo' = list
        /\ UNCHANGED <<at, start, strayed>>
    BY <2>1 DEF Source
  <2>4. QED BY <2>1, <2>2, <2>3 DEF LinkInv, Rediscovery
<1>2. CASE Probe BY <1>2 DEF Probe, Source, LinkInv, Rediscovery
<1>3. CASE Scan BY <1>3 DEF Scan, Source, LinkInv, Rediscovery
<1>4. QED BY <1>1, <1>2, <1>3

LEMMA EnsureStepLink == ASSUME LinkInv, EnsureStep PROVE LinkInv'
<1>1. CASE GiveUp BY <1>1 DEF GiveUp, LinkInv, Rediscovery
<1>2. QED
  BY <1>1, LookLink, TrySavedLink, TryNextLink, SourceLink DEF EnsureStep

LEMMA MoveLink == ASSUME LinkInv, Move PROVE LinkInv'
BY DEF Move, LinkInv

LEMMA LinkKept == ASSUME LinkInv, UNCHANGED linkVars PROVE LinkInv'
BY DEF linkVars, LinkInv

LEMMA EnsuredLink == ASSUME LinkInv, Ensured PROVE LinkInv'
BY DEF Ensured, LinkInv, Rediscovery

\* The frames of the steps: every step of the command but Ensured leaves the link
\* alone.
LEMMA StepLink == ASSUME LinkInv, [Next]_vars PROVE LinkInv'
<1>1. CASE \E verb \in Verbs, i \in 1..3, pinned \in BOOLEAN, staleOk \in BOOLEAN, sight \in Sights :
             Begin(verb, i, pinned, staleOk, sight)
  BY <1>1, BeginLink DEF Begin
<1>2. CASE Ensured BY <1>2, EnsuredLink
<1>3. CASE EnsureStep BY <1>3, EnsureStepLink
<1>4. CASE LinkMoves BY <1>4, MoveLink DEF LinkMoves
<1>5. CASE CheckExpires BY <1>5 DEF CheckExpires, LinkInv
<1>6. CASE UNCHANGED linkVars BY <1>6, LinkKept
<1>7. QED
  BY <1>1, <1>2, <1>3, <1>4, <1>5, <1>6
     DEF Next, CommandStep, ReadTree, ReadWindow, Check, Compare, Resolve, Input, Second,
         SemanticInput, Halt, Judge, End, Deadline, Change, Stop, vars

THEOREM LinkInvariant == Spec => []LinkInv
<1>1. Init => LinkInv BY InitLink DEF Init
<1>2. QED BY <1>1, StepLink, PTL DEF Spec

\* When nothing has answered and the phone has not moved since ensure began, it was
\* neither at the saved address nor at one that mDNS listed.
THEOREM GivesUpOnlyOnTheGone == Spec => []GivesUpOnlyWhenGone
<1>1. LinkInv => GivesUpOnlyWhenGone BY DEF LinkInv, GivesUpOnlyWhenGone
<1>2. QED BY <1>1, LinkInvariant, PTL

-----------------------------------------------------------------------------
(* What the ways to go on do to the command's record.                       *)

Same == /\ cmd'.verb = cmd.verb /\ cmd'.i = cmd.i /\ cmd'.pinned = cmd.pinned
        /\ cmd'.staleOk = cmd.staleOk /\ cmd'.sight = cmd.sight

LEMMA GotoCmd ==
    ASSUME CmdShape, NEW pc, Goto(pc)
    PROVE  /\ CmdShape' /\ Same /\ cmd'.pc = pc /\ cmd'.ret = cmd.ret /\ cmd'.aim = cmd.aim
           /\ cmd'.result = cmd.result
BY DEF CmdShape, Same, Goto

LEMMA FinishCmd ==
    ASSUME CmdShape, NEW result, Finish(result)
    PROVE  /\ CmdShape' /\ Same /\ cmd'.pc = "idle" /\ cmd'.ret = cmd.ret /\ cmd'.aim = cmd.aim
           /\ cmd'.result = result
BY DEF CmdShape, Same, Finish

LEMMA LookCmd ==
    ASSUME CmdShape, NEW ret, Look(ret)
    PROVE  /\ CmdShape' /\ Same /\ cmd'.pc = "tree" /\ cmd'.ret = ret /\ cmd'.aim = cmd.aim
           /\ cmd'.result = cmd.result
           /\ obs' = [tries |-> obs'.tries, dump |-> obs'.dump] /\ obs'.dump = Nothing
BY DEF CmdShape, Same, Look

LEMMA BeginCmd ==
    ASSUME NEW verb, NEW i, NEW pinned, NEW staleOk, NEW sight,
           Begin(verb, i, pinned, staleOk, sight)
    PROVE  /\ CmdShape' /\ cmd'.verb = verb /\ cmd'.i = i /\ cmd'.pinned = pinned
           /\ cmd'.staleOk = staleOk /\ cmd'.sight = (IF pinned THEN sight ELSE Nothing)
           /\ cmd'.pc = "ensure" /\ cmd'.result = "none" /\ cmd'.ret = "idle" /\ cmd'.aim = 0
BY DEF Begin, NoCommand, CmdShape

-----------------------------------------------------------------------------
(* Shape.                                                                  *)

LEMMA SightsAreTargets ==
    ASSUME NEW els \in Sights \cup {Nothing}, NEW k \in DOMAIN els
    PROVE  els[k] \in Targets
<1>1. els # Nothing BY DEF Nothing
<1>2. els[k] \in Range(els) BY DEF Range
<1>3. QED BY <1>1, <1>2 DEF Targets

LEMMA WholeIsTarget == WholeScreen \in Targets
BY DEF Targets

\* The node an input aims at.
LEMMA AimedIsNode ==
    ASSUME Shape, cmd.pc \in {"input", "second"}
    PROVE  Aimed \in Targets
<1>1. CASE cmd.aim = 0
  <2>1. Aimed = WholeScreen BY <1>1 DEF Aimed
  <2>2. WholeScreen \in Targets BY WholeIsTarget
  <2>3. QED BY <2>1, <2>2
<1>2. CASE cmd.aim # 0
  <2>1. cmd.aim \in DOMAIN last.els /\ last.els \in Sights \cup {Nothing}
    BY <1>2 DEF Shape, AimShape
  <2>2. last.els[cmd.aim] \in Targets BY <2>1, SightsAreTargets
  <2>3. QED BY <1>2, <2>2 DEF Aimed
<1>3. QED BY <1>1, <1>2

LEMMA InitShape == Init => Shape
<1>1. <<>> \in Seq(Targets) OBVIOUS
<1>2. QED
  BY <1>1 DEF Init, LinkInit, Shape, CmdShape, ObsShape, AimShape, NoCommand, Returns

\* At most one input goes in, at this node.
Sent(node) == taps' \in {taps, Append(taps, node)} /\ late' \in {late, late + 1}

LEMMA SentShape ==
    ASSUME Shape, NEW node \in Targets, Sent(node)
    PROVE  taps' \in Seq(Targets) /\ late' \in Nat
BY DEF Shape, Sent

-----------------------------------------------------------------------------
(* The steps that the provers need field by field.                          *)

LEMMA EnsuredFields ==
    ASSUME Shape, Ensured
    PROVE  /\ CmdShape' /\ ObsShape' /\ Same /\ cmd.pc = "ensure" /\ cmd'.aim = cmd.aim
           /\ UNCHANGED <<phone, last, ghosts, taps, late>> /\ ens' = "idle"
           /\ \/ cmd'.pc = "idle" /\ cmd'.ret = cmd.ret
              \/ cmd'.pc = "tree" /\ cmd'.ret \in {"judge", "halt", "check"}
<1>1. CmdShape /\ ObsShape BY DEF Shape
<1>2. /\ cmd.pc = "ensure" /\ ens' = "idle" /\ UNCHANGED <<phone, last, ghosts, taps, late>>
      /\ \/ Finish("unreachable") /\ UNCHANGED obs
         \/ \E ret \in {"judge", "halt", "check"} : Look(ret)
  BY DEF Ensured
<1>3. CASE Finish("unreachable") /\ UNCHANGED obs
  BY <1>1, <1>2, <1>3, FinishCmd DEF ObsShape
<1>4. ASSUME NEW ret \in {"judge", "halt", "check"}, Look(ret)
      PROVE  /\ CmdShape' /\ ObsShape' /\ Same /\ cmd'.aim = cmd.aim
             /\ cmd'.pc = "tree" /\ cmd'.ret \in {"judge", "halt", "check"}
  BY <1>1, <1>4, LookCmd DEF ObsShape
<1>5. QED BY <1>2, <1>3, <1>4

LEMMA ReadWindowFields ==
    ASSUME Shape, ReadWindow
    PROVE  /\ CmdShape' /\ ObsShape' /\ Same /\ cmd.pc = "window"
           /\ cmd'.aim = cmd.aim /\ cmd'.ret = cmd.ret
           /\ UNCHANGED <<linkVars, phone, ghosts, taps, late>>
           /\ \/ cmd'.pc \in {"idle", "tree"} /\ UNCHANGED last
              \/ cmd'.pc = cmd.ret /\ last'.els \in Sights
<1>1. CmdShape /\ ObsShape BY DEF Shape
<1>2. cmd.pc = "window" /\ UNCHANGED <<linkVars, phone, ghosts, taps, late>> BY DEF ReadWindow
<1>3. CASE \E result : Finish(result) /\ UNCHANGED <<last, obs>>
  BY <1>1, <1>2, <1>3, FinishCmd DEF ObsShape
<1>4. CASE /\ obs.dump # Nothing /\ last' = [els |-> Elements(obs.dump), version |-> version]
           /\ obs' = [tries |-> 0, dump |-> Nothing] /\ Goto(cmd.ret)
  <2>1. Elements(obs.dump) \in Sights BY <1>1, <1>4 DEF ObsShape, Sights
  <2>2. last'.els = Elements(obs.dump) BY <1>4
  <2>3. ObsShape' BY <1>4 DEF ObsShape
  <2>4. QED BY <1>1, <1>2, <1>4, <2>1, <2>2, <2>3, GotoCmd
<1>5. CASE obs' = [obs EXCEPT !.tries = NextTry] /\ Goto("tree") /\ UNCHANGED last
  <2>1. ObsShape' BY <1>1, <1>5 DEF ObsShape
  <2>2. QED BY <1>1, <1>2, <1>5, <2>1, GotoCmd
<1>6. QED BY <1>3, <1>4, <1>5 DEF ReadWindow

LEMMA CheckFields ==
    ASSUME Shape, Check
    PROVE  /\ CmdShape' /\ ObsShape' /\ Same /\ cmd.pc = "check" /\ cmd'.aim = cmd.aim
           /\ UNCHANGED <<linkVars, phone, last, ghosts, taps, late>>
           /\ \/ cmd'.pc = "tree" /\ cmd'.ret = "compare"
              \/ cmd'.pc = "resolve" /\ cmd'.ret = cmd.ret /\ ~Differs
<1>1. CmdShape /\ ObsShape BY DEF Shape
<1>2. cmd.pc = "check" /\ UNCHANGED <<linkVars, phone, last, ghosts, taps, late>> BY DEF Check
<1>3. CASE Look("compare") BY <1>1, <1>2, <1>3, LookCmd DEF ObsShape
<1>4. CASE ~Differs /\ Goto("resolve") /\ UNCHANGED obs
  BY <1>1, <1>2, <1>4, GotoCmd DEF ObsShape
<1>5. QED BY <1>3, <1>4 DEF Check

LEMMA ResolveFields ==
    ASSUME Shape, Resolve
    PROVE  /\ CmdShape' /\ Same /\ cmd.pc = "resolve" /\ cmd'.ret = cmd.ret
           /\ UNCHANGED <<linkVars, phone, last, obs, ghosts, taps, late>>
           /\ \/ cmd'.pc = "idle" /\ cmd'.aim = cmd.aim
              \/ /\ cmd'.pc = "input" /\ cmd'.aim = cmd.aim
                 /\ cmd.verb \in Unaimed
                 /\ cmd.verb # "key" => cmd.i \notin DOMAIN last.els
              \/ /\ cmd'.pc = "input" /\ cmd'.aim \in DOMAIN last.els
                 /\ cmd.verb \notin {"tap_text", "key"} => cmd'.aim = cmd.i
<1> DEFINE named == CASE cmd.verb = "tap_text" -> Ranked(last.els, Target)
                      [] cmd.verb = "key" -> {}
                      [] OTHER -> {cmd.i} \cap DOMAIN last.els
<1>1. CmdShape BY DEF Shape
<1>2. /\ cmd.pc = "resolve" /\ UNCHANGED <<linkVars, phone, last, obs, ghosts, taps, late>>
      /\ \/ named = {} /\ cmd.verb \in Unaimed /\ Goto("input")
         \/ \E result : Finish(result)
         \/ \E k \in named : cmd' = [cmd EXCEPT !.pc = "input", !.aim = k]
  BY DEF Resolve
<1>3. /\ cmd.verb \notin {"tap_text", "key"} => named = {cmd.i} \cap DOMAIN last.els
      /\ named \subseteq DOMAIN last.els
  BY DEF Ranked
<1> HIDE DEF named
<1>4. CASE named = {} /\ cmd.verb \in Unaimed /\ Goto("input")
  BY <1>1, <1>2, <1>3, <1>4, GotoCmd DEF Unaimed
<1>5. CASE \E result : Finish(result) BY <1>1, <1>2, <1>5, FinishCmd
<1>6. ASSUME NEW k \in named, cmd' = [cmd EXCEPT !.pc = "input", !.aim = k]
      PROVE  /\ CmdShape' /\ Same /\ cmd'.pc = "input" /\ cmd'.aim = k /\ cmd'.ret = cmd.ret
  BY <1>1, <1>6 DEF CmdShape, Same
<1>7. QED BY <1>2, <1>3, <1>4, <1>5, <1>6

\* Of the three ways to send an input, the first two may go on to the second of a
\* double tap.
LEMMA InputFields ==
    ASSUME Shape, Input \/ Second \/ SemanticInput
    PROVE  /\ CmdShape' /\ ObsShape' /\ Same /\ cmd.pc \in {"input", "second"}
           /\ cmd'.aim = cmd.aim /\ Sent(Aimed)
           /\ UNCHANGED <<linkVars, phone, last, ghosts>>
           /\ \/ cmd'.pc \in {"second", "idle"} /\ cmd'.ret = cmd.ret
              \/ cmd'.pc = "tree" /\ cmd'.ret = "end"
<1>1. CmdShape /\ ObsShape BY DEF Shape
<1>2. /\ cmd.pc \in {"input", "second"} /\ Sent(Aimed)
      /\ UNCHANGED <<linkVars, phone, last, ghosts>>
      /\ \/ Look("end")
         \/ Goto("second") /\ UNCHANGED obs
         \/ Finish("stale_snapshot") /\ UNCHANGED obs
  BY DEF Input, Second, SemanticInput, Inject, Sent
<1>3. CASE Look("end") BY <1>1, <1>2, <1>3, LookCmd DEF ObsShape
<1>4. CASE Goto("second") /\ UNCHANGED obs BY <1>1, <1>2, <1>4, GotoCmd DEF ObsShape
<1>5. CASE Finish("stale_snapshot") /\ UNCHANGED obs
  BY <1>1, <1>2, <1>5, FinishCmd DEF ObsShape
<1>6. QED BY <1>2, <1>3, <1>4, <1>5

LEMMA HaltFields ==
    ASSUME Shape, Halt
    PROVE  /\ CmdShape' /\ ObsShape' /\ Same /\ cmd.pc = "halt" /\ cmd'.aim = cmd.aim
           /\ UNCHANGED <<linkVars, phone, last, ghosts, taps, late>>
           /\ \/ cmd'.pc = "tree" /\ cmd'.ret = "end"
              \/ cmd'.pc = "tree" /\ cmd'.ret = "judge" /\ ~stop
              \/ cmd'.pc = "idle" /\ cmd'.ret = cmd.ret
<1>1. CmdShape /\ ObsShape BY DEF Shape
<1>2. cmd.pc = "halt" /\ UNCHANGED <<linkVars, phone, last, ghosts, taps, late>> BY DEF Halt
<1>3. CASE Look("end") BY <1>1, <1>2, <1>3, LookCmd DEF ObsShape
<1>4. CASE Look("judge") /\ ~stop BY <1>1, <1>2, <1>4, LookCmd DEF ObsShape
<1>5. CASE Finish("stopped") /\ UNCHANGED obs BY <1>1, <1>2, <1>5, FinishCmd DEF ObsShape
<1>6. QED BY <1>3, <1>4, <1>5 DEF Halt, Halted

LEMMA JudgeFields ==
    ASSUME Shape, Judge
    PROVE  /\ CmdShape' /\ ObsShape' /\ Same /\ cmd.pc = "judge" /\ cmd'.aim = cmd.aim
           /\ UNCHANGED <<linkVars, phone, last, ghosts>>
           /\ \/ cmd'.pc = "idle" /\ cmd'.ret = cmd.ret /\ UNCHANGED <<taps, late>>
              \/ /\ cmd.verb = "scroll_until" /\ cmd'.pc = "tree" /\ cmd'.ret = "halt"
                 /\ Sent(WholeScreen) /\ (~stop => late' = late)
              \/ /\ cmd.verb = "wait_for" /\ cmd'.pc = "tree" /\ cmd'.ret = "judge"
                 /\ UNCHANGED <<taps, late>>
<1>1. CmdShape /\ ObsShape BY DEF Shape
<1>2. cmd.pc = "judge" /\ UNCHANGED <<linkVars, phone, last, ghosts>> BY DEF Judge
<1>3. CASE (\E result : Finish(result)) /\ UNCHANGED <<obs, taps, late>>
  BY <1>1, <1>2, <1>3, FinishCmd DEF ObsShape
<1>4. CASE /\ cmd.verb = "scroll_until" /\ Inject(WholeScreen)
           /\ cmd' = [cmd EXCEPT !.pc = "tree", !.ret = "halt", !.left = @ - 1]
           /\ obs' = [tries |-> 0, dump |-> Nothing]
  <2>1. CmdShape' /\ Same /\ cmd'.aim = cmd.aim /\ cmd'.pc = "tree" /\ cmd'.ret = "halt"
    BY <1>1, <1>4 DEF CmdShape, Same
  <2>2. ObsShape' BY <1>4 DEF ObsShape
  <2>3. Sent(WholeScreen) /\ (~stop => late' = late) BY <1>4 DEF Inject, Sent
  <2>4. QED BY <1>2, <1>4, <2>1, <2>2, <2>3
<1>5. CASE cmd.verb = "wait_for" /\ Look("judge") /\ UNCHANGED <<taps, late>>
  BY <1>1, <1>2, <1>5, LookCmd DEF ObsShape
<1>6. QED BY <1>3, <1>4, <1>5 DEF Judge

-----------------------------------------------------------------------------
(* Shape is kept.                                                          *)

LEMMA BeginShape ==
    ASSUME Shape, NEW verb, NEW i, NEW pinned \in BOOLEAN, NEW staleOk, NEW sight \in Sights,
           Begin(verb, i, pinned, staleOk, sight)
    PROVE  Shape'
<1>1. /\ CmdShape' /\ cmd'.pc = "ensure" /\ cmd'.ret = "idle" /\ cmd'.aim = 0
  BY BeginCmd
<1>2. /\ obs' = [tries |-> 0, dump |-> Nothing]
      /\ UNCHANGED <<shown, last>> /\ taps' = <<>> /\ late' = 0
      /\ calm' = [linked |-> Up, locked |-> locked]
  BY DEF Begin, phone
<1>3. ObsShape' BY <1>2 DEF ObsShape
<1>4. AimShape' BY <1>1 DEF AimShape, Returns
<1>5. <<>> \in Seq(Targets) OBVIOUS
<1>6. calm' = [linked |-> calm'.linked, locked |-> calm'.locked]
  BY <1>2
<1>7. QED BY <1>1, <1>2, <1>3, <1>4, <1>5, <1>6 DEF Shape

LEMMA InputShape ==
    ASSUME Shape, Input \/ Second \/ SemanticInput
    PROVE  Shape'
<1>1. taps' \in Seq(Targets) /\ late' \in Nat
  BY InputFields, AimedIsNode, SentShape
<1>2. AimShape' BY InputFields DEF Shape, AimShape, Returns
<1>3. UNCHANGED <<shown, calm, last, ens>> BY InputFields DEF linkVars, phone, ghosts
<1>4. QED BY <1>1, <1>2, <1>3, InputFields DEF Shape

LEMMA JudgeShape == ASSUME Shape, Judge PROVE Shape'
<1>1. taps' \in Seq(Targets) /\ late' \in Nat
  BY JudgeFields, WholeIsTarget, SentShape DEF Shape
<1>2. AimShape' BY JudgeFields DEF Shape, AimShape, Returns
<1>3. UNCHANGED <<shown, calm, last, ens>> BY JudgeFields DEF linkVars, phone, ghosts
<1>4. QED BY <1>1, <1>2, <1>3, JudgeFields DEF Shape

\* The other steps send nothing.
LEMMA QuietShape ==
    ASSUME Shape, Ensured \/ ReadWindow \/ Check \/ Resolve \/ Halt
    PROVE  Shape'
<1>1. CASE Ensured
  <2>1. AimShape' BY <1>1, EnsuredFields DEF Shape, AimShape, Returns
  <2>2. QED BY <1>1, <2>1, EnsuredFields DEF Shape, phone, ghosts
<1>2. CASE ReadWindow
  <2>1. AimShape' BY <1>2, ReadWindowFields DEF Shape, AimShape, Returns
  <2>2. QED BY <1>2, <2>1, ReadWindowFields DEF Shape, phone, ghosts, linkVars
<1>3. CASE Check
  <2>1. AimShape' BY <1>3, CheckFields DEF Shape, AimShape, Returns
  <2>2. QED BY <1>3, <2>1, CheckFields DEF Shape, phone, ghosts, linkVars
<1>4. CASE Resolve
  <2>1. AimShape' BY <1>4, ResolveFields DEF Shape, AimShape, Returns
  <2>2. ObsShape' BY <1>4, ResolveFields DEF Shape, ObsShape
  <2>3. QED BY <1>4, <2>1, <2>2, ResolveFields DEF Shape, phone, ghosts, linkVars
<1>5. CASE Halt
  <2>1. AimShape' BY <1>5, HaltFields DEF Shape, AimShape, Returns
  <2>2. QED BY <1>5, <2>1, HaltFields DEF Shape, phone, ghosts, linkVars
<1>6. QED BY <1>1, <1>2, <1>3, <1>4, <1>5

LEMMA ReadTreeShape == ASSUME Shape, ReadTree PROVE Shape'
<1>1. CmdShape' /\ AimShape' BY GotoCmd DEF ReadTree, Shape, AimShape
<1>2. ObsShape' BY DEF ReadTree, Shape, ObsShape
<1>3. QED BY <1>1, <1>2 DEF ReadTree, Shape, phone, ghosts, linkVars

LEMMA CompareShape == ASSUME Shape, Compare PROVE Shape'
<1>1. Goto("resolve") \/ Finish("stale_snapshot") BY DEF Compare
<1>2. CmdShape' /\ AimShape'
  BY <1>1, GotoCmd, FinishCmd DEF Compare, Shape, AimShape
<1>3. QED BY <1>2 DEF Compare, Shape, ObsShape, phone, ghosts, linkVars

LEMMA EndShape == ASSUME Shape, End PROVE Shape'
<1>1. CmdShape' /\ AimShape' BY FinishCmd DEF End, Shape, AimShape
<1>2. QED BY <1>1 DEF End, Shape, ObsShape, phone, ghosts, linkVars

LEMMA DeadlineShape == ASSUME Shape, Deadline PROVE Shape'
<1>1. CmdShape' /\ AimShape' BY DEF Deadline, Shape, CmdShape, AimShape
<1>2. cmd'.pc = cmd.pc BY DEF Deadline, Shape, CmdShape
<1>3. QED BY <1>1, <1>2 DEF Deadline, Shape, ObsShape, phone, ghosts, linkVars

\* The steps of others, and of ensure, leave the command alone.
LEMMA OthersShape ==
    ASSUME Shape,
           \/ Change \/ Stop \/ LinkMoves \/ UNCHANGED vars
           \/ CheckExpires /\ UNCHANGED screenVars
           \/ EnsureStep /\ UNCHANGED screenVars
    PROVE  Shape'
<1>1. UNCHANGED <<last, cmd, obs, taps, late>>
  BY DEF Change, Stop, LinkMoves, screenVars, vars
<1>2. CmdShape' /\ ObsShape' /\ AimShape'
  BY <1>1 DEF Shape, CmdShape, ObsShape, AimShape
<1>3. ens' # "idle" => ens # "idle"
  BY DEF Change, Stop, LinkMoves, Move, vars, linkVars, CheckExpires, EnsureStep,
         EnsureLook, TrySaved, TryNext, AskMdns, Probe, Scan, Source, GiveUp, Rediscovery
<1>4. shown' \in Screens
  BY DEF Shape, Change, Stop, LinkMoves, phone, screenVars, vars
<1>5. calm' = [linked |-> calm'.linked, locked |-> calm'.locked]
  BY DEF Shape, Change, Stop, LinkMoves, ghosts, screenVars, vars
<1>6. QED BY <1>1, <1>2, <1>3, <1>4, <1>5 DEF Shape

LEMMA StepShape == ASSUME Shape, [Next]_vars PROVE Shape'
<1>1. CASE \E verb \in Verbs, i \in 1..3, pinned \in BOOLEAN, staleOk \in BOOLEAN, sight \in Sights :
             Begin(verb, i, pinned, staleOk, sight)
  BY <1>1, BeginShape
<1>2. CASE Ensured \/ ReadWindow \/ Check \/ Resolve \/ Halt BY <1>2, QuietShape
<1>3. CASE Input \/ Second \/ SemanticInput BY <1>3, InputShape
<1>4. CASE Judge \/ ReadTree \/ Compare \/ End \/ Deadline
  BY <1>4, JudgeShape, ReadTreeShape, CompareShape, EndShape, DeadlineShape
<1>5. CASE \/ Change \/ Stop \/ LinkMoves \/ UNCHANGED vars
           \/ CheckExpires /\ UNCHANGED screenVars
           \/ EnsureStep /\ UNCHANGED screenVars
  BY <1>5, OthersShape
<1>6. QED BY <1>1, <1>2, <1>3, <1>4, <1>5 DEF Next, CommandStep

-----------------------------------------------------------------------------
(* Where a pinned input lands.                                              *)

Pinned == cmd.pinned /\ ~cmd.staleOk /\ cmd.verb # "key"

\* Equal hashes have the same texts at the same places.
LEMMA HashMeansPlace ==
    ASSUME NEW a, NEW b, Hash(a) = Hash(b), NEW k \in DOMAIN b
    PROVE  k \in DOMAIN a /\ a[k].text = b[k].text /\ a[k].point = b[k].point
<1>1. DOMAIN a = DOMAIN Hash(a) /\ DOMAIN b = DOMAIN Hash(b) BY DEF Hash
<1>2. k \in DOMAIN a BY <1>1
<1>3. <<a[k].text, a[k].point>> = <<b[k].text, b[k].point>> BY <1>2 DEF Hash
<1>4. QED BY <1>2, <1>3

LEMMA PinnedAim ==
    ASSUME PinInv, Pinned, cmd.pc \in {"input", "second"}
    PROVE  Aims(Aimed)
<1>1. /\ Hash(last.els) = Hash(cmd.sight) /\ cmd.aim = cmd.i
      /\ cmd.i \in DOMAIN cmd.sight /\ cmd.i # 0
  BY DEF PinInv, Pinned
<1>2. Aimed = last.els[cmd.i] BY <1>1 DEF Aimed
<1>3. QED BY <1>1, <1>2, HashMeansPlace DEF Aims

LEMMA InitPin == Init => PinInv
BY DEF Init, PinInv, NoCommand

LEMMA BeginPin ==
    ASSUME NEW verb \in Verbs, NEW i \in 1..3, NEW pinned \in BOOLEAN, NEW staleOk \in BOOLEAN,
           NEW sight \in Sights, Begin(verb, i, pinned, staleOk, sight)
    PROVE  PinInv'
<1>1. /\ i \in DOMAIN sight /\ i # 0 /\ taps' = <<>>
      /\ verb \in {"tap_text", "scroll_until", "wait_for"} => ~pinned
  BY DEF Begin
<1>2. SUFFICES ASSUME Pinned' PROVE PinInv' BY DEF Pinned, PinInv
<1>3. pinned /\ cmd'.sight = sight /\ verb # "key"
  <2>1. /\ cmd'.pinned = pinned /\ cmd'.verb = verb
        /\ cmd'.sight = (IF pinned THEN sight ELSE Nothing)
    BY BeginCmd
  <2>2. pinned = TRUE BY <1>2, <2>1 DEF Pinned
  <2>3. QED BY <1>2, <2>1, <2>2 DEF Pinned
<1>4. verb \in {"tap", "double_tap", "swipe_in"} BY <1>1, <1>3, ScreenConstants
<1>5. \A n \in DOMAIN taps' : Aims(taps[n])' BY <1>1
<1>6. QED BY <1>1, <1>3, <1>4, <1>5, BeginCmd DEF PinInv

LEMMA InputPin ==
    ASSUME Shape, PinInv, Input \/ Second \/ SemanticInput
    PROVE  PinInv'
<1>1. SUFFICES ASSUME Pinned PROVE PinInv' BY InputFields DEF Same, Pinned, PinInv
<1>2. Aims(Aimed) /\ (\A n \in DOMAIN taps : Aims(taps[n]))
  BY <1>1, PinnedAim, InputFields DEF PinInv, Pinned
<1>3. taps' \in {taps, Append(taps, Aimed)} /\ taps \in Seq(Targets)
  BY InputFields DEF Sent, Shape
<1>4. \A n \in DOMAIN taps' : Aims(taps'[n])
  <2>1. CASE taps' = taps BY <1>2, <2>1
  <2>2. CASE taps' = Append(taps, Aimed) /\ taps' # taps
    <3>1. Aimed \in Targets BY AimedIsNode, InputFields
    <3>2. /\ DOMAIN taps = 1..Len(taps) /\ DOMAIN taps' = 1..(Len(taps) + 1)
          /\ \A n \in 1..Len(taps) : taps'[n] = taps[n]
          /\ taps'[Len(taps) + 1] = Aimed /\ Len(taps) \in Nat
      BY <1>3, <2>2, <3>1
    <3>3. \A n \in DOMAIN taps' : n \in DOMAIN taps \/ n = Len(taps) + 1 BY <3>2
    <3>4. QED BY <1>2, <3>2, <3>3
  <2>3. QED BY <1>3, <2>1, <2>2
<1>5. \A n \in DOMAIN taps' : Aims(taps[n])' BY <1>4, InputFields DEF Aims, Same
<1>6. UNCHANGED last /\ Same /\ cmd'.aim = cmd.aim /\ cmd.pc \in {"input", "second"}
  BY InputFields
<1>7. QED BY <1>1, <1>5, <1>6 DEF PinInv, Pinned, Same

\* The steps that send nothing and end no comparison.
LEMMA QuietPin ==
    ASSUME PinInv, Same, UNCHANGED taps,
           \/ cmd'.pc \notin {"resolve", "input", "second"}
           \/ UNCHANGED last /\ cmd'.pc = cmd.pc /\ cmd'.aim = cmd.aim
    PROVE  PinInv'
BY DEF PinInv, Same, Aims

\* The two ways to resolve, and resolution itself.
LEMMA ResolvePin ==
    ASSUME Shape, PinInv, Check \/ Compare \/ Resolve
    PROVE  PinInv'
<1>1. SUFFICES ASSUME Pinned PROVE PinInv'
  <2>1. CmdShape BY DEF Shape
  <2>2. Same
    BY <2>1, CheckFields, ResolveFields, GotoCmd, FinishCmd DEF Compare
  <2>3. QED BY <2>2 DEF Same, Pinned, PinInv
<1>2. CASE Check
  BY <1>1, <1>2, CheckFields DEF Differs, PinInv, Pinned, Same, Aims
<1>3. CASE Compare
  <2>1. /\ UNCHANGED <<last, taps>> /\ Same
        /\ cmd'.pc = "resolve" => ~Differs
        /\ cmd'.pc \in {"resolve", "idle"}
    BY <1>1, <1>3, GotoCmd, FinishCmd DEF Compare, Shape, Pinned
  <2>2. QED BY <1>1, <2>1 DEF Differs, PinInv, Pinned, Same, Aims
<1>4. CASE Resolve
  <2>1. /\ Hash(last.els) = Hash(cmd.sight) /\ cmd.i \in DOMAIN cmd.sight
        /\ cmd.verb \in {"tap", "double_tap", "swipe_in"}
    BY <1>1, <1>4, ResolveFields DEF PinInv, Pinned
  <2>2. cmd.i \in DOMAIN last.els BY <2>1, HashMeansPlace
  <2>3. cmd'.pc = "idle" \/ (cmd'.pc = "input" /\ cmd'.aim = cmd.i)
    BY <1>4, <2>1, <2>2, ResolveFields
  <2>4. QED BY <1>1, <1>4, <2>1, <2>3, ResolveFields DEF PinInv, Pinned, Same, Aims
<1>5. QED BY <1>2, <1>3, <1>4

LEMMA StepPin == ASSUME Shape, PinInv, [Next]_vars PROVE PinInv'
<1> CmdShape BY DEF Shape
<1>1. CASE \E verb \in Verbs, i \in 1..3, pinned \in BOOLEAN, staleOk \in BOOLEAN, sight \in Sights :
             Begin(verb, i, pinned, staleOk, sight)
  BY <1>1, BeginPin
<1>2. CASE Input \/ Second \/ SemanticInput BY <1>2, InputPin
<1>3. CASE Check \/ Compare \/ Resolve BY <1>3, ResolvePin
<1>4. CASE Ensured BY <1>4, EnsuredFields, QuietPin
<1>5. CASE ReadTree BY <1>5, GotoCmd, QuietPin DEF ReadTree
<1>6. CASE ReadWindow
  BY <1>6, ReadWindowFields, QuietPin DEF Shape, AimShape, Returns
<1>7. CASE Halt BY <1>7, HaltFields, QuietPin
<1>8. CASE Judge
  <2>1. CASE cmd.verb = "scroll_until"
    BY <1>8, <2>1, JudgeFields DEF PinInv, Same
  <2>2. CASE cmd.verb # "scroll_until"
    BY <1>8, <2>2, JudgeFields, QuietPin
  <2>3. QED BY <2>1, <2>2
<1>9. CASE End BY <1>9, FinishCmd, QuietPin DEF End
<1>10. CASE Deadline
  <2>1. Same /\ cmd'.pc = cmd.pc /\ cmd'.aim = cmd.aim /\ UNCHANGED <<last, taps>>
    BY <1>10 DEF Deadline, CmdShape, Same
  <2>2. QED BY <2>1, QuietPin
<1>11. CASE \/ Change \/ Stop \/ LinkMoves \/ UNCHANGED vars
            \/ CheckExpires /\ UNCHANGED screenVars
            \/ EnsureStep /\ UNCHANGED screenVars
  <2>1. UNCHANGED <<last, cmd, taps>>
    BY <1>11 DEF Change, Stop, LinkMoves, screenVars, vars
  <2>2. QED BY <2>1 DEF PinInv, Aims
<1>12. QED
  BY <1>1, <1>2, <1>3, <1>4, <1>5, <1>6, <1>7, <1>8, <1>9, <1>10, <1>11
     DEF Next, CommandStep

-----------------------------------------------------------------------------
(* How many scrolls follow STOP.                                            *)

LEMMA StepScroll == ASSUME Shape, ScrollInv, [Next]_vars PROVE ScrollInv'
<1> CmdShape BY DEF Shape
<1>1. CASE \E verb \in Verbs, i \in 1..3, pinned \in BOOLEAN, staleOk \in BOOLEAN, sight \in Sights :
             Begin(verb, i, pinned, staleOk, sight)
  <2>1. PICK verb \in Verbs, i \in 1..3, pinned \in BOOLEAN, staleOk \in BOOLEAN, sight \in Sights :
               Begin(verb, i, pinned, staleOk, sight)
    BY <1>1
  <2>2. cmd'.pc = "ensure" BY <2>1, BeginCmd
  <2>3. late' = 0 BY <2>1 DEF Begin
  <2>4. QED BY <2>2, <2>3 DEF ScrollInv
<1>2. CASE Input \/ Second \/ SemanticInput BY <1>2, InputFields DEF ScrollInv, Same
<1>3. CASE Check BY <1>3, CheckFields DEF ScrollInv, Same
<1>4. CASE Compare
  BY <1>4, GotoCmd, FinishCmd DEF Compare, ScrollInv, Same
<1>5. CASE Resolve BY <1>5, ResolveFields DEF ScrollInv, Same
<1>6. CASE Ensured
  <2>1. Same /\ cmd.pc = "ensure" /\ UNCHANGED <<stop, late>>
    BY <1>6, EnsuredFields DEF phone
  <2>2. \/ cmd'.pc = "idle"
        \/ cmd'.pc = "tree" /\ cmd'.ret \in {"judge", "halt", "check"}
    BY <1>6, EnsuredFields
  <2>3. cmd.verb = "scroll_until" /\ cmd'.pc = "tree" => cmd'.ret = "halt"
    BY <1>6, LookCmd, FinishCmd DEF Ensured
  <2>4. QED BY <2>1, <2>2, <2>3 DEF ScrollInv, Same
<1>7. CASE ReadTree BY <1>7, GotoCmd DEF ReadTree, ScrollInv, Same, phone
<1>8. CASE ReadWindow BY <1>8, ReadWindowFields DEF ScrollInv, Same, phone
<1>9. CASE Halt BY <1>9, HaltFields DEF ScrollInv, Same, phone
<1>10. CASE Judge
  <2>1. late \in Nat /\ UNCHANGED stop BY <1>10, JudgeFields DEF Shape, phone
  <2>2. CASE UNCHANGED <<taps, late>>
    BY <1>10, <2>1, <2>2, JudgeFields DEF ScrollInv, Same
  <2>3. CASE ~UNCHANGED <<taps, late>>
    <3>1. /\ cmd.verb = "scroll_until" /\ cmd'.pc = "tree" /\ cmd'.ret = "halt"
          /\ late' \in {late, late + 1} /\ (~stop => late' = late)
          /\ cmd.pc = "judge" /\ Same
      BY <1>10, <2>3, JudgeFields DEF Sent
    <3>2. late = 0 BY <3>1 DEF ScrollInv
    <3>3. late' = 0 \/ (late' = 1 /\ stop) BY <3>1, <3>2
    <3>4. QED BY <2>1, <3>1, <3>3 DEF ScrollInv
  <2>4. QED BY <2>2, <2>3
<1>11. CASE End BY <1>11, FinishCmd DEF End, ScrollInv, Same, phone
<1>12. CASE Deadline
  <2>1. Same BY <1>12 DEF Deadline, CmdShape, Same
  <2>2. QED BY <1>12, <2>1 DEF Deadline, ScrollInv, Same
<1>13. CASE \/ Change \/ Stop \/ LinkMoves \/ UNCHANGED vars
            \/ CheckExpires /\ UNCHANGED screenVars
            \/ EnsureStep /\ UNCHANGED screenVars
  <2>1. UNCHANGED <<cmd, late>> /\ (stop => stop')
    BY <1>13 DEF Change, Stop, LinkMoves, screenVars, vars, phone
  <2>2. QED BY <2>1 DEF ScrollInv
<1>14. QED
  BY <1>1, <1>2, <1>3, <1>4, <1>5, <1>6, <1>7, <1>8, <1>9, <1>10, <1>11, <1>12, <1>13
     DEF Next, CommandStep

-----------------------------------------------------------------------------
(* A locked phone.                                                          *)

\* A phone that stayed locked on a link that held.
Calm == cmd.verb # "none" /\ calm.locked /\ calm.linked

LEMMA InitLocked == Init => LockedInv
BY DEF Init, LockedInv, NoCommand

LEMMA BeginLocked ==
    ASSUME NEW verb, NEW i, NEW pinned, NEW staleOk, NEW sight,
           Begin(verb, i, pinned, staleOk, sight)
    PROVE  LockedInv'
<1>1. /\ calm' = [linked |-> Up, locked |-> locked] /\ taps' = <<>>
      /\ UNCHANGED <<locked, at, linked, serial>> /\ ens' \in {"ok", "check"}
  BY DEF Begin, EnsureBegin, phone
<1>2. calm'.linked = Up /\ calm'.locked = locked BY <1>1
<1>3. (Up)' = Up BY <1>1 DEF Up
<1>4. cmd'.pc = "ensure" /\ cmd'.result = "none" BY BeginCmd
<1>5. QED BY <1>1, <1>2, <1>3, <1>4 DEF LockedInv

\* What the command does on a link that holds and a phone that is locked: it reads
\* the tree and sees the lock.
LEMMA CommandLocked ==
    ASSUME Shape, LockedInv, Ensured \/ ReadTree \/ ReadWindow
    PROVE  LockedInv'
<1> CmdShape BY DEF Shape
<1>1. UNCHANGED <<calm, locked, at, linked, serial, taps>> /\ (Up)' = Up
  BY DEF Ensured, ReadTree, ReadWindow, linkVars, phone, ghosts, Up
<1>2. Same BY EnsuredFields, ReadWindowFields, GotoCmd DEF ReadTree
<1>3. SUFFICES ASSUME Calm PROVE LockedInv' BY <1>1, <1>2 DEF Calm, LockedInv, Same
<1>4. /\ locked /\ Up /\ ens \in {"idle", "check", "ok"} /\ taps = <<>>
      /\ cmd.pc \in {"ensure", "tree", "window"} => cmd.result = "none"
  BY <1>3 DEF LockedInv, Calm
<1>5. CASE Ensured
  <2>1. \E ret : Look(ret) BY <1>4, <1>5 DEF Ensured
  <2>2. cmd'.pc = "tree" /\ cmd'.result = "none" BY <1>4, <1>5, <2>1, LookCmd DEF Ensured
  <2>3. QED BY <1>1, <1>4, <1>5, <2>2 DEF LockedInv, Ensured
<1>6. CASE ReadTree
  <2>1. cmd'.pc = "window" /\ cmd'.result = "none" /\ ens' = ens
    BY <1>4, <1>6, GotoCmd DEF ReadTree, linkVars
  <2>2. QED BY <1>1, <1>4, <2>1 DEF LockedInv
<1>7. CASE ReadWindow
  <2>1. Finish("device_locked") BY <1>4, <1>7 DEF ReadWindow, SeenLocked
  <2>2. cmd'.pc = "idle" /\ cmd'.result = "device_locked" BY <2>1, FinishCmd
  <2>3. QED BY <1>1, <1>4, <1>7, <2>2 DEF LockedInv, ReadWindow, linkVars
<1>8. QED BY <1>5, <1>6, <1>7

\* No later step of the command is reached.
LEMMA LaterLocked ==
    ASSUME Shape, LockedInv,
           \/ Check \/ Compare \/ Resolve \/ Input \/ Second \/ SemanticInput
           \/ Halt \/ Judge \/ End
    PROVE  LockedInv'
<1> CmdShape BY DEF Shape
<1>1. /\ cmd.pc \in {"check", "compare", "resolve", "input", "second", "halt", "judge", "end"}
      /\ UNCHANGED calm
  BY DEF Check, Compare, Resolve, Input, Second, SemanticInput, Halt, Judge, End, ghosts
<1>2. ~Calm BY <1>1 DEF LockedInv, Calm
<1>3. Same
  BY CheckFields, ResolveFields, InputFields, HaltFields, JudgeFields, GotoCmd, FinishCmd
     DEF Compare, End
<1>4. QED BY <1>1, <1>2, <1>3 DEF LockedInv, Calm, Same

\* The others: a change of the lock and a move of the phone end the calm, and on
\* a link that holds ensure finds the phone at its first look.
LEMMA OthersLocked ==
    ASSUME Shape, LockedInv,
           \/ Change \/ Stop \/ LinkMoves \/ UNCHANGED vars \/ Deadline
           \/ CheckExpires /\ UNCHANGED screenVars
           \/ EnsureStep /\ UNCHANGED screenVars
    PROVE  LockedInv'
<1> CmdShape /\ calm = [linked |-> calm.linked, locked |-> calm.locked] BY DEF Shape
<1>1. CASE LinkMoves
  <2>1. ~calm'.linked BY <1>1 DEF LinkMoves
  <2>2. QED BY <2>1 DEF LockedInv
<1>2. CASE Change
  <2>1. \/ ~calm'.locked
        \/ UNCHANGED <<locked, calm>>
    BY <1>2 DEF Change
  <2>2. UNCHANGED <<linkVars, cmd, taps>> BY <1>2 DEF Change
  <2>3. (Up)' = Up BY <2>2 DEF Up, linkVars
  <2>4. QED BY <2>1, <2>2, <2>3 DEF LockedInv, linkVars
<1>3. CASE Deadline
  <2>1. Same /\ cmd'.pc = cmd.pc /\ cmd'.result = cmd.result
    BY <1>3 DEF Deadline, CmdShape, Same
  <2>2. UNCHANGED <<linkVars, locked, calm, taps>> BY <1>3 DEF Deadline, phone, ghosts
  <2>3. (Up)' = Up BY <2>2 DEF Up, linkVars
  <2>4. QED BY <2>1, <2>2, <2>3 DEF LockedInv, Same, linkVars
<1>4. CASE EnsureStep /\ UNCHANGED screenVars
  <2>1. UNCHANGED <<locked, calm, taps, cmd>> BY <1>4 DEF screenVars
  <2>2. SUFFICES ASSUME Calm PROVE LockedInv' BY <2>1 DEF Calm, LockedInv
  <2>3. locked /\ Up /\ ens \in {"idle", "check", "ok"} BY <2>2 DEF Calm, LockedInv
  <2>4. EnsureLook
    BY <1>4, <2>3 DEF EnsureStep, TrySaved, TryNext, AskMdns, Probe, Scan, Source, GiveUp,
                      Rediscovery
  <2>5. ens' = "ok" /\ (Up)' = Up BY <2>3, <2>4 DEF EnsureLook, Up
  <2>6. QED BY <2>1, <2>2, <2>3, <2>5 DEF LockedInv, Calm
<1>5. CASE \/ Stop \/ UNCHANGED vars
           \/ CheckExpires /\ UNCHANGED screenVars
  <2>1. UNCHANGED <<locked, calm, taps, cmd, at, linked, serial, ens>>
    BY <1>5 DEF Stop, CheckExpires, screenVars, vars, linkVars, phone, ghosts
  <2>2. (Up)' = Up BY <2>1 DEF Up
  <2>3. QED BY <2>1, <2>2 DEF LockedInv
<1>6. QED BY <1>1, <1>2, <1>3, <1>4, <1>5

LEMMA StepLocked == ASSUME Shape, LockedInv, [Next]_vars PROVE LockedInv'
<1>1. CASE \E verb \in Verbs, i \in 1..3, pinned \in BOOLEAN, staleOk \in BOOLEAN, sight \in Sights :
             Begin(verb, i, pinned, staleOk, sight)
  BY <1>1, BeginLocked
<1>2. CASE Ensured \/ ReadTree \/ ReadWindow BY <1>2, CommandLocked
<1>3. CASE \/ Check \/ Compare \/ Resolve \/ Input \/ Second \/ SemanticInput
           \/ Halt \/ Judge \/ End
  BY <1>3, LaterLocked
<1>4. CASE \/ Change \/ Stop \/ LinkMoves \/ UNCHANGED vars \/ Deadline
           \/ CheckExpires /\ UNCHANGED screenVars
           \/ EnsureStep /\ UNCHANGED screenVars
  BY <1>4, OthersLocked
<1>5. QED BY <1>1, <1>2, <1>3, <1>4 DEF Next, CommandStep

-----------------------------------------------------------------------------
\* A record of the command, of what it looks at and aims at; a pinned aim; the lock
\* on a quiet phone; the scrolls around STOP.  Each needs Shape, and no other part.
IInv == Shape /\ PinInv /\ LockedInv /\ ScrollInv

THEOREM ScreenInvariant == Spec => []IInv
<1>1. Init => IInv
  <2>1. Init => ScrollInv BY DEF Init, ScrollInv, NoCommand
  <2>2. QED BY <2>1, InitShape, InitPin, InitLocked DEF IInv
<1>2. IInv /\ [Next]_vars => IInv'
  BY StepShape, StepPin, StepLocked, StepScroll DEF IInv
<1>3. QED BY <1>1, <1>2, PTL DEF Spec

\* However often the screen changed and was observed in between, an input that its
\* caller pinned goes to the text and the place that the caller saw.
THEOREM PinnedInputsHit == Spec => []PinnedInputHitsWhatWasSeen
<1>1. IInv => PinnedInputHitsWhatWasSeen
  BY DEF IInv, PinInv, Aims, PinnedInputHitsWhatWasSeen
<1>2. QED BY <1>1, ScreenInvariant, PTL

\* A phone that stays locked, on a link that holds, gets no input, whatever the
\* command, and the command ends by saying so.
THEOREM LockedPhonesAreLeftAlone == Spec => []LockedPhoneIsLeftAlone
<1>1. IInv => LockedPhoneIsLeftAlone BY DEF IInv, LockedInv, LockedPhoneIsLeftAlone
<1>2. QED BY <1>1, ScreenInvariant, PTL

\* For any number of scrolls, at most one goes in after STOP.
THEOREM StopEndsScrolling == Spec => []OneScrollAfterStop
<1>1. IInv => OneScrollAfterStop BY DEF IInv, ScrollInv, OneScrollAfterStop
<1>2. QED BY <1>1, ScreenInvariant, PTL

-----------------------------------------------------------------------------
(* UiTree: induction over the positions in a dump.                         *)

\* Induction: what fails for a natural number fails first for some least one.
LEMMA LeastNatural ==
    ASSUME NEW S \in SUBSET Nat, S # {}
    PROVE  \E n \in S : \A m \in S : n <= m
<1> DEFINE R == OpToRel(<, Nat)
<1>1. IsWellFoundedOn(R, Nat) BY NatLessThanWellFounded
<1>2. PICK n \in S : \A m \in S : ~(<<m, n>> \in R)
  <2> HIDE DEF R
  <2>1. QED BY <1>1, WFMin
<1>3. \A m \in S : ~(m < n)
  <2> SUFFICES ASSUME NEW m \in S, m < n PROVE FALSE OBVIOUS
  <2>1. <<m, n>> \in R BY DEF OpToRel
  <2>2. QED BY <1>2, <2>1
<1>4. QED BY <1>3

LEMMA Induction ==
    ASSUME NEW S, NEW top \in Nat,
           \A k \in 0..top : (\A j \in 0..top : j < k => j \in S) => k \in S
    PROVE  \A k \in 0..top : k \in S
<1> DEFINE bad == {k \in 0..top : k \notin S}
<1>1. SUFFICES ASSUME bad # {} PROVE FALSE OBVIOUS
<1>2. bad \in SUBSET Nat OBVIOUS
<1>3. PICK k \in bad : \A m \in bad : k <= m BY <1>1, <1>2, LeastNatural
<1>4. ASSUME NEW j \in 0..top, j < k PROVE j \in S BY <1>3, <1>4
<1>5. QED BY <1>4

LEMMA LargestNatural ==
    ASSUME NEW S \in SUBSET Nat, S # {}, NEW bound \in Nat, \A n \in S : n <= bound
    PROVE  \E n \in S : \A m \in S : m <= n
<1> DEFINE B == {b \in Nat : \A n \in S : n <= b}
<1>1. PICK b \in B : \A c \in B : b <= c
  <2>1. B \in SUBSET Nat /\ bound \in B OBVIOUS
  <2>2. QED BY <2>1, LeastNatural
<1>2. \A m \in S : m <= b OBVIOUS
<1>3. ASSUME b \notin S PROVE FALSE
  <2>1. \A m \in S : m < b BY <1>2, <1>3
  <2>2. b > 0
    <3>1. PICK m \in S : TRUE OBVIOUS
    <3>2. m \in Nat /\ m < b BY <2>1
    <3>3. QED BY <3>2
  <2>3. b - 1 \in B BY <2>1, <2>2
  <2>4. QED BY <1>1, <2>3
<1>4. QED BY <1>2, <1>3

\* A recursive function on numbers up to top, whose value at a leaf is base and
\* elsewhere comes from the value at a smaller number, exists.
Follows(g, k, leaves, base, step, from) ==
    g[k] = IF k \in leaves THEN base ELSE step[<<k, g[from[k]]>>]
Recursion(top, D, T, leaves, base, step, from) ==
    /\ top \in Nat /\ D \in SUBSET (0..top)
    /\ base \in T /\ step \in [D \X T -> T]
    /\ \A k \in D \ leaves : from[k] \in D /\ from[k] < k
LEMMA RecursionExists ==
    ASSUME NEW top, NEW D, NEW T, NEW leaves, NEW base, NEW step, NEW from,
           Recursion(top, D, T, leaves, base, step, from)
    PROVE  \E g \in [D -> T] : \A k \in D : Follows(g, k, leaves, base, step, from)
<1> DEFINE Low(n) == {k \in D : k <= n}
           Solves(n, g) == g \in [Low(n) -> T] /\ \A k \in Low(n) : Follows(g, k, leaves, base, step, from)
           Solved(n) == \E g : Solves(n, g)
           S == {n \in Nat : Solved(n)}
<1>0. /\ top \in Nat /\ D \in SUBSET (0..top)
      /\ base \in T /\ step \in [D \X T -> T]
      /\ \A k \in D \ leaves : from[k] \in D /\ from[k] < k
  BY DEF Recursion
<1>1. \A k \in D : k \in Int /\ 0 <= k /\ k <= top BY <1>0
<1>2. ASSUME NEW n \in 0..top, \A j \in 0..top : j < n => Solved(j)
      PROVE  Solved(n)
  <2> DEFINE Below == {k \in D : k < n}
  <2>1. n \in Int /\ 0 <= n BY <1>0
  <2>2. \A k \in D : k \in Int BY <1>1
  <2>3. PICK g : g \in [Below -> T] /\ \A k \in Below : Follows(g, k, leaves, base, step, from)
    <3>1. CASE n = 0
      <4>1. \A k \in D : ~(k < n) BY <1>1, <3>1
      <4>2. Below = {} BY <4>1
      <4>3. [x \in Below |-> base] \in [Below -> T] BY <1>0
      <4>4. QED BY <4>2, <4>3
    <3>2. CASE n > 0
      <4>1. n - 1 \in 0..top /\ n - 1 < n BY <1>0, <3>2
      <4>2. Solved(n - 1) BY <1>2, <4>1
      <4>3. PICK g : Solves(n - 1, g) BY <4>2
      <4>4. \A k \in D : k <= n - 1 <=> k < n BY <2>1, <2>2
      <4>6. Low(n - 1) = Below BY <4>4
      <4>5. QED BY <4>3, <4>6
    <3>3. n = 0 \/ n > 0 BY <2>1
    <3>4. QED BY <3>1, <3>2, <3>3
  <2> DEFINE v == IF n \in leaves THEN base ELSE step[<<n, g[from[n]]>>]
             h == [k \in Low(n) |-> IF k = n THEN v ELSE g[k]]
  <2>4. ASSUME n \in D PROVE v \in T
    <3>1. CASE n \in leaves BY <1>0, <3>1
    <3>2. CASE n \notin leaves
      <4>1. from[n] \in D /\ from[n] < n BY <1>0, <2>4, <3>2
      <4>2. g[from[n]] \in T BY <4>1, <2>3
      <4>3. <<n, g[from[n]]>> \in D \X T BY <2>4, <4>2
      <4>4. step[<<n, g[from[n]]>>] \in T BY <1>0, <4>3
      <4>5. QED BY <3>2, <4>4
    <3>3. QED BY <3>1, <3>2
  <2>5. \A k \in Low(n) : k \in D /\ (k < n \/ k = n) BY <1>1
  <2>6. h \in [Low(n) -> T]
    <3> HIDE DEF v
    <3>1. ASSUME NEW k \in Low(n) PROVE (IF k = n THEN v ELSE g[k]) \in T
      <4>1. CASE k = n BY <4>1, <2>4, <2>5
      <4>2. CASE k # n BY <4>2, <2>3, <2>5
      <4>3. QED BY <4>1, <4>2
    <3>2. QED BY <3>1
  <2>7. ASSUME NEW k \in Low(n) PROVE Follows(h, k, leaves, base, step, from)
    <3> HIDE DEF v
    <3>1. k \notin leaves => h[from[k]] = g[from[k]]
      <4> SUFFICES ASSUME k \notin leaves PROVE h[from[k]] = g[from[k]] OBVIOUS
      <4>1. from[k] \in D /\ from[k] < k BY <1>0, <2>5
      <4>2. k \in Int /\ from[k] \in Int BY <2>2, <2>5, <4>1
      <4>3. from[k] < n BY <2>1, <2>5, <4>1, <4>2
      <4>4. from[k] # n /\ from[k] <= n BY <2>1, <4>2, <4>3
      <4>5. QED BY <4>1, <4>4
    <3>2. CASE k = n
      <4>1. h[n] = v BY <3>2
      <4>2. QED BY <3>1, <3>2, <4>1 DEF Follows, v
    <3>3. CASE k # n
      <4>1. k \in D /\ k < n BY <2>5, <3>3
      <4>2. h[k] = g[k] BY <3>3
      <4>3. Follows(g, k, leaves, base, step, from) BY <2>3, <4>1
      <4>4. QED BY <3>1, <4>2, <4>3 DEF Follows
    <3>4. QED BY <3>2, <3>3
  <2>8. Solves(n, h) BY <2>6, <2>7
  <2>9. QED BY <2>8
<1>3. Solved(top)
  <2>1. \A k \in 0..top : k \in S
    <3> HIDE DEF Solved
    <3>1. \A k \in 0..top : (\A j \in 0..top : j < k => j \in S) => k \in S
      <4>1. \A j \in 0..top : j \in Nat BY <1>0
      <4>2. QED BY <1>2, <4>1
    <3> HIDE DEF S
    <3>2. QED BY <1>0, <3>1, Induction
  <2>2. top \in 0..top BY <1>0
  <2> HIDE DEF Solved
  <2>3. QED BY <2>1, <2>2
<1>4. Low(top) = D
  <2>1. \A k \in D : k <= top BY <1>1
  <2>2. QED BY <2>1
<1>5. PICK g : Solves(top, g) BY <1>3
<1>6. QED BY <1>4, <1>5
-----------------------------------------------------------------------------
(* What the recursive definitions of UiTree compute.                       *)

\* What a dump is, as far as the traversals go.
Doc(d) ==
    /\ Len(d) \in Nat /\ DOMAIN d = 1..Len(d)
    /\ \A k \in 1..Len(d) : /\ d[k].up \in Int /\ 0 <= d[k].up /\ d[k].up < k
                            /\ d[k].editable => d[k].clickable
                            /\ d[k].clickable \in BOOLEAN

LEMMA DumpsAreDocs == ASSUME NEW d \in Dumps PROVE Doc(d)
<1>1. PICK n \in 0..MaxNodes : d \in [1..n -> Nodes] /\ WellFormed(d) BY DEF Dumps
<1>2. n \in Nat
  <2>1. MaxNodes \in Nat BY TreeConstants
  <2>2. QED BY <1>1, <2>1
<1>3. d \in Seq(Nodes) /\ DOMAIN d = 1..n BY <1>1, <1>2
<1>4. Len(d) = n BY <1>2, <1>3
<1>5. ASSUME NEW k \in 1..Len(d)
      PROVE  /\ d[k].up \in Int /\ 0 <= d[k].up /\ d[k].up < k
             /\ d[k].editable => d[k].clickable
             /\ d[k].clickable \in BOOLEAN
  <2>1. d[k] \in Nodes BY <1>1, <1>4
  <2>2. d[k].up \in 0..(k - 1) BY <1>1, <1>3, <1>4 DEF WellFormed
  <2>3. (d[k].editable => d[k].clickable) /\ d[k].clickable \in BOOLEAN BY <2>1 DEF Nodes
  <2>4. QED BY <2>2, <2>3
<1>6. QED BY <1>2, <1>3, <1>4, <1>5 DEF Doc

LEMMA UpIsBefore ==
    ASSUME NEW d, Doc(d), NEW k \in 0..Len(d), k # 0
    PROVE  k \in 1..Len(d) /\ k - 1 \in 0..Len(d) /\ d[k].up \in 0..Len(d) /\ d[k].up < k
<1>1. Len(d) \in Nat /\ k \in 1..Len(d) BY DEF Doc
<1>2. d[k].up \in Int /\ 0 <= d[k].up /\ d[k].up < k BY <1>1 DEF Doc
<1>3. QED BY <1>1, <1>2

AroundIs(d, up) == up = [k \in 0..Len(d) |-> IF k = 0 THEN {} ELSE {d[k].up} \cup up[d[k].up]]
LEMMA AroundUnfolds ==
    ASSUME NEW d, Doc(d)
    PROVE  /\ Around(d)[0] = {}
           /\ \A k \in 1..Len(d) : Around(d)[k] = {d[k].up} \cup Around(d)[d[k].up]
<1> DEFINE D == 0..Len(d)
           T == SUBSET Nat
           leaves == {0}
           base == {}
           step == [p \in D \X T |-> ({d[p[1]].up} \cap Nat) \cup p[2]]
           from == [k \in D |-> d[k].up]
<1>1. Len(d) \in Nat BY DEF Doc
<1>2. \A k \in D \ leaves : from[k] \in D /\ from[k] < k BY UpIsBefore
<1>3. step \in [D \X T -> T] OBVIOUS
<1>4. PICK g \in [D -> T] : \A k \in D : Follows(g, k, leaves, base, step, from)
  <2>1. Recursion(Len(d), D, T, leaves, base, step, from) BY <1>1, <1>2, <1>3 DEF Recursion
  <2> HIDE DEF D, T, leaves, base, step, from
  <2>2. QED BY <2>1, RecursionExists
<1>5. ASSUME NEW k \in D PROVE g[k] = IF k = 0 THEN {} ELSE {d[k].up} \cup g[d[k].up]
  <2>1. CASE k = 0 BY <1>4, <2>1 DEF Follows
  <2>2. CASE k # 0
    <3>1. d[k].up \in D BY <2>2, UpIsBefore
    <3>2. <<k, g[d[k].up]>> \in D \X T BY <1>4, <3>1
    <3>3. g[k] = step[<<k, g[d[k].up]>>] BY <1>4, <2>2 DEF Follows
    <3>4. d[k].up \in Nat BY <3>1
    <3>5. step[<<k, g[d[k].up]>>] = {d[k].up} \cup g[d[k].up] BY <3>2, <3>4
    <3>6. QED BY <2>2, <3>3, <3>5
  <2>3. QED BY <2>1, <2>2
<1>6. AroundIs(d, g) BY <1>4, <1>5 DEF AroundIs
<1>7. AroundIs(d, Around(d))
  <2> DEFINE C == CHOOSE up : AroundIs(d, up)
  <2>1. AroundIs(d, C) BY <1>6
  <2>2. Around(d) = C BY DEF Around, AroundIs
  <2>3. QED BY <2>1, <2>2
<1>8. 0 \in D /\ \A k \in 1..Len(d) : k \in D /\ k # 0 BY <1>1
<1>9. QED BY <1>7, <1>8 DEF AroundIs

\* The counter of visit, when it has been past a node.
CounterIs(d, counter) ==
    counter = [k \in 0..Len(d) |->
                  IF k = 0 THEN 0
                  ELSE IF Meaningful(d[k]) THEN counter[k - 1] + 1 ELSE counter[k - 1]]
Counter(d) == CHOOSE counter : CounterIs(d, counter)
LEMMA CounterUnfolds ==
    ASSUME NEW d, Doc(d)
    PROVE  /\ Counter(d) \in [0..Len(d) -> Nat]
           /\ Counter(d)[0] = 0
           /\ \A k \in 1..Len(d) : Counter(d)[k] = IF Meaningful(d[k]) THEN Counter(d)[k - 1] + 1
                                                   ELSE Counter(d)[k - 1]
<1> DEFINE D == 0..Len(d)
           T == Nat
           leaves == {0}
           base == 0
           step == [p \in D \X T |-> IF Meaningful(d[p[1]]) THEN p[2] + 1 ELSE p[2]]
           from == [k \in D |-> k - 1]
<1>1. Len(d) \in Nat BY DEF Doc
<1>2. \A k \in D \ leaves : from[k] \in D /\ from[k] < k BY <1>1
<1>3. step \in [D \X T -> T] OBVIOUS
<1>4. PICK g \in [D -> T] : \A k \in D : Follows(g, k, leaves, base, step, from)
  <2>1. Recursion(Len(d), D, T, leaves, base, step, from) BY <1>1, <1>2, <1>3 DEF Recursion
  <2> HIDE DEF D, T, leaves, base, step, from
  <2>2. QED BY <2>1, RecursionExists
<1>5. ASSUME NEW k \in D
      PROVE  g[k] = IF k = 0 THEN 0 ELSE IF Meaningful(d[k]) THEN g[k - 1] + 1 ELSE g[k - 1]
  <2>1. CASE k = 0 BY <1>4, <2>1 DEF Follows
  <2>2. CASE k # 0
    <3>1. k - 1 \in D BY <1>1, <2>2
    <3>2. <<k, g[k - 1]>> \in D \X Nat BY <1>4, <3>1
    <3>3. g[k] = step[<<k, g[k - 1]>>] BY <1>4, <2>2 DEF Follows
    <3>4. QED BY <2>2, <3>2, <3>3
  <2>3. QED BY <2>1, <2>2
<1>6. CounterIs(d, g) BY <1>4, <1>5 DEF CounterIs
<1>7. CounterIs(d, Counter(d)) BY <1>6 DEF Counter
<1>8. Counter(d) = [k \in D |-> IF k = 0 THEN 0
                                ELSE IF Meaningful(d[k]) THEN Counter(d)[k - 1] + 1 ELSE Counter(d)[k - 1]]
  BY <1>7 DEF CounterIs
<1>9. 0 \in D /\ \A k \in 1..Len(d) : k \in D /\ k # 0 BY <1>1
<1>10. Counter(d)[0] = 0 BY <1>8, <1>9
<1>11. ASSUME NEW k \in 1..Len(d)
       PROVE  Counter(d)[k] = IF Meaningful(d[k]) THEN Counter(d)[k - 1] + 1 ELSE Counter(d)[k - 1]
  <2>1. k \in D /\ k # 0 BY <1>9
  <2> HIDE DEF D
  <2>2. QED BY <1>8, <2>1
<1>12. \A k \in D : Counter(d)[k] \in Nat
  <2> DEFINE S == {j \in D : Counter(d)[j] \in Nat}
  <2>1. ASSUME NEW k \in D, \A j \in D : j < k => j \in S PROVE k \in S
    <3>1. CASE k = 0 BY <1>10, <3>1
    <3>2. CASE k # 0
      <4>1. k - 1 \in D /\ k - 1 < k /\ k \in 1..Len(d) BY <1>1, <3>2
      <4>2. Counter(d)[k - 1] \in Nat BY <2>1, <4>1
      <4>3. Counter(d)[k] \in Nat BY <1>11, <4>1, <4>2
      <4>4. QED BY <4>3
    <3>3. QED BY <3>1, <3>2
  <2>2. \A k \in D : k \in S
    <3> HIDE DEF S
    <3>1. QED BY <1>1, <2>1, Induction
  <2>3. QED BY <2>2
<1>13. DOMAIN Counter(d) = D /\ Counter(d) = [k \in D |-> Counter(d)[k]] BY <1>8
<1>14. Counter(d) \in [D -> Nat] BY <1>12, <1>13
<1>15. QED BY <1>10, <1>11, <1>14

Index(d, k) == IF k # 0 /\ Meaningful(d[k]) THEN Counter(d)[k - 1] ELSE None
HandedIs(d, handed) ==
    handed = [k \in 0..Len(d) |-> IF k = 0 THEN None ELSE HandedDown(Index(d, d[k].up), handed[d[k].up])]
Handed(d) == CHOOSE handed : HandedIs(d, handed)
LEMMA HandedUnfolds ==
    ASSUME NEW d, Doc(d)
    PROVE  /\ Handed(d)[0] = None
           /\ \A k \in 1..Len(d) : Handed(d)[k] = IF Index(d, d[k].up) # None THEN Index(d, d[k].up)
                                                  ELSE Handed(d)[d[k].up]
<1> DEFINE D == 0..Len(d)
           T == {Index(d, k) : k \in D} \cup {None}
           leaves == {0}
           base == None
           step == [p \in D \X T |-> IF Index(d, d[p[1]].up) \in T THEN HandedDown(Index(d, d[p[1]].up), p[2]) ELSE None]
           from == [k \in D |-> d[k].up]
<1>1. Len(d) \in Nat BY DEF Doc
<1>2. \A k \in D \ leaves : from[k] \in D /\ from[k] < k BY UpIsBefore
<1>3. step \in [D \X T -> T] BY DEF HandedDown
<1>4. PICK g \in [D -> T] : \A k \in D : Follows(g, k, leaves, base, step, from)
  <2>1. Recursion(Len(d), D, T, leaves, base, step, from) BY <1>1, <1>2, <1>3 DEF Recursion
  <2> HIDE DEF D, T, leaves, base, step, from
  <2>2. QED BY <2>1, RecursionExists
<1>5. ASSUME NEW k \in D
      PROVE  g[k] = IF k = 0 THEN None ELSE HandedDown(Index(d, d[k].up), g[d[k].up])
  <2>1. CASE k = 0 BY <1>4, <2>1 DEF Follows
  <2>2. CASE k # 0
    <3>1. d[k].up \in D BY <2>2, UpIsBefore
    <3>2. <<k, g[d[k].up]>> \in D \X T BY <1>4, <3>1
    <3>3. g[k] = step[<<k, g[d[k].up]>>] BY <1>4, <2>2 DEF Follows
    <3>4. Index(d, d[k].up) \in T BY <3>1
    <3> HIDE DEF T, D
    <3>5. QED BY <2>2, <3>2, <3>3, <3>4
  <2>3. QED BY <2>1, <2>2
<1>6. HandedIs(d, g) BY <1>4, <1>5 DEF HandedIs
<1>7. HandedIs(d, Handed(d)) BY <1>6 DEF Handed
<1>8. 0 \in D /\ \A k \in 1..Len(d) : k \in D /\ k # 0 BY <1>1
<1>9. QED BY <1>7, <1>8 DEF HandedIs, HandedDown

LEMMA IterTreeIs ==
    ASSUME NEW d PROVE IterTree(d) = [k \in 0..Len(d) |-> [i |-> Index(d, k), parent |-> Handed(d)[k]]]
BY DEF IterTree, Counter, CounterIs, Index, Handed, HandedIs

\* What parse_elements lists up to each node.
ElsIs(d, els) ==
    els = [k \in 0..Len(d) |->
              IF k = 0 THEN <<>>
              ELSE IF Meaningful(d[k])
                   THEN Append(els[k - 1], [i |-> Len(els[k - 1]), text |-> d[k].text,
                                            clickable |-> d[k].clickable, editable |-> d[k].editable])
                   ELSE els[k - 1]]
Els(d) == CHOOSE els : ElsIs(d, els)
ElementTypes(d) ==
    [i : Nat, text : {d[k].text : k \in 1..Len(d)}, clickable : BOOLEAN,
     editable : {d[k].editable : k \in 1..Len(d)}]
LEMMA ElsUnfolds ==
    ASSUME NEW d, Doc(d)
    PROVE  /\ ParseElements(d) = Els(d)[Len(d)]
           /\ Els(d)[0] = <<>>
           /\ \A k \in 0..Len(d) : Els(d)[k] \in Seq(ElementTypes(d))
           /\ \A k \in 1..Len(d) :
                Els(d)[k] = IF Meaningful(d[k])
                            THEN Append(Els(d)[k - 1],
                                        [i |-> Len(Els(d)[k - 1]), text |-> d[k].text,
                                         clickable |-> d[k].clickable, editable |-> d[k].editable])
                            ELSE Els(d)[k - 1]
<1> DEFINE D == 0..Len(d)
           R == ElementTypes(d)
           T == Seq(R)
           e(k, before) == [i |-> Len(before), text |-> d[k].text,
                            clickable |-> d[k].clickable, editable |-> d[k].editable]
           leaves == {0}
           base == <<>>
           value(k, before) == IF Meaningful(d[k]) THEN Append(before, e(k, before)) ELSE before
           step == [p \in D \X T |-> IF p[1] = 0 THEN <<>> ELSE value(p[1], p[2])]
           from == [k \in D |-> k - 1]
<1>1. Len(d) \in Nat BY DEF Doc
<1>2. \A k \in D \ leaves : from[k] \in D /\ from[k] < k BY <1>1
<1>3. step \in [D \X T -> T]
  <2>1. ASSUME NEW k \in D, k # 0, NEW before \in T PROVE value(k, before) \in T
    <3>1. k \in 1..Len(d) BY <1>1, <2>1
    <3>2. d[k].clickable \in BOOLEAN BY <3>1 DEF Doc
    <3>3. e(k, before) \in R BY <3>1, <3>2 DEF ElementTypes
    <3> HIDE DEF R, e
    <3>4. Append(before, e(k, before)) \in T BY <3>3
    <3>5. QED BY <3>4
  <2>2. <<>> \in T OBVIOUS
  <2>3. ASSUME NEW p \in D \X T PROVE (IF p[1] = 0 THEN <<>> ELSE value(p[1], p[2])) \in T
    <3> HIDE DEF D, T, value
    <3>1. p[1] \in D /\ p[2] \in T OBVIOUS
    <3>2. QED BY <2>1, <2>2, <3>1
  <2> HIDE DEF D, T, value
  <2>4. QED BY <2>3
<1>4. PICK g \in [D -> T] : \A k \in D : Follows(g, k, leaves, base, step, from)
  <2>1. <<>> \in T OBVIOUS
  <2>2. Recursion(Len(d), D, T, leaves, base, step, from)
    <3> HIDE DEF T, step, from
    <3>1. QED BY <1>1, <1>2, <1>3, <2>1 DEF Recursion
  <2> HIDE DEF D, T, leaves, base, step, from
  <2>3. QED BY <2>2, RecursionExists
<1>5. ASSUME NEW k \in D PROVE g[k] = IF k = 0 THEN <<>> ELSE value(k, g[k - 1])
  <2> HIDE DEF T, value
  <2>1. CASE k = 0 BY <1>4, <2>1 DEF Follows
  <2>2. CASE k # 0
    <3>1. k - 1 \in D BY <1>1, <2>2
    <3>2. <<k, g[k - 1]>> \in D \X T BY <1>4, <3>1
    <3>3. g[k] = step[<<k, g[k - 1]>>] BY <1>4, <2>2 DEF Follows
    <3> HIDE DEF D
    <3>4. QED BY <2>2, <3>2, <3>3
  <2>3. QED BY <2>1, <2>2
<1>6. ElsIs(d, g) BY <1>4, <1>5 DEF ElsIs
<1>7. ElsIs(d, Els(d)) BY <1>6 DEF Els
<1>8. Els(d) = [k \in D |-> IF k = 0 THEN <<>> ELSE value(k, Els(d)[k - 1])] BY <1>7 DEF ElsIs
<1>9. 0 \in D /\ \A k \in 1..Len(d) : k \in D /\ k # 0 BY <1>1
<1>10. Els(d)[0] = <<>> BY <1>8, <1>9
<1>11. ASSUME NEW k \in 1..Len(d) PROVE Els(d)[k] = value(k, Els(d)[k - 1])
  <2>1. k \in D /\ k # 0 BY <1>9
  <2> HIDE DEF D, value
  <2>2. QED BY <1>8, <2>1
<1>12. \A k \in D : Els(d)[k] \in T
  <2> DEFINE S == {j \in D : Els(d)[j] \in T}
  <2>1. ASSUME NEW k \in D, \A j \in D : j < k => j \in S PROVE k \in S
    <3>0. <<>> \in T OBVIOUS
    <3>1. CASE k = 0 BY <1>10, <3>0, <3>1
    <3>2. CASE k # 0
      <4>1. k - 1 \in D /\ k - 1 < k /\ k \in 1..Len(d) BY <1>1, <3>2
      <4>2. Els(d)[k - 1] \in T BY <2>1, <4>1
      <4>3. <<k, Els(d)[k - 1]>> \in D \X T BY <4>2
      <4>4. step[<<k, Els(d)[k - 1]>>] \in T
        <5> HIDE DEF D, T, step
        <5>1. QED BY <1>3, <4>3
      <4>5. step[<<k, Els(d)[k - 1]>>] = value(k, Els(d)[k - 1])
        <5> HIDE DEF D, T, value
        <5>1. QED BY <4>3, <3>2
      <4>6. QED BY <1>11, <4>1, <4>4, <4>5
    <3>3. QED BY <3>1, <3>2
  <2>2. \A k \in D : k \in S
    <3> HIDE DEF S
    <3>1. QED BY <1>1, <2>1, Induction
  <2>3. QED BY <2>2
<1>13. ParseElements(d) = Els(d)[Len(d)] BY DEF ParseElements, Els, ElsIs
<1>14. QED BY <1>10, <1>11, <1>12, <1>13

\* A parent relation whose walks outwards end.
Chained(parent, top) ==
    /\ top \in Nat /\ DOMAIN parent \in SUBSET (0..top)
    /\ \A i \in DOMAIN parent : parent[i] # None => parent[i] \in DOMAIN parent /\ parent[i] < i
ChainIs(parent, chain) ==
    chain = [i \in DOMAIN parent |->
                IF parent[i] = None THEN <<>> ELSE <<parent[i]>> \o chain[parent[i]]]
LEMMA AncestorsUnfold ==
    ASSUME NEW parent, NEW top, Chained(parent, top)
    PROVE  /\ DOMAIN Ancestors(parent) = DOMAIN parent
           /\ \A i \in DOMAIN parent :
                Ancestors(parent)[i] = IF parent[i] = None THEN <<>>
                                       ELSE <<parent[i]>> \o Ancestors(parent)[parent[i]]
<1> DEFINE D == DOMAIN parent
           T == Seq(D)
           leaves == {i \in D : parent[i] = None}
           base == <<>>
           step == [p \in D \X T |-> IF parent[p[1]] = None THEN <<>> ELSE <<parent[p[1]]>> \o p[2]]
           from == parent
<1>1. /\ top \in Nat /\ D \in SUBSET (0..top)
      /\ \A i \in D : parent[i] # None => parent[i] \in D /\ parent[i] < i
  BY DEF Chained
<1>2. \A k \in D \ leaves : from[k] \in D /\ from[k] < k BY <1>1
<1>3. step \in [D \X T -> T]
  <2>1. ASSUME NEW k \in D, NEW inner \in T, parent[k] # None PROVE <<parent[k]>> \o inner \in T
    <3>1. parent[k] \in D BY <1>1, <2>1
    <3> HIDE DEF D
    <3>2. <<parent[k]>> \in Seq(D) BY <3>1
    <3>3. QED BY <3>2
  <2>2. <<>> \in T OBVIOUS
  <2> HIDE DEF T, D
  <2>3. QED BY <2>1, <2>2
<1>4. PICK g \in [D -> T] : \A k \in D : Follows(g, k, leaves, base, step, from)
  <2>1. <<>> \in T OBVIOUS
  <2>2. Recursion(top, D, T, leaves, base, step, from)
    <3> HIDE DEF T, D, step, leaves, from
    <3>1. QED BY <1>1, <1>2, <1>3, <2>1 DEF Recursion
  <2> HIDE DEF D, T, leaves, base, step, from
  <2>3. QED BY <2>2, RecursionExists
<1>5. ASSUME NEW k \in D PROVE g[k] = IF parent[k] = None THEN <<>> ELSE <<parent[k]>> \o g[parent[k]]
  <2> HIDE DEF T, D
  <2>1. CASE parent[k] = None BY <1>4, <2>1 DEF Follows
  <2>2. CASE parent[k] # None
    <3>1. parent[k] \in D BY <1>1, <2>2
    <3>2. <<k, g[parent[k]]>> \in D \X T BY <1>4, <3>1
    <3>3. g[k] = step[<<k, g[parent[k]]>>] BY <1>4, <2>2 DEF Follows
    <3>4. QED BY <2>2, <3>2, <3>3
  <2>3. QED BY <2>1, <2>2
<1>6. ChainIs(parent, g) BY <1>4, <1>5 DEF ChainIs
<1>7. ChainIs(parent, Ancestors(parent))
  <2> DEFINE C == CHOOSE chain : ChainIs(parent, chain)
  <2>1. ChainIs(parent, C) BY <1>6
  <2>2. Ancestors(parent) = C BY DEF Ancestors, ChainIs
  <2>3. QED BY <2>1, <2>2
<1>8. QED BY <1>7 DEF ChainIs

-----------------------------------------------------------------------------
(* What a dump's traversals compute, against containment in it.            *)

LEMMA AroundBelow ==
    ASSUME Doc(dump)
    PROVE  \A k \in 0..Len(dump) : \A m \in Around(dump)[k] : m \in 0..Len(dump) /\ m < k
<1> DEFINE D == 0..Len(dump)
           Fine(k) == \A m \in Around(dump)[k] : m \in D /\ m < k
           S == {k \in D : Fine(k)}
<1>1. Len(dump) \in Nat BY DEF Doc
<1>2. ASSUME NEW k \in D, \A j \in D : j < k => j \in S PROVE k \in S
  <2>1. CASE k = 0 BY <2>1, AroundUnfolds
  <2>2. CASE k # 0
    <3>1. k \in 1..Len(dump) /\ dump[k].up \in D /\ dump[k].up < k BY <2>2, UpIsBefore
    <3>2. Around(dump)[k] = {dump[k].up} \cup Around(dump)[dump[k].up] BY <3>1, AroundUnfolds
    <3>3. Fine(dump[k].up) BY <1>2, <3>1
    <3>4. ASSUME NEW m \in Around(dump)[k] PROVE m \in D /\ m < k
      <4>1. CASE m = dump[k].up BY <3>1, <4>1
      <4>2. CASE m \in Around(dump)[dump[k].up]
        <5>1. m \in D /\ m < dump[k].up BY <3>3, <4>2
        <5>2. QED BY <1>1, <3>1, <5>1
      <4>3. QED BY <3>2, <4>1, <4>2
    <3>5. QED BY <3>4
  <2>3. QED BY <2>1, <2>2
<1>3. \A k \in D : k \in S
  <2> HIDE DEF S
  <2>1. QED BY <1>1, <1>2, Induction
<1>4. QED BY <1>3

\* What is around a node that is around another is around that other too.
LEMMA AroundNested ==
    ASSUME Doc(dump)
    PROVE  \A k \in 0..Len(dump) : \A m \in Around(dump)[k] :
               Around(dump)[m] = {n \in Around(dump)[k] : n < m}
<1> DEFINE D == 0..Len(dump)
           A == Around(dump)
           Fine(k) == \A m \in A[k] : A[m] = {n \in A[k] : n < m}
           S == {k \in D : Fine(k)}
<1>1. Len(dump) \in Nat BY DEF Doc
<1>2. ASSUME NEW k \in D, \A j \in D : j < k => j \in S PROVE k \in S
  <2>1. CASE k = 0 BY <2>1, AroundUnfolds
  <2>2. CASE k # 0
    <3> DEFINE up == dump[k].up
    <3>1. k \in 1..Len(dump) /\ up \in D /\ up < k BY <2>2, UpIsBefore
    <3>2. A[k] = {up} \cup A[up] BY <3>1, AroundUnfolds
    <3>3. Fine(up) BY <1>2, <3>1
    <3>4. \A n \in A[up] : n \in Int /\ n < up BY <1>1, <3>1, AroundBelow
    <3>5. up \in Int BY <1>1, <3>1
    <3> HIDE DEF A, up, D
    <3>6. ASSUME NEW m \in A[k] PROVE A[m] = {n \in A[k] : n < m}
      <4>1. CASE m = up BY <3>2, <3>4, <3>5, <4>1
      <4>2. CASE m \in A[up]
        <5>1. m \in Int /\ ~(up < m) BY <3>4, <3>5, <4>2
        <5>2. A[m] = {n \in A[up] : n < m} BY <3>3, <4>2
        <5>3. QED BY <3>2, <5>1, <5>2
      <4>3. QED BY <3>2, <4>1, <4>2
    <3>7. QED BY <3>6
  <2>3. QED BY <2>1, <2>2
<1>3. \A k \in D : k \in S
  <2> HIDE DEF S
  <2>1. QED BY <1>1, <1>2, Induction
<1>4. QED BY <1>3

LEMMA SaidIsBelow ==
    ASSUME Doc(dump)
    PROVE  /\ Len(dump) \in Nat
           /\ \A k \in Said : k \in 1..Len(dump) /\ k \in Int /\ Meaningful(dump[k])
           /\ \A k \in 1..Len(dump) : Meaningful(dump[k]) => k \in Said
           /\ IsFiniteSet(Said)
<1>1. Len(dump) \in Nat /\ DOMAIN dump = 1..Len(dump) BY DEF Doc
<1>2. IsFiniteSet(1..Len(dump)) BY <1>1, FS_Interval
<1>3. Said \in SUBSET (1..Len(dump)) BY <1>1 DEF Said
<1>4. IsFiniteSet(Said) BY <1>2, <1>3, FS_Subset
<1>5. QED BY <1>1, <1>4 DEF Said

\* The counter counts the nodes that say something.
Upto(k) == {n \in Said : n <= k}
LEMMA CounterCounts ==
    ASSUME Doc(dump)
    PROVE  \A k \in 0..Len(dump) : /\ IsFiniteSet(Upto(k))
                                   /\ Counter(dump)[k] = Cardinality(Upto(k))
<1> DEFINE D == 0..Len(dump)
           C == Counter(dump)
           Fine(k) == C[k] = Cardinality(Upto(k))
           S == {k \in D : Fine(k)}
<1>1. Len(dump) \in Nat BY DEF Doc
<1>2. ASSUME NEW k PROVE IsFiniteSet(Upto(k))
  <2>1. Upto(k) \in SUBSET Said BY DEF Upto
  <2>2. QED BY <2>1, SaidIsBelow, FS_Subset
<1>3. ASSUME NEW k \in D, \A j \in D : j < k => j \in S PROVE k \in S
  <2>1. CASE k = 0
    <3>1. Upto(k) = {} BY <2>1, SaidIsBelow DEF Upto
    <3>2. QED BY <2>1, <3>1, FS_EmptySet, CounterUnfolds
  <2>2. CASE k # 0
    <3>1. k \in 1..Len(dump) /\ k - 1 \in D /\ k - 1 < k BY <1>1, <2>2
    <3>2. C[k - 1] = Cardinality(Upto(k - 1)) BY <1>3, <3>1
    <3>3. k \notin Upto(k - 1) BY <1>1, <3>1 DEF Upto
    <3>4. CASE Meaningful(dump[k])
      <4>1. k \in Said BY <3>1, <3>4, SaidIsBelow
      <4>2. Upto(k) = Upto(k - 1) \cup {k}
        <5>1. \A n \in Said : n <= k <=> n <= k - 1 \/ n = k BY <1>1, <3>1, SaidIsBelow
        <5>2. QED BY <4>1, <5>1 DEF Upto
      <4>3. Cardinality(Upto(k)) = Cardinality(Upto(k - 1)) + 1 BY <1>2, <3>3, <4>2, FS_AddElement
      <4>4. QED BY <3>1, <3>2, <3>4, <4>3, CounterUnfolds
    <3>5. CASE ~Meaningful(dump[k])
      <4>1. k \notin Said BY <3>5, SaidIsBelow
      <4>2. Upto(k) = Upto(k - 1)
        <5>1. \A n \in Said : n <= k <=> n <= k - 1 BY <1>1, <3>1, <4>1, SaidIsBelow
        <5>2. QED BY <5>1 DEF Upto
      <4>3. QED BY <3>1, <3>2, <3>5, <4>2, CounterUnfolds
    <3>6. QED BY <3>4, <3>5
  <2>3. QED BY <2>1, <2>2
<1>4. \A k \in D : k \in S
  <2> HIDE DEF S
  <2>1. QED BY <1>1, <1>3, Induction
<1>5. QED BY <1>2, <1>4

LEMMA IndexCounts ==
    ASSUME Doc(dump), NEW k \in Said
    PROVE  /\ Index(dump, k) = Cardinality({n \in Said : n < k})
           /\ Index(dump, k) \in Nat /\ Index(dump, k) < Len(dump) /\ Index(dump, k) # None
<1>1. Len(dump) \in Nat /\ k \in 1..Len(dump) /\ Meaningful(dump[k]) BY SaidIsBelow
<1>2. k # 0 /\ k - 1 \in 0..Len(dump) BY <1>1
<1>3. Index(dump, k) = Counter(dump)[k - 1] BY <1>1, <1>2 DEF Index
<1>4. \A n \in Said : n < k <=> n <= k - 1 BY <1>1, SaidIsBelow
<1>5. {n \in Said : n < k} = Upto(k - 1) BY <1>4 DEF Upto
<1>6. Index(dump, k) = Cardinality({n \in Said : n < k}) BY <1>2, <1>3, <1>5, CounterCounts
<1>7. Index(dump, k) \in Nat BY <1>2, <1>3, CounterUnfolds
<1>8. Index(dump, k) < Len(dump)
  <2>1. \A n \in Upto(k - 1) : n \in 1..(k - 1) BY <1>1, SaidIsBelow DEF Upto
  <2>2. IsFiniteSet(1..(k - 1)) /\ Cardinality(1..(k - 1)) = k - 1
    <3>1. k \in Int /\ k >= 1 /\ 1 \in Int /\ k - 1 \in Int BY <1>1
    <3> DEFINE b == k - 1
    <3>2. b \in Int /\ b >= 0 BY <3>1
    <3> HIDE DEF b
    <3>3. IsFiniteSet(1..b) /\ Cardinality(1..b) = IF 1 > b THEN 0 ELSE b - 1 + 1 BY <3>1, <3>2, FS_Interval
    <3>4. (IF 1 > b THEN 0 ELSE b - 1 + 1) = b BY <3>2
    <3>5. QED BY <3>3, <3>4 DEF b
  <2>3. Cardinality(Upto(k - 1)) <= k - 1 BY <2>1, <2>2, FS_Subset
  <2>4. Index(dump, k) <= k - 1 BY <1>5, <1>6, <2>3
  <2>5. QED BY <1>1, <1>7, <2>4
<1>9. None \notin Nat BY TreeConstants
<1>10. QED BY <1>6, <1>7, <1>8, <1>9

LEMMA IndexGrows ==
    ASSUME Doc(dump), NEW j \in Said, NEW k \in Said, j < k
    PROVE  Index(dump, j) < Index(dump, k)
<1> DEFINE J == {n \in Said : n < j}
           K == {n \in Said : n < k}
<1>1. j \in Int /\ k \in Int /\ \A n \in Said : n \in Int BY SaidIsBelow
<1>2. J \cup {j} \in SUBSET K
  <2>1. \A n \in Said : n < j => n < k BY <1>1
  <2>2. QED BY <2>1
<1>3. IsFiniteSet(J) /\ IsFiniteSet(K)
  <2>1. J \in SUBSET Said /\ K \in SUBSET Said OBVIOUS
  <2>2. IsFiniteSet(Said) BY SaidIsBelow
  <2> HIDE DEF J, K
  <2>3. QED BY <2>1, <2>2, FS_Subset
<1>4. j \notin J BY <1>1
<1>5. Index(dump, j) = Cardinality(J) /\ Index(dump, k) = Cardinality(K) BY IndexCounts
<1>6. Index(dump, j) \in Nat /\ Index(dump, k) \in Nat BY IndexCounts
<1> HIDE DEF J, K
<1>7. Cardinality(J \cup {j}) = Cardinality(J) + 1 BY <1>3, <1>4, FS_AddElement
<1>8. Cardinality(J \cup {j}) <= Cardinality(K) BY <1>2, <1>3, FS_Subset
<1>9. QED BY <1>5, <1>6, <1>7, <1>8

\* An index names a place, and both go from the top to the bottom.
Ids == {Index(dump, k) : k \in Said}
LEMMA IndexNames ==
    ASSUME Doc(dump), NEW k \in Said
    PROVE  Place(Index(dump, k)) = k
<1>1. \A n \in Said : n \in Int BY SaidIsBelow
<1>2. \A n \in Said : Index(dump, n) \in Nat BY IndexCounts
<1>3. \A n \in Said : Index(dump, n) = Index(dump, k) => n = k
  <2> SUFFICES ASSUME NEW n \in Said, Index(dump, n) = Index(dump, k), n # k PROVE FALSE OBVIOUS
  <2>1. n < k \/ k < n BY <1>1
  <2>2. Index(dump, n) < Index(dump, k) \/ Index(dump, k) < Index(dump, n) BY <2>1, IndexGrows
  <2>3. QED BY <1>2, <2>2
<1>4. \A n \in Said : Cardinality({m \in Said : m < n}) = Index(dump, n) BY IndexCounts
<1>5. \A n \in Said : Cardinality({m \in Said : m < n}) = Index(dump, k) <=> n = k BY <1>3, <1>4
<1>6. QED BY <1>5 DEF Place

LEMMA IdsAreNames ==
    ASSUME Doc(dump)
    PROVE  /\ \A i \in Ids : /\ i \in Nat /\ i < Len(dump) /\ i # None
                             /\ Place(i) \in Said /\ Index(dump, Place(i)) = i
           /\ \A i, j \in Ids : i < j <=> Place(i) < Place(j)
           /\ \A i, j \in Ids : Place(i) = Place(j) => i = j
           /\ \A k \in Said : Index(dump, k) \in Ids
<1>1. ASSUME NEW i \in Ids
      PROVE  /\ i \in Nat /\ i < Len(dump) /\ i # None
             /\ Place(i) \in Said /\ Index(dump, Place(i)) = i
  <2>1. PICK k \in Said : i = Index(dump, k) BY DEF Ids
  <2>2. Place(i) = k BY <2>1, IndexNames
  <2>3. QED BY <2>1, <2>2, IndexCounts
<1>2. ASSUME NEW i \in Ids, NEW j \in Ids PROVE i < j <=> Place(i) < Place(j)
  <2>1. Place(i) \in Int /\ Place(j) \in Int BY <1>1, SaidIsBelow
  <2>2. Place(i) < Place(j) => i < j BY <1>1, IndexGrows
  <2>3. Place(j) < Place(i) => j < i BY <1>1, IndexGrows
  <2>4. Place(i) = Place(j) => i = j BY <1>1
  <2>5. i \in Nat /\ j \in Nat BY <1>1
  <2>6. QED BY <2>1, <2>2, <2>3, <2>4, <2>5
<1>3. QED BY <1>1, <1>2 DEF Ids

\* The innermost of some nodes that say something.
LEMMA InnermostIs ==
    ASSUME Doc(dump), NEW S \in SUBSET Said
    PROVE  /\ S = {} => Innermost(S) = 0
           /\ S # {} => /\ Innermost(S) \in S /\ Innermost(S) # 0
                        /\ \A n \in S : n <= Innermost(S)
           /\ \A k \in S : (\A n \in S : n <= k) => Innermost(S) = k
<1>1. Len(dump) \in Nat /\ \A k \in Said : k \in 1..Len(dump) BY SaidIsBelow
<1>2. S = {} => Innermost(S) = 0 BY DEF Innermost
<1>3. ASSUME S # {}
      PROVE  Innermost(S) \in S /\ \A n \in S : n <= Innermost(S)
  <2>1. S \in SUBSET Nat /\ \A n \in S : n <= Len(dump) BY <1>1
  <2>2. \E k \in S : \A n \in S : n <= k BY <1>1, <1>3, <2>1, LargestNatural
  <2>3. QED BY <1>3, <2>2 DEF Innermost
<1>4. ASSUME NEW k \in S, \A n \in S : n <= k PROVE Innermost(S) = k
  <2>1. Innermost(S) \in S /\ \A n \in S : n <= Innermost(S) BY <1>3, <1>4
  <2>2. k \in Int /\ Innermost(S) \in Int BY <1>1, <2>1
  <2>3. k <= Innermost(S) /\ Innermost(S) <= k BY <1>4, <2>1
  <2>4. QED BY <2>2, <2>3
<1>5. S # {} => Innermost(S) # 0
  <2>1. 0 \notin Said BY <1>1
  <2>2. QED BY <1>3, <2>1
<1>6. QED BY <1>2, <1>3, <1>4, <1>5

LEMMA OutsideIsSaid ==
    ASSUME Doc(dump), NEW k \in 0..Len(dump)
    PROVE  /\ Outside(k) \in SUBSET Said
           /\ \A n \in Outside(k) : n < k /\ n \in 0..Len(dump) /\ n \in Around(dump)[k]
           /\ \A m \in Outside(k) : Outside(m) = {n \in Outside(k) : n < m}
<1>1. Outside(k) \in SUBSET Said BY DEF Outside
<1>2. \A n \in Outside(k) : n < k /\ n \in 0..Len(dump) /\ n \in Around(dump)[k]
  BY AroundBelow DEF Outside
<1>3. ASSUME NEW m \in Outside(k) PROVE Outside(m) = {n \in Outside(k) : n < m}
  <2>1. Around(dump)[m] = {n \in Around(dump)[k] : n < m} BY <1>2, AroundNested
  <2>2. QED BY <2>1 DEF Outside
<1>4. QED BY <1>1, <1>2, <1>3

\* What a node is handed is the index of the innermost one around it.
LEMMA HandedIsInnermost ==
    ASSUME Doc(dump)
    PROVE  \A k \in 0..Len(dump) :
               Handed(dump)[k] = IF Outside(k) = {} THEN None ELSE Index(dump, Innermost(Outside(k)))
<1> DEFINE D == 0..Len(dump)
           Fine(k) == Handed(dump)[k] = IF Outside(k) = {} THEN None ELSE Index(dump, Innermost(Outside(k)))
           S == {k \in D : Fine(k)}
<1>1. Len(dump) \in Nat BY DEF Doc
<1>2. ASSUME NEW k \in D, \A j \in D : j < k => j \in S PROVE k \in S
  <2>1. CASE k = 0
    <3>1. Outside(0) = {} BY AroundUnfolds DEF Outside
    <3>2. QED BY <2>1, <3>1, HandedUnfolds
  <2>2. CASE k # 0
    <3> DEFINE up == dump[k].up
    <3>1. k \in 1..Len(dump) /\ up \in D /\ up < k BY <2>2, UpIsBefore
    <3>2. Around(dump)[k] = {up} \cup Around(dump)[up] BY <3>1, AroundUnfolds
    <3>3. Handed(dump)[k] = IF Index(dump, up) # None THEN Index(dump, up) ELSE Handed(dump)[up]
      BY <3>1, HandedUnfolds
    <3>4. Fine(up) BY <1>2, <3>1
    <3>5. CASE up \in Said
      <4>1. Index(dump, up) # None BY <3>5, IndexCounts
      <4>2. up \in Outside(k) BY <3>2, <3>5 DEF Outside
      <4>3. \A n \in Outside(k) : n <= up
        <5>1. \A n \in Around(dump)[up] : n < up /\ n \in D BY <3>1, AroundBelow
        <5>2. up \in Int /\ \A n \in D : n \in Int BY <1>1, <3>1
        <5>3. \A n \in Outside(k) : n = up \/ n \in Around(dump)[up] BY <3>2 DEF Outside
        <5>4. QED BY <5>1, <5>2, <5>3
      <4>4. Outside(k) \in SUBSET Said BY DEF Outside
      <4>5. Innermost(Outside(k)) = up BY <4>2, <4>3, <4>4, InnermostIs
      <4>6. Fine(k) BY <3>3, <4>1, <4>2, <4>5
      <4>7. QED BY <4>6
    <3>6. CASE up \notin Said
      <4>1. Index(dump, up) = None
        <5>1. CASE up = 0 BY <5>1 DEF Index
        <5>2. CASE up # 0
          <6>1. up \in 1..Len(dump) BY <1>1, <3>1, <5>2
          <6>2. ~Meaningful(dump[up]) BY <3>6, <6>1, SaidIsBelow
          <6>3. QED BY <6>2 DEF Index
        <5>3. QED BY <5>1, <5>2
      <4>2. Outside(k) = Outside(up) BY <3>2, <3>6 DEF Outside
      <4>3. Fine(k) BY <3>3, <3>4, <4>1, <4>2
      <4>4. QED BY <4>3
    <3>7. QED BY <3>5, <3>6
  <2>3. QED BY <2>1, <2>2
<1>3. \A k \in D : k \in S
  <2> HIDE DEF S
  <2>1. QED BY <1>1, <1>2, Induction
<1>4. QED BY <1>3

\* An element of the list is the node its index names, and they come in order.
LEMMA ElementsAreNodes ==
    ASSUME Doc(dump), NEW els, els = ParseElements(dump)
    PROVE  /\ els \in Seq(ElementTypes(dump))
           /\ \A n \in DOMAIN els : /\ els[n].i \in Ids /\ els[n].i = n - 1
                                    /\ els[n].text = dump[Place(els[n].i)].text
                                    /\ els[n].clickable = dump[Place(els[n].i)].clickable
                                    /\ els[n].editable = dump[Place(els[n].i)].editable
           /\ \A i \in Ids : i + 1 \in DOMAIN els
<1> DEFINE D == 0..Len(dump)
           E == Els(dump)
           T == ElementTypes(dump)
           elem(k) == [i |-> Index(dump, k), text |-> dump[k].text,
                       clickable |-> dump[k].clickable, editable |-> dump[k].editable]
           Fine(k) == /\ Len(E[k]) = Counter(dump)[k]
                      /\ \A n \in DOMAIN E[k] : \E m \in Said :
                             m <= k /\ n = Index(dump, m) + 1 /\ E[k][n] = elem(m)
                      /\ \A m \in Said : m <= k => Index(dump, m) + 1 \in DOMAIN E[k]
           S == {k \in D : Fine(k)}
<1>1. Len(dump) \in Nat BY DEF Doc
<1>2. \A k \in Said : k \in 1..Len(dump) /\ k \in Int BY SaidIsBelow
<1>3. \A k \in D : E[k] \in Seq(T) BY ElsUnfolds
<1>4. ASSUME NEW k \in D, \A j \in D : j < k => j \in S PROVE k \in S
  <2>1. CASE k = 0
    <3>1. E[0] = <<>> /\ Counter(dump)[0] = 0 BY ElsUnfolds, CounterUnfolds
    <3>2. \A m \in Said : ~(m <= 0) BY <1>2
    <3>3. Len(<<>>) = 0 /\ DOMAIN <<>> = {} OBVIOUS
    <3>4. Fine(0) BY <3>1, <3>2, <3>3
    <3>5. QED BY <2>1, <3>4
  <2>2. CASE k # 0
    <3>1. k \in 1..Len(dump) /\ k - 1 \in D /\ k - 1 < k BY <1>1, <2>2
    <3>2. Fine(k - 1) BY <1>4, <3>1
    <3>3. E[k - 1] \in Seq(T) /\ E[k] \in Seq(T) BY <1>3, <3>1
    <3>4. k \in Int BY <1>1
    <3>5. CASE Meaningful(dump[k])
      <4>1. k \in Said BY <3>1, <3>5, SaidIsBelow
      <4>2. Counter(dump)[k] = Counter(dump)[k - 1] + 1 BY <3>1, <3>5, CounterUnfolds
      <4>3. Index(dump, k) = Counter(dump)[k - 1] BY <2>2, <3>5 DEF Index
      <4>4. E[k] = Append(E[k - 1], elem(k))
        <5>1. E[k] = Append(E[k - 1], [i |-> Len(E[k - 1]), text |-> dump[k].text,
                                       clickable |-> dump[k].clickable, editable |-> dump[k].editable])
          BY <3>1, <3>5, ElsUnfolds
        <5>2. QED BY <3>2, <4>3, <5>1
      <4>5. /\ Len(E[k]) = Len(E[k - 1]) + 1
            /\ DOMAIN E[k] = 1..(Len(E[k - 1]) + 1) /\ DOMAIN E[k - 1] = 1..Len(E[k - 1])
            /\ \A n \in DOMAIN E[k - 1] : E[k][n] = E[k - 1][n]
            /\ E[k][Len(E[k - 1]) + 1] = elem(k)
            /\ Len(E[k - 1]) \in Nat
        <5> HIDE DEF E, T, elem
        <5>1. E[k] = Append(E[k - 1], elem(k)) BY <4>4
        <5>2. QED BY <3>3, <5>1
      <4>6. Len(E[k]) = Counter(dump)[k] BY <3>2, <4>2, <4>5
      <4>7. ASSUME NEW n \in DOMAIN E[k]
            PROVE  \E m \in Said : m <= k /\ n = Index(dump, m) + 1 /\ E[k][n] = elem(m)
        <5> HIDE DEF E, elem
        <5>1. CASE n \in DOMAIN E[k - 1]
          <6>1. PICK m \in Said : m <= k - 1 /\ n = Index(dump, m) + 1 /\ E[k - 1][n] = elem(m)
            BY <3>2, <5>1
          <6>2. m <= k BY <1>2, <3>4, <6>1
          <6>3. E[k][n] = elem(m) BY <4>5, <5>1, <6>1
          <6>4. QED BY <6>1, <6>2, <6>3
        <5>2. CASE n = Len(E[k - 1]) + 1
          <6>1. n = Index(dump, k) + 1 BY <3>2, <4>3, <5>2
          <6>2. k <= k BY <3>4
          <6>3. E[k][n] = elem(k) BY <4>5, <5>2
          <6>4. QED BY <4>1, <6>1, <6>2, <6>3
        <5>3. n \in DOMAIN E[k - 1] \/ n = Len(E[k - 1]) + 1 BY <4>5
        <5>4. QED BY <5>1, <5>2, <5>3
      <4>8. ASSUME NEW m \in Said, m <= k PROVE Index(dump, m) + 1 \in DOMAIN E[k]
        <5> HIDE DEF E, elem
        <5>1. CASE m <= k - 1
          <6>1. Index(dump, m) + 1 \in DOMAIN E[k - 1] BY <3>2, <5>1
          <6>2. QED BY <4>5, <6>1
        <5>2. CASE m = k
          <6>1. Index(dump, m) + 1 = Len(E[k - 1]) + 1 BY <3>2, <4>3, <5>2
          <6>2. QED BY <4>5, <6>1
        <5>3. m <= k - 1 \/ m = k BY <1>2, <3>4, <4>8
        <5>4. QED BY <5>1, <5>2, <5>3
      <4>9. Fine(k) BY <4>6, <4>7, <4>8
      <4>10. QED BY <4>9
    <3>6. CASE ~Meaningful(dump[k])
      <4>1. Counter(dump)[k] = Counter(dump)[k - 1] BY <3>1, <3>6, CounterUnfolds
      <4>2. E[k] = E[k - 1] BY <3>1, <3>6, ElsUnfolds
      <4>3. \A m \in Said : m <= k <=> m <= k - 1
        <5>1. k \notin Said BY <3>6, SaidIsBelow
        <5>2. QED BY <1>2, <3>4, <5>1
      <4> HIDE DEF E, elem
      <4>4. Fine(k) BY <3>2, <4>1, <4>2, <4>3
      <4>5. QED BY <4>4
    <3>7. QED BY <3>5, <3>6
  <2>3. QED BY <2>1, <2>2
<1>5. \A k \in D : k \in S
  <2> HIDE DEF S
  <2>1. QED BY <1>1, <1>4, Induction
<1>6. els = E[Len(dump)] /\ Len(dump) \in D BY <1>1, ElsUnfolds
<1>7. Fine(Len(dump)) BY <1>5, <1>6
<1>8. ASSUME NEW n \in DOMAIN els
      PROVE  /\ els[n].i \in Ids /\ els[n].i = n - 1
             /\ els[n].text = dump[Place(els[n].i)].text
             /\ els[n].clickable = dump[Place(els[n].i)].clickable
             /\ els[n].editable = dump[Place(els[n].i)].editable
  <2>1. PICK m \in Said : n = Index(dump, m) + 1 /\ els[n] = elem(m) BY <1>6, <1>7
  <2>2. Place(Index(dump, m)) = m /\ Index(dump, m) \in Nat /\ Index(dump, m) \in Ids
    BY IndexNames, IndexCounts, IdsAreNames
  <2>3. els[n].i = Index(dump, m) BY <2>1
  <2>4. QED BY <2>1, <2>2, <2>3
<1>9. ASSUME NEW i \in Ids PROVE i + 1 \in DOMAIN els
  <2>1. Place(i) \in Said /\ Index(dump, Place(i)) = i BY IdsAreNames
  <2>2. Place(i) <= Len(dump) BY <1>1, <1>2, <2>1
  <2>3. QED BY <1>6, <1>7, <2>1, <2>2
<1>10. QED BY <1>3, <1>6, <1>8, <1>9

LEMMA OnlyTheSaidAreIndexed ==
    ASSUME Doc(dump), NEW k \in 0..Len(dump)
    PROVE  Index(dump, k) # None <=> k \in Said
<1>1. CASE k \in Said BY <1>1, IndexCounts
<1>2. CASE k \notin Said
  <2>1. Len(dump) \in Nat BY SaidIsBelow
  <2>2. k = 0 \/ ~Meaningful(dump[k])
    <3>1. k # 0 => k \in 1..Len(dump) BY <2>1
    <3>2. QED BY <1>2, <3>1, SaidIsBelow
  <2>3. QED BY <1>2, <2>2 DEF Index
<1>3. QED BY <1>1, <1>2

\* The parent of an index is the innermost one around its place.
LEMMA ParentsAreInnermost ==
    ASSUME Doc(dump), NEW parent, parent = Parents(IterTree(dump))
    PROVE  /\ DOMAIN parent = Ids
           /\ \A i \in Ids :
                /\ parent[i] = Handed(dump)[Place(i)]
                /\ Outside(Place(i)) = {} <=> parent[i] = None
                /\ parent[i] # None => /\ parent[i] \in Ids /\ parent[i] < i
                                       /\ Place(parent[i]) = Innermost(Outside(Place(i)))
<1> DEFINE D == 0..Len(dump)
           tree == IterTree(dump)
<1>1. Len(dump) \in Nat /\ \A k \in Said : k \in D BY SaidIsBelow
<1>2. tree = [k \in D |-> [i |-> Index(dump, k), parent |-> Handed(dump)[k]]] BY IterTreeIs
<1>3. DOMAIN tree = D /\ \A k \in D : tree[k].i = Index(dump, k) /\ tree[k].parent = Handed(dump)[k] BY <1>2
<1>4. {tree[k].i : k \in DOMAIN tree} \ {None} = Ids
  <2>1. \A k \in D : Index(dump, k) # None <=> k \in Said BY OnlyTheSaidAreIndexed
  <2> HIDE DEF tree, D
  <2>2. {tree[k].i : k \in DOMAIN tree} = {Index(dump, k) : k \in D} BY <1>3
  <2>3. QED BY <1>1, <2>1, <2>2 DEF Ids
<1>5. parent = [i \in Ids |-> tree[CHOOSE k \in DOMAIN tree : tree[k].i = i].parent]
  <2> HIDE DEF tree
  <2>1. parent = [i \in {tree[k].i : k \in DOMAIN tree} \ {None} |->
                     tree[CHOOSE k \in DOMAIN tree : tree[k].i = i].parent] BY DEF Parents, tree
  <2>2. QED BY <1>4, <2>1
<1>6. ASSUME NEW i \in Ids PROVE parent[i] = Handed(dump)[Place(i)]
  <2>1. i # None /\ Place(i) \in Said /\ Index(dump, Place(i)) = i BY IdsAreNames
  <2>2. \A k \in D : Index(dump, k) = i <=> k = Place(i)
    <3>1. \A k \in D : Index(dump, k) = i => k \in Said BY <2>1, OnlyTheSaidAreIndexed
    <3>2. \A k \in D : Index(dump, k) = i => Place(i) = k BY <3>1, IndexNames
    <3>3. QED BY <2>1, <3>2
  <2>3. Place(i) \in D BY <1>1, <2>1
  <2> HIDE DEF tree, D
  <2>4. (CHOOSE k \in DOMAIN tree : tree[k].i = i) = Place(i) BY <1>3, <2>2, <2>3
  <2>5. parent[i] = tree[Place(i)].parent BY <1>5, <2>4
  <2>6. QED BY <1>3, <2>3, <2>5
<1>7. ASSUME NEW i \in Ids
      PROVE  /\ Outside(Place(i)) = {} <=> parent[i] = None
             /\ parent[i] # None => /\ parent[i] \in Ids /\ parent[i] < i
                                    /\ Place(parent[i]) = Innermost(Outside(Place(i)))
  <2> DEFINE p == Place(i)
             q == Innermost(Outside(p))
  <2>1. p \in Said /\ p \in D /\ Index(dump, p) = i BY <1>1, IdsAreNames
  <2>2. parent[i] = IF Outside(p) = {} THEN None ELSE Index(dump, q) BY <1>6, <2>1, HandedIsInnermost
  <2>3. Outside(p) \in SUBSET Said /\ \A n \in Outside(p) : n < p BY <2>1, OutsideIsSaid
  <2>4. ASSUME Outside(p) # {} PROVE q \in Said /\ q < p
    <3>1. q \in Outside(p) BY <2>3, <2>4, InnermostIs
    <3>2. QED BY <2>3, <3>1
  <2> HIDE DEF p, q
  <2>5. ASSUME Outside(p) # {}
        PROVE  parent[i] # None /\ parent[i] \in Ids /\ parent[i] < i /\ Place(parent[i]) = q
    <3>1. q \in Said /\ q < p /\ parent[i] = Index(dump, q) BY <2>2, <2>4, <2>5
    <3>2. Index(dump, q) < Index(dump, p) BY <2>1, <3>1, IndexGrows
    <3>3. Index(dump, q) \in Ids /\ Index(dump, q) # None BY <3>1, IdsAreNames
    <3>4. Place(Index(dump, q)) = q BY <3>1, IndexNames
    <3>5. QED BY <2>1, <3>1, <3>2, <3>3, <3>4
  <2>6. QED BY <2>2, <2>5 DEF p, q
<1>8. QED BY <1>5, <1>6, <1>7

\* Same parent, same innermost node around.
LEMMA SameParentSameInnermost ==
    ASSUME Doc(dump), NEW parent, parent = Parents(IterTree(dump)), NEW i \in Ids, NEW j \in Ids
    PROVE  parent[i] = parent[j] <=> Innermost(Outside(Place(i))) = Innermost(Outside(Place(j)))
<1> DEFINE q(x) == Innermost(Outside(Place(x)))
<1>1. ASSUME NEW x \in Ids
      PROVE  /\ parent[x] = None <=> q(x) = 0
             /\ parent[x] # None => parent[x] \in Ids /\ Place(parent[x]) = q(x)
  <2>1. Place(x) \in 0..Len(dump)
    <3>1. Place(x) \in Said BY IdsAreNames
    <3>2. QED BY <3>1, SaidIsBelow
  <2>2. Outside(Place(x)) \in SUBSET Said BY <2>1, OutsideIsSaid
  <2>3. Outside(Place(x)) = {} <=> q(x) = 0 BY <2>2, InnermostIs
  <2>4. QED BY <2>3, ParentsAreInnermost
<1> HIDE DEF q
<1>2. ASSUME q(i) = q(j) PROVE parent[i] = parent[j]
  <2>1. CASE q(i) = 0 BY <1>1, <1>2, <2>1
  <2>2. CASE q(i) # 0
    <3>1. parent[i] \in Ids /\ parent[j] \in Ids /\ Place(parent[i]) = Place(parent[j]) BY <1>1, <1>2, <2>2
    <3>2. QED BY <3>1, IdsAreNames
  <2>3. QED BY <2>1, <2>2
<1>3. ASSUME parent[i] = parent[j] PROVE q(i) = q(j) BY <1>1, <1>3
<1>4. QED BY <1>2, <1>3 DEF q

\* The walk from an index outwards passes all that is around its place, inside out.
LEMMA AncestorsAreOutside ==
    ASSUME Doc(dump), NEW parent, parent = Parents(IterTree(dump)), NEW chain, chain = Ancestors(parent)
    PROVE  \A i \in Ids :
             /\ chain[i] \in Seq(Ids)
             /\ {Place(j) : j \in ToSet(chain[i])} = Outside(Place(i))
             /\ \A m, n \in DOMAIN chain[i] : m < n => Place(chain[i][m]) > Place(chain[i][n])
<1> DEFINE top == Len(dump)
           Walks(c, i) == /\ c \in Seq(Ids)
                          /\ \A n \in DOMAIN c : Place(c[n]) \in Outside(Place(i))
                          /\ \A k \in Outside(Place(i)) : \E n \in DOMAIN c : Place(c[n]) = k
                          /\ \A m, n \in DOMAIN c : m < n => Place(c[m]) > Place(c[n])
           S == {i \in 0..top : i \in Ids => Walks(chain[i], i)}
<1>1. Len(dump) \in Nat BY SaidIsBelow
<1>2. \A i \in Ids : i \in 0..top /\ i \in Nat /\ Place(i) \in 0..Len(dump) /\ Place(i) \in Said
  BY <1>1, IdsAreNames, SaidIsBelow
<1>3. DOMAIN parent = Ids BY ParentsAreInnermost
<1>4. Chained(parent, top)
  <2>1. Ids \in SUBSET (0..top) BY <1>2
  <2>2. \A i \in Ids : parent[i] # None => parent[i] \in Ids /\ parent[i] < i BY ParentsAreInnermost
  <2>3. QED BY <1>1, <1>3, <2>1, <2>2 DEF Chained
<1>5. ASSUME NEW i \in 0..top, \A j \in 0..top : j < i => j \in S, i \in Ids PROVE Walks(chain[i], i)
  <2>1. chain[i] = IF parent[i] = None THEN <<>> ELSE <<parent[i]>> \o chain[parent[i]]
    BY <1>3, <1>4, <1>5, AncestorsUnfold
  <2>2. CASE parent[i] = None
    <3>1. Outside(Place(i)) = {} BY <1>5, <2>2, ParentsAreInnermost
    <3>2. chain[i] = <<>> BY <2>1, <2>2
    <3>3. <<>> \in Seq(Ids) /\ DOMAIN <<>> = {} OBVIOUS
    <3>4. QED BY <3>1, <3>2, <3>3
  <2>3. CASE parent[i] # None
    <3> DEFINE p == parent[i]
               rest == chain[parent[i]]
               O == Outside(Place(i))
               q == Place(p)
    <3>1. p \in Ids /\ p < i /\ q = Innermost(O) /\ O # {} BY <1>5, <2>3, ParentsAreInnermost
    <3>2. Walks(rest, p) BY <1>2, <1>5, <3>1
    <3>3. O \in SUBSET Said /\ \A m \in O : Outside(m) = {n \in O : n < m} BY <1>2, <1>5, OutsideIsSaid
    <3>4. q \in O /\ \A n \in O : n <= q BY <3>1, <3>3, InnermostIs
    <3>5. Outside(q) = {n \in O : n < q} BY <3>3, <3>4
    <3>6. \A n \in O : n \in Int BY <3>3, SaidIsBelow
    <3>7. O = {q} \cup Outside(q) /\ \A n \in Outside(q) : n < q BY <3>4, <3>5, <3>6
    <3>8. chain[i] = <<p>> \o rest BY <2>1, <2>3
    <3>9. rest \in Seq(Ids) BY <3>2
    <3> HIDE DEF p, rest, O, q
    <3>10. /\ <<p>> \o rest \in Seq(Ids)
           /\ DOMAIN (<<p>> \o rest) = 1..(Len(rest) + 1)
           /\ DOMAIN rest = 1..Len(rest) /\ Len(rest) \in Nat
           /\ (<<p>> \o rest)[1] = p
           /\ \A n \in 2..(Len(rest) + 1) : (<<p>> \o rest)[n] = rest[n - 1]
      BY <3>1, <3>9
    <3> DEFINE c == <<p>> \o rest
    <3>11. \A n \in DOMAIN rest : Place(rest[n]) \in Outside(q) BY <3>2 DEF q
    <3>12. \A k \in Outside(q) : \E n \in DOMAIN rest : Place(rest[n]) = k BY <3>2 DEF q
    <3>13. \A m, n \in DOMAIN rest : m < n => Place(rest[m]) > Place(rest[n]) BY <3>2
    <3>16. c[1] = p BY <3>10
    <3>14. ASSUME NEW n \in DOMAIN c
           PROVE  (n = 1 /\ c[n] = p) \/ (n - 1 \in DOMAIN rest /\ c[n] = rest[n - 1])
      <4>1. CASE n = 1
        <5> HIDE DEF c
        <5>1. QED BY <3>16, <4>1
      <4>2. CASE n # 1
        <5>1. n \in 2..(Len(rest) + 1) /\ n - 1 \in 1..Len(rest) BY <3>10, <4>2
        <5>2. QED BY <3>10, <5>1
      <4>3. QED BY <4>1, <4>2
    <3>15. 1 \in DOMAIN c /\ \A n \in DOMAIN rest : n + 1 \in DOMAIN c /\ c[n + 1] = rest[n] BY <3>10
    <3>17. \A n \in DOMAIN c : n \in Int /\ n >= 1 BY <3>10
    <3> HIDE DEF c
    <3>18. ASSUME NEW n \in DOMAIN c PROVE Place(c[n]) \in O
      <4>1. CASE c[n] = p BY <3>4, <4>1 DEF q
      <4>2. CASE n - 1 \in DOMAIN rest /\ c[n] = rest[n - 1] BY <3>7, <3>11, <4>2
      <4>3. QED BY <3>14, <4>1, <4>2
    <3>19. ASSUME NEW k \in O PROVE \E n \in DOMAIN c : Place(c[n]) = k
      <4>1. CASE k = q BY <3>15, <3>16, <4>1 DEF q
      <4>2. CASE k \in Outside(q)
        <5>1. PICK n \in DOMAIN rest : Place(rest[n]) = k BY <3>12, <4>2
        <5>2. QED BY <3>15, <5>1
      <4>3. QED BY <3>7, <4>1, <4>2
    <3>20. ASSUME NEW m \in DOMAIN c, NEW n \in DOMAIN c, m < n PROVE Place(c[m]) > Place(c[n])
      <4>1. n # 1 BY <3>17, <3>20
      <4>2. n - 1 \in DOMAIN rest /\ c[n] = rest[n - 1] BY <3>14, <4>1
      <4>3. CASE m = 1
        <5>1. Place(c[n]) < q BY <3>7, <3>11, <4>2
        <5>2. Place(c[m]) = q BY <3>16, <4>3 DEF q
        <5>3. Place(c[n]) \in Int /\ q \in Int BY <3>4, <3>6, <3>18
        <5>4. QED BY <5>1, <5>2, <5>3
      <4>4. CASE m # 1
        <5>1. m - 1 \in DOMAIN rest /\ c[m] = rest[m - 1] BY <3>14, <4>4
        <5>2. m - 1 < n - 1 BY <3>17, <3>20
        <5>3. QED BY <3>13, <4>2, <5>1, <5>2
      <4>5. QED BY <4>3, <4>4
    <3>21. c \in Seq(Ids) BY <3>10 DEF c
    <3>22. Walks(c, i) BY <3>18, <3>19, <3>20, <3>21 DEF O
    <3>23. chain[i] = c BY <3>8 DEF c
    <3> HIDE DEF Walks
    <3>24. QED BY <3>22, <3>23
  <2>4. QED BY <2>2, <2>3
<1>6. \A i \in 0..top : i \in S
  <2>1. \A i \in 0..top : (\A j \in 0..top : j < i => j \in S) => i \in S BY <1>5
  <2> HIDE DEF S
  <2>2. QED BY <1>1, <2>1, Induction
<1>7. ASSUME NEW i \in Ids
      PROVE  /\ chain[i] \in Seq(Ids)
             /\ {Place(j) : j \in ToSet(chain[i])} = Outside(Place(i))
             /\ \A m, n \in DOMAIN chain[i] : m < n => Place(chain[i][m]) > Place(chain[i][n])
  <2>1. Walks(chain[i], i) BY <1>2, <1>6
  <2>2. {Place(j) : j \in ToSet(chain[i])} = Outside(Place(i)) BY <2>1 DEF ToSet
  <2>3. QED BY <2>1, <2>2
<1>8. QED BY <1>7

LEMMA RelationsAre ==
    ASSUME Doc(dump), NEW rel, rel = ParseRelations(dump)
    PROVE  /\ rel.parent = Parents(IterTree(dump)) /\ DOMAIN rel.parent = Ids
           /\ rel.ancestors = Ancestors(rel.parent)
           /\ \A i \in Ids : rel.siblings[i] = {j \in Ids \ {i} : rel.parent[j] = rel.parent[i]}
           /\ \A i \in Ids : rel.children[i] = {j \in Ids : rel.parent[j] = i}
<1> DEFINE tree == IterTree(dump)
           parent == Parents(IterTree(dump))
           inside(i) == {n \in DOMAIN dump : tree[n].i # None /\ tree[dump[n].up].i = i}
<1>1. DOMAIN parent = Ids BY ParentsAreInnermost
<1>2. rel.parent = parent /\ rel.ancestors = Ancestors(parent)
  BY DEF ParseRelations
<1>3. rel.siblings = [i \in DOMAIN parent |-> {j \in DOMAIN parent \ {i} : parent[j] = parent[i]}]
  BY DEF ParseRelations
<1>4. rel.children = Children(dump, tree, parent) BY DEF ParseRelations
<1>5. tree = [k \in 0..Len(dump) |-> [i |-> Index(dump, k), parent |-> Handed(dump)[k]]] BY IterTreeIs
<1>6. \A k \in 0..Len(dump) : tree[k].i = Index(dump, k) BY <1>5
<1>7. ASSUME NEW i \in Ids, NEW n \in inside(i) PROVE tree[n].i \in Ids /\ parent[tree[n].i] = i
  <2>1. n \in 1..Len(dump) /\ n # 0 /\ n \in 0..Len(dump) BY DEF Doc
  <2>2. dump[n].up \in 0..Len(dump) BY <2>1, UpIsBefore
  <2>3. tree[n].i = Index(dump, n) /\ Index(dump, dump[n].up) = i BY <1>6, <2>1, <2>2
  <2>4. Index(dump, n) # None BY <2>3
  <2>5. n \in Said BY <2>1, <2>4, OnlyTheSaidAreIndexed
  <2>6. Index(dump, n) \in Ids /\ Place(Index(dump, n)) = n BY <2>5, IdsAreNames, IndexNames
  <2>7. i # None BY IdsAreNames
  <2>8. Handed(dump)[n] = i BY <2>1, <2>3, <2>7, HandedUnfolds
  <2>9. parent[Index(dump, n)] = Handed(dump)[n] BY <2>6, ParentsAreInnermost
  <2>10. QED BY <2>3, <2>6, <2>8, <2>9
<1>8. ASSUME NEW i \in Ids PROVE rel.children[i] = {j \in Ids : parent[j] = i}
  <2> DEFINE T == tree
             P == parent
  <2>1. rel.children[i] = {T[k].i : k \in inside(i)} \cup {j \in DOMAIN P : P[j] = i}
    BY <1>1, <1>4 DEF Children
  <2>2. \A n \in inside(i) : T[n].i \in Ids /\ P[T[n].i] = i BY <1>7
  <2>3. DOMAIN P = Ids BY <1>1
  <2> HIDE DEF T, P, inside
  <2>4. {T[k].i : k \in inside(i)} \cup {j \in DOMAIN P : P[j] = i} = {j \in Ids : P[j] = i} BY <2>2, <2>3
  <2>5. QED BY <2>1, <2>4 DEF P
<1>9. ASSUME NEW i \in Ids PROVE rel.siblings[i] = {j \in Ids \ {i} : parent[j] = parent[i]}
  <2> HIDE DEF parent
  <2>1. QED BY <1>1, <1>3
<1>10. QED BY <1>1, <1>2, <1>8, <1>9

\* The relations of a snapshot agree with the dump it was taken of.
LEMMA RelationsHold ==
    ASSUME Doc(dump), snap.els = ParseElements(dump), snap.rel = ParseRelations(dump)
    PROVE  RelationsAgree
<1> DEFINE rel == snap.rel
           els == snap.els
<1>1. rel.parent = Parents(IterTree(dump)) /\ DOMAIN rel.parent = Ids
      /\ rel.ancestors = Ancestors(rel.parent)
  BY RelationsAre
<1>2. Ids = {els[n].i : n \in DOMAIN els}
  <2>1. \A n \in DOMAIN els : els[n].i \in Ids /\ els[n].i = n - 1 BY ElementsAreNodes
  <2>2. \A i \in Ids : i + 1 \in DOMAIN els BY ElementsAreNodes
  <2>3. \A i \in Ids : i \in Nat BY IdsAreNames
  <2> HIDE DEF els
  <2>4. \A i \in Ids : els[i + 1].i = i BY <2>1, <2>2, <2>3
  <2>5. QED BY <2>1, <2>2, <2>4
<1>3. ASSUME NEW i \in Ids
      PROVE  LET outer == Outside(Place(i))
                 chain == rel.ancestors[i]
             IN /\ rel.parent[i] = None => outer = {}
                /\ rel.parent[i] # None => Place(rel.parent[i]) = Innermost(outer)
                /\ {Place(j) : j \in ToSet(chain)} = outer
                /\ \A n \in 1..(Len(chain) - 1) : Place(chain[n]) > Place(chain[n + 1])
                /\ rel.children[i] = {j \in DOMAIN rel.parent : rel.parent[j] = i}
  <2> DEFINE outer == Outside(Place(i))
             chain == rel.ancestors[i]
  <2>1. /\ rel.parent[i] = None => outer = {}
        /\ rel.parent[i] # None => Place(rel.parent[i]) = Innermost(outer)
    BY <1>1, ParentsAreInnermost
  <2>2. /\ chain \in Seq(Ids)
        /\ {Place(j) : j \in ToSet(chain)} = outer
        /\ \A m, n \in DOMAIN chain : m < n => Place(chain[m]) > Place(chain[n])
    BY <1>1, AncestorsAreOutside
  <2>3. ASSUME NEW n \in 1..(Len(chain) - 1) PROVE Place(chain[n]) > Place(chain[n + 1])
    <3> HIDE DEF chain
    <3>1. n \in DOMAIN chain /\ n + 1 \in DOMAIN chain /\ n < n + 1 BY <2>2
    <3>2. QED BY <2>2, <3>1
  <2>4. rel.children[i] = {j \in DOMAIN rel.parent : rel.parent[j] = i} BY <1>1, RelationsAre
  <2>5. QED BY <2>1, <2>2, <2>3, <2>4
<1>4. QED BY <1>1, <1>2, <1>3 DEF RelationsAgree

-----------------------------------------------------------------------------
(* Selectors.                                                              *)

\* In a finite set that is ordered, the elements before each count from none up.
Orders(R, S) ==
    /\ \A x \in S : <<x, x>> \notin R
    /\ \A x, y \in S : x # y => <<x, y>> \in R \/ <<y, x>> \in R
    /\ \A x, y, z \in S : <<x, y>> \in R /\ <<y, z>> \in R => <<x, z>> \in R
Before(R, S, x) == {y \in S : <<y, x>> \in R}
LEMMA OrderRanks ==
    ASSUME NEW S, IsFiniteSet(S), NEW R, Orders(R, S)
    PROVE  /\ Cardinality(S) \in Nat
           /\ \A x \in S : /\ Cardinality(Before(R, S, x)) \in Nat
                           /\ Cardinality(Before(R, S, x)) < Cardinality(S)
           /\ \A x, y \in S : <<x, y>> \in R <=> Cardinality(Before(R, S, x)) < Cardinality(Before(R, S, y))
           /\ \A r \in 1..Cardinality(S) : \E x \in S : Cardinality(Before(R, S, x)) = r - 1
<1> DEFINE c == Cardinality(S)
           rank(x) == Cardinality(Before(R, S, x))
<1>1. c \in Nat BY FS_CardinalityType
<1>2. ASSUME NEW x \in S PROVE IsFiniteSet(Before(R, S, x)) /\ rank(x) \in Nat
  <2>1. Before(R, S, x) \in SUBSET S BY DEF Before
  <2>2. IsFiniteSet(Before(R, S, x)) BY <2>1, FS_Subset
  <2>3. QED BY <2>2, FS_CardinalityType
<1>3. ASSUME NEW x \in S, NEW T, IsFiniteSet(T), Before(R, S, x) \cup {x} \in SUBSET T PROVE rank(x) < Cardinality(T)
  <2>1. x \notin Before(R, S, x) BY DEF Before, Orders
  <2>2. Cardinality(Before(R, S, x) \cup {x}) = rank(x) + 1 BY <1>2, <2>1, FS_AddElement
  <2>3. Cardinality(Before(R, S, x) \cup {x}) <= Cardinality(T) BY <1>3, FS_Subset
  <2>4. Cardinality(T) \in Nat BY <1>3, FS_CardinalityType
  <2>5. QED BY <1>2, <2>2, <2>3, <2>4
<1>4. ASSUME NEW x \in S PROVE rank(x) < c
  <2>1. Before(R, S, x) \cup {x} \in SUBSET S BY DEF Before
  <2>2. QED BY <1>3, <2>1
<1>5. ASSUME NEW x \in S, NEW y \in S, <<x, y>> \in R PROVE rank(x) < rank(y)
  <2>1. Before(R, S, x) \cup {x} \in SUBSET Before(R, S, y) BY <1>5 DEF Before, Orders
  <2>2. QED BY <1>2, <1>3, <2>1
<1>6. ASSUME NEW x \in S, NEW y \in S PROVE <<x, y>> \in R <=> rank(x) < rank(y)
  <2>1. rank(x) \in Nat /\ rank(y) \in Nat BY <1>2
  <2>2. x = y \/ <<x, y>> \in R \/ <<y, x>> \in R BY DEF Orders
  <2> HIDE DEF rank
  <2>3. QED BY <1>5, <2>1, <2>2
<1>7. ASSUME NEW r \in 1..c PROVE \E x \in S : rank(x) = r - 1
  <2> DEFINE T == 0..(c - 1)
             f == [x \in S |-> rank(x)]
  <2>1. IsFiniteSet(T) /\ Cardinality(T) = c
    <3> HIDE DEF c
    <3>1. 0 \in Int /\ c - 1 \in Int BY <1>1
    <3>2. IsFiniteSet(T) /\ Cardinality(T) = IF 0 > c - 1 THEN 0 ELSE (c - 1) - 0 + 1 BY <3>1, FS_Interval
    <3>3. (IF 0 > c - 1 THEN 0 ELSE (c - 1) - 0 + 1) = c BY <1>1
    <3>4. QED BY <3>2, <3>3
  <2>2. \A x \in S : rank(x) \in T BY <1>1, <1>2, <1>4
  <2>3. \A x, y \in S : rank(x) = rank(y) => x = y
    <3>1. \A x \in S : rank(x) \in Nat BY <1>2
    <3>2. \A x, y \in S : x # y => <<x, y>> \in R \/ <<y, x>> \in R BY DEF Orders
    <3>3. ASSUME NEW x \in S, NEW y \in S, x # y PROVE rank(x) # rank(y)
      <4>1. rank(x) < rank(y) \/ rank(y) < rank(x) BY <1>5, <3>2, <3>3
      <4>2. rank(x) \in Nat /\ rank(y) \in Nat BY <3>1
      <4> HIDE DEF rank
      <4>3. QED BY <4>1, <4>2
    <3>4. QED BY <3>3
  <2> HIDE DEF T, rank
  <2>4. f \in Injection(S, T) BY <2>2, <2>3 DEF Injection, IsInjective
  <2>5. f \in Surjection(S, T)
    <3> HIDE DEF f, c
    <3>1. QED BY <2>1, <2>4, FS_Injection DEF c
  <2>6. r - 1 \in T BY <1>1 DEF T
  <2>7. QED BY <2>5, <2>6 DEF Surjection
<1>8. QED BY <1>1, <1>2, <1>4, <1>6, <1>7

\* The order of the sort is the order of the screen: what can be clicked, then from
\* the top, among elements the selector admits.
Admitted(els, rel, s) == {n \in DOMAIN els : Admits(els, rel, s, els[n])}
LEMMA SortedAsOnScreen ==
    ASSUME Doc(dump), NEW els, els = ParseElements(dump), NEW rel, NEW s,
           NEW m \in Admitted(els, rel, s), NEW n \in Admitted(els, rel, s)
    PROVE  Precedes(s, els[m], els[n]) <=> Better(Place(els[m].i), Place(els[n].i))
<1> DEFINE base == IF "text" \in DOMAIN s THEN 100 ELSE 0
           p(x) == Place(els[x].i)
<1>1. ASSUME NEW x \in Admitted(els, rel, s)
      PROVE  /\ Score(s, els[x]) = base + (IF dump[p(x)].clickable THEN 5 ELSE 0)
             /\ els[x].i \in Ids /\ dump[p(x)].clickable \in BOOLEAN
  <2>1. x \in DOMAIN els /\ Admits(els, rel, s, els[x]) BY DEF Admitted
  <2>2. "text" \in DOMAIN s => els[x].text = s.text BY <2>1 DEF Admits
  <2>3. els[x].i \in Ids /\ els[x].clickable = dump[p(x)].clickable BY <2>1, ElementsAreNodes
  <2>4. p(x) \in 1..Len(dump)
    <3>1. p(x) \in Said BY <2>3, IdsAreNames
    <3>2. QED BY <3>1, SaidIsBelow
  <2>5. dump[p(x)].clickable \in BOOLEAN BY <2>4 DEF Doc
  <2> HIDE DEF p
  <2>6. Score(s, els[x]) = base + (IF dump[p(x)].clickable THEN 5 ELSE 0) BY <2>2, <2>3 DEF Score
  <2>7. QED BY <2>3, <2>5, <2>6
<1>2. els[m].i < els[n].i <=> p(m) < p(n) BY <1>1, IdsAreNames
<1>3. base \in Int OBVIOUS
<1> DEFINE a == dump[p(m)].clickable
           b == dump[p(n)].clickable
<1>4. a \in BOOLEAN /\ b \in BOOLEAN BY <1>1
<1>5. Score(s, els[m]) = base + (IF a THEN 5 ELSE 0) /\ Score(s, els[n]) = base + (IF b THEN 5 ELSE 0) BY <1>1
<1>6. Better(p(m), p(n)) <=> IF a = b THEN p(m) < p(n) ELSE a BY DEF Better
<1> HIDE DEF p, base, a, b
<1>7. Precedes(s, els[m], els[n]) <=> IF a = b THEN els[m].i < els[n].i ELSE a
  <2>1. CASE a = b
    <3>1. Score(s, els[m]) = Score(s, els[n]) /\ Score(s, els[m]) \in Int BY <1>3, <1>5, <2>1
    <3>2. QED BY <2>1, <3>1 DEF Precedes
  <2>2. CASE a = TRUE /\ b = FALSE
    <3>1. Score(s, els[m]) = base + 5 /\ Score(s, els[n]) = base + 0 BY <1>5, <2>2
    <3>2. Score(s, els[m]) > Score(s, els[n]) BY <1>3, <3>1
    <3>3. Precedes(s, els[m], els[n]) BY <3>2 DEF Precedes
    <3>4. QED BY <2>2, <3>3
  <2>3. CASE a = FALSE /\ b = TRUE
    <3>1. Score(s, els[m]) = base + 0 /\ Score(s, els[n]) = base + 5 BY <1>5, <2>3
    <3>2. ~(Score(s, els[m]) > Score(s, els[n])) /\ Score(s, els[m]) # Score(s, els[n]) BY <1>3, <3>1
    <3>3. ~Precedes(s, els[m], els[n]) BY <3>2 DEF Precedes
    <3>4. QED BY <2>3, <3>3
  <2>4. QED BY <1>4, <2>1, <2>2, <2>3
<1>8. QED BY <1>2, <1>6, <1>7 DEF p

\* What the relations say of an element is what the dump says of its place.
LEMMA AdmitsWhatIsAlike ==
    ASSUME Doc(dump), NEW els, els = ParseElements(dump), NEW s,
           NEW rel, rel = None \/ rel = ParseRelations(dump), ~(Relational(s) /\ rel = None),
           NEW n \in DOMAIN els
    PROVE  Admits(els, rel, s, els[n]) <=> Alike(Place(els[n].i), s)
<1> DEFINE i == els[n].i
           k == Place(els[n].i)
           says(ids, text) == \E m \in DOMAIN els : els[m].i \in ids /\ els[m].text = text
<1>1. i \in Ids /\ els[n].text = dump[k].text /\ els[n].clickable = dump[k].clickable BY ElementsAreNodes
<1>2. k \in Said /\ Index(dump, k) = i BY <1>1, IdsAreNames
<1>3. ASSUME NEW ids, ids \in SUBSET Ids, NEW text
      PROVE  says(ids, text) <=> \E j \in ids : dump[Place(j)].text = text
  <2>1. \A m \in DOMAIN els : els[m].text = dump[Place(els[m].i)].text BY ElementsAreNodes
  <2>2. \A j \in Ids : j + 1 \in DOMAIN els /\ els[j + 1].i = j
    <3>1. \A m \in DOMAIN els : els[m].i = m - 1 BY ElementsAreNodes
    <3>2. \A j \in Ids : j + 1 \in DOMAIN els /\ j \in Nat BY ElementsAreNodes, IdsAreNames
    <3>3. QED BY <3>1, <3>2
  <2>3. ASSUME NEW j \in ids, dump[Place(j)].text = text PROVE says(ids, text)
    <3>1. j + 1 \in DOMAIN els /\ els[j + 1].i = j BY <1>3, <2>2
    <3>2. els[j + 1].text = text BY <2>1, <2>3, <3>1
    <3>3. QED BY <3>1, <3>2
  <2>4. ASSUME says(ids, text) PROVE \E j \in ids : dump[Place(j)].text = text BY <2>1, <2>4
  <2>5. QED BY <2>3, <2>4
<1>4. ASSUME rel # None, NEW text
      PROVE  says(rel.siblings[i], text)
               <=> \E m \in Said \ {k} : /\ dump[m].text = text
                                         /\ Innermost(Outside(m)) = Innermost(Outside(k))
  <2> DEFINE q(m) == Innermost(Outside(m))
  <2>1. rel.siblings[i] = {j \in Ids \ {i} : rel.parent[j] = rel.parent[i]}
    BY <1>1, <1>4, RelationsAre
  <2>2. rel.parent = Parents(IterTree(dump)) BY <1>4, RelationsAre
  <2>3. \A j \in Ids : rel.parent[j] = rel.parent[i] <=> q(Place(j)) = q(k)
    BY <1>1, <2>2, SameParentSameInnermost
  <2>4. \A j \in Ids : j # i <=> Place(j) # k BY <1>1, IdsAreNames
  <2>5. \A j \in rel.siblings[i] : Place(j) \in Said \ {k} /\ q(Place(j)) = q(k)
    BY <2>1, <2>3, <2>4, IdsAreNames
  <2>6. ASSUME NEW m \in Said \ {k}, q(m) = q(k) PROVE \E j \in rel.siblings[i] : Place(j) = m
    <3>1. Index(dump, m) \in Ids /\ Place(Index(dump, m)) = m BY IdsAreNames, IndexNames
    <3>2. Index(dump, m) \in rel.siblings[i] BY <2>1, <2>3, <2>4, <2>6, <3>1
    <3>3. QED BY <3>1, <3>2
  <2>7. rel.siblings[i] \in SUBSET Ids BY <2>1
  <2> HIDE DEF q, says, k
  <2>8. says(rel.siblings[i], text) <=> \E j \in rel.siblings[i] : dump[Place(j)].text = text BY <1>3, <2>7
  <2>9. QED BY <2>5, <2>6, <2>8 DEF q
<1>5. ASSUME rel # None, NEW text
      PROVE  says(ToSet(rel.ancestors[i]), text) <=> \E m \in Outside(k) : dump[m].text = text
  <2>1. rel.ancestors = Ancestors(rel.parent) /\ rel.parent = Parents(IterTree(dump))
    BY <1>4, <1>5, RelationsAre
  <2>2. rel.ancestors[i] \in Seq(Ids) /\ {Place(j) : j \in ToSet(rel.ancestors[i])} = Outside(k)
    BY <1>1, <2>1, AncestorsAreOutside
  <2> DEFINE chain == rel.ancestors[i]
  <2> HIDE DEF says, k, chain
  <2>3. ToSet(chain) \in SUBSET Ids
    <3>1. \A m \in DOMAIN chain : chain[m] \in Ids BY <2>2 DEF chain
    <3>2. QED BY <3>1 DEF ToSet
  <2>4. says(ToSet(chain), text) <=> \E j \in ToSet(chain) : dump[Place(j)].text = text BY <1>3, <2>3
  <2>5. {Place(j) : j \in ToSet(chain)} = Outside(k) BY <2>2 DEF chain
  <2>6. says(ToSet(chain), text) <=> \E m \in Outside(k) : dump[m].text = text BY <2>4, <2>5
  <2>7. QED BY <2>6 DEF chain
<1>6. "sibling_text" \in DOMAIN s \/ "ancestor_text" \in DOMAIN s => rel # None
  <2>1. "sibling_text" \in DOMAIN s \/ "ancestor_text" \in DOMAIN s => Relational(s) BY DEF Relational
  <2>2. QED BY <2>1
<1>7. Admits(els, rel, s, els[n]) <=>
        /\ "text" \in DOMAIN s => els[n].text = s.text
        /\ "clickable" \in DOMAIN s => els[n].clickable = s.clickable
        /\ "sibling_text" \in DOMAIN s => rel # None /\ says(rel.siblings[i], s.sibling_text)
        /\ "ancestor_text" \in DOMAIN s => rel # None /\ says(ToSet(rel.ancestors[i]), s.ancestor_text)
  BY DEF Admits
<1> HIDE DEF says
<1>8. "sibling_text" \in DOMAIN s =>
        (says(rel.siblings[i], s.sibling_text)
           <=> \E m \in Said \ {k} : /\ dump[m].text = s.sibling_text
                                     /\ Innermost(Outside(m)) = Innermost(Outside(k)))
  BY <1>4, <1>6
<1>9. "ancestor_text" \in DOMAIN s =>
        (says(ToSet(rel.ancestors[i]), s.ancestor_text) <=> \E m \in Outside(k) : dump[m].text = s.ancestor_text)
  BY <1>5, <1>6
<1>10. Alike(k, s) <=>
        /\ "text" \in DOMAIN s => dump[k].text = s.text
        /\ "clickable" \in DOMAIN s => dump[k].clickable = s.clickable
        /\ "sibling_text" \in DOMAIN s => \E m \in Said \ {k} : /\ dump[m].text = s.sibling_text
                                     /\ Innermost(Outside(m)) = Innermost(Outside(k))
        /\ "ancestor_text" \in DOMAIN s => \E m \in Outside(k) : dump[m].text = s.ancestor_text
  BY DEF Alike
<1>11. QED BY <1>1, <1>6, <1>7, <1>8, <1>9, <1>10

LEMMA FindNamesThem ==
    ASSUME Doc(dump), NEW els, els = ParseElements(dump), NEW s \in Selectors,
           NEW rel, rel = None \/ rel = ParseRelations(dump), ~(Relational(s) /\ rel = None),
           NEW ids, ids = MatchSelector(els, rel, s)
    PROVE  LET there == {k \in Said : Alike(k, s)}
               places == [n \in DOMAIN ids |-> Place(ids[n])]
           IN IF "nth_match" \in DOMAIN s
              THEN /\ ToSet(places)
                          = {k \in there : Cardinality({n \in there : Better(n, k)}) = s.nth_match}
                   /\ Len(ids) <= 1
              ELSE /\ ToSet(places) = there
                   /\ \A m, n \in DOMAIN places : m < n => Better(places[m], places[n])
<1> DEFINE ranked == Admitted(els, rel, s)
           there == {k \in Said : Alike(k, s)}
           p(n) == Place(els[n].i)
           ahead(n) == {m \in ranked : Precedes(s, els[m], els[n])}
           better == {x \in there \X there : Better(x[1], x[2])}
           c == Cardinality(there)
           rank(k) == Cardinality(Before(better, there, k))
           all == [r \in 1..Cardinality(ranked) |-> els[CHOOSE n \in ranked : Cardinality(ahead(n)) = r - 1].i]
\* The admitted elements are the nodes that are there.
<1>1. /\ \A n \in ranked : p(n) \in there /\ els[n].i \in Ids
      /\ \A m, n \in ranked : p(m) = p(n) => m = n
      /\ \A k \in there : \E n \in ranked : p(n) = k
  <2>1. ASSUME NEW n \in ranked PROVE p(n) \in there /\ els[n].i \in Ids /\ els[n].i = n - 1
    <3>1. n \in DOMAIN els /\ Admits(els, rel, s, els[n]) BY DEF Admitted
    <3>2. els[n].i \in Ids /\ els[n].i = n - 1 BY <3>1, ElementsAreNodes
    <3>3. Alike(p(n), s) BY <3>1, AdmitsWhatIsAlike
    <3>4. p(n) \in Said BY <3>2, IdsAreNames
    <3>5. QED BY <3>2, <3>3, <3>4
  <2>2. ASSUME NEW m \in ranked, NEW n \in ranked, p(m) = p(n) PROVE m = n
    <3>1. els[m].i = els[n].i BY <2>1, <2>2, IdsAreNames
    <3>2. m \in DOMAIN els /\ n \in DOMAIN els BY DEF Admitted
    <3>3. m \in Int /\ n \in Int
      <4>1. els \in Seq(ElementTypes(dump)) BY ElementsAreNodes
      <4>2. QED BY <3>2, <4>1
    <3>4. m - 1 = n - 1 BY <2>1, <3>1
    <3>5. QED BY <3>3, <3>4
  <2>3. ASSUME NEW k \in there PROVE \E n \in ranked : p(n) = k
    <3> DEFINE n == Index(dump, k) + 1
    <3>1. Index(dump, k) \in Ids /\ Index(dump, k) \in Nat /\ Place(Index(dump, k)) = k
      BY IdsAreNames, IndexNames
    <3>2. n \in DOMAIN els /\ els[n].i = n - 1 BY <3>1, ElementsAreNodes
    <3>3. p(n) = k BY <3>1, <3>2
    <3>4. Admits(els, rel, s, els[n]) BY <3>2, <3>3, AdmitsWhatIsAlike
    <3>5. n \in ranked BY <3>2, <3>4 DEF Admitted
    <3>6. QED BY <3>3, <3>5
  <2>4. QED BY <2>1, <2>2, <2>3
\* Better orders them.
<1>2. IsFiniteSet(there) /\ Orders(better, there)
  <2>1. there \in SUBSET Said /\ \A k \in there : k \in Int /\ dump[k].clickable \in BOOLEAN
    <3>1. \A k \in Said : k \in Int /\ k \in 1..Len(dump) BY SaidIsBelow
    <3>2. \A k \in Said : dump[k].clickable \in BOOLEAN BY <3>1 DEF Doc
    <3>3. QED BY <3>1, <3>2
  <2>2. IsFiniteSet(there) BY <2>1, SaidIsBelow, FS_Subset
  <2> HIDE DEF there
  <2>3. \A x \in there : ~Better(x, x) BY <2>1 DEF Better
  <2>4. \A x, y \in there : x # y => Better(x, y) \/ Better(y, x) BY <2>1 DEF Better
  <2>5. \A x, y, z \in there : Better(x, y) /\ Better(y, z) => Better(x, z) BY <2>1 DEF Better
  <2>6. \A x, y \in there : <<x, y>> \in better <=> Better(x, y) OBVIOUS
  <2> HIDE DEF better
  <2>7. QED BY <2>2, <2>3, <2>4, <2>5, <2>6 DEF Orders
<1>3. \A k \in there : Before(better, there, k) = {n \in there : Better(n, k)}
  <2> HIDE DEF there
  <2>1. QED BY DEF Before
<1>4. /\ c \in Nat
      /\ \A k \in there : rank(k) \in Nat /\ rank(k) < c
      /\ \A x, y \in there : Better(x, y) <=> rank(x) < rank(y)
      /\ \A r \in 1..c : \E k \in there : rank(k) = r - 1
  <2>1. \A x, y \in there : <<x, y>> \in better <=> Better(x, y)
    <3> HIDE DEF there
    <3>1. QED OBVIOUS
  <2> HIDE DEF there, better
  <2>2. QED BY <1>2, <2>1, OrderRanks
\* So many come before an element as nodes before its place.
<1>5. Cardinality(ranked) = c /\ \A n \in ranked : Cardinality(ahead(n)) = rank(p(n))
  <2>1. ASSUME NEW A, A \in SUBSET ranked, NEW B, B \in SUBSET there, \A k \in B : \E n \in A : p(n) = k,
               \A n \in A : p(n) \in B
        PROVE  Cardinality(A) = Cardinality(B)
    <3> DEFINE f == [n \in A |-> p(n)]
    <3>1. IsFiniteSet(B) BY <1>2, <2>1, FS_Subset
    <3> HIDE DEF p, ranked, there
    <3>2. f \in Injection(A, B)
      <4>1. \A m, n \in A : p(m) = p(n) => m = n BY <1>1, <2>1
      <4>2. QED BY <2>1, <4>1 DEF Injection, IsInjective
    <3>3. f \in Surjection(A, B) BY <2>1 DEF Surjection
    <3> HIDE DEF f
    <3>4. QED BY <3>1, <3>2, <3>3, FS_Injection
  <2>2. Cardinality(ranked) = c
    <3> HIDE DEF p, ranked, there
    <3>1. QED BY <1>1, <2>1
  <2>3. ASSUME NEW n \in ranked PROVE Cardinality(ahead(n)) = rank(p(n))
    <3>1. \A m \in ranked : Precedes(s, els[m], els[n]) <=> Better(p(m), p(n)) BY SortedAsOnScreen
    <3>2. Before(better, there, p(n)) = {k \in there : Better(k, p(n))} BY <1>1, <1>3
    <3> DEFINE A == ahead(n)
               B == Before(better, there, p(n))
    <3>3. A \in SUBSET ranked /\ B \in SUBSET there BY <3>2
    <3> HIDE DEF p, ranked, there, better
    <3>4. \A k \in B : \E m \in A : p(m) = k BY <1>1, <3>1, <3>2
    <3>5. \A m \in A : p(m) \in B BY <1>1, <3>1, <3>2
    <3> HIDE DEF A, B
    <3>6. Cardinality(A) = Cardinality(B) BY <2>1, <3>3, <3>4, <3>5
    <3>7. QED BY <3>6 DEF A, B
  <2>4. QED BY <2>2, <2>3
\* The r-th place of the whole list is the node that r - 1 are better than.
<1>6. /\ all \in Seq(Ids) /\ Len(all) = c /\ DOMAIN all = 1..c
      /\ \A r \in 1..c : Place(all[r]) \in there /\ rank(Place(all[r])) = r - 1
  <2>1. ASSUME NEW r \in 1..c
        PROVE  all[r] \in Ids /\ Place(all[r]) \in there /\ rank(Place(all[r])) = r - 1
    <3> DEFINE n == CHOOSE n \in ranked : Cardinality(ahead(n)) = r - 1
    <3>1. PICK k \in there : rank(k) = r - 1 BY <1>4
    <3>2. PICK m \in ranked : p(m) = k BY <1>1
    <3>3. Cardinality(ahead(m)) = r - 1 BY <1>5, <3>1, <3>2
    <3>4. n \in ranked /\ Cardinality(ahead(n)) = r - 1
      <4> HIDE DEF ranked, ahead
      <4>1. QED BY <3>3
    <3>5. all[r] = els[n].i BY <1>5
    <3> HIDE DEF n
    <3>6. els[n].i \in Ids /\ p(n) \in there /\ rank(p(n)) = r - 1 BY <1>1, <1>5, <3>4
    <3>7. QED BY <3>5, <3>6
  <2>2. DOMAIN all = 1..c BY <1>5
  <2>3. all = [r \in 1..c |-> all[r]] BY <2>2
  <2> HIDE DEF all, c
  <2>4. all \in Seq(Ids) /\ Len(all) = c
    <3>1. \A r \in 1..c : all[r] \in Ids BY <2>1
    <3>2. all \in [1..c -> Ids] BY <2>3, <3>1
    <3>3. c \in Nat BY <1>4
    <3>4. all \in Seq(Ids) BY <3>2, <3>3
    <3>5. QED BY <2>2, <3>3, <3>4
  <2>5. QED BY <2>1, <2>2, <2>4
<1>7. ids = IF "nth_match" \in DOMAIN s THEN Nth(all, s.nth_match) ELSE all
  BY DEF MatchSelector, Admitted
<1>8. \A k \in there : rank(k) + 1 \in 1..c /\ Place(all[rank(k) + 1]) = k
  <2> SUFFICES ASSUME NEW k \in there PROVE rank(k) + 1 \in 1..c /\ Place(all[rank(k) + 1]) = k OBVIOUS
  <2> DEFINE r == rank(k) + 1
             x == Place(all[r])
  <2>1. rank(k) \in Nat /\ rank(k) < c /\ c \in Nat BY <1>4
  <2>2. r \in 1..c
    <3> HIDE DEF rank, c
    <3>1. QED BY <2>1
  <2>3. x \in there /\ rank(x) = r - 1 BY <1>6, <2>2
  <2>4. rank(x) = rank(k)
    <3> HIDE DEF rank, x, c
    <3>1. QED BY <2>1, <2>3
  <2>5. ~(rank(x) < rank(k)) /\ ~(rank(k) < rank(x))
    <3> HIDE DEF rank, x, c
    <3>1. QED BY <2>1, <2>4
  <2>6. ~Better(x, k) /\ ~Better(k, x)
    <3> HIDE DEF x, there, rank
    <3>1. QED BY <1>4, <2>3, <2>5
  <2>7. x = k
    <3>1. \A y \in there : x # y => <<x, y>> \in better \/ <<y, x>> \in better BY <1>2, <2>3 DEF Orders
    <3> HIDE DEF x, there
    <3>2. QED BY <2>6, <3>1
  <2>8. QED BY <2>2, <2>7
<1>9. CASE "nth_match" \notin DOMAIN s
  <2> DEFINE places == [n \in DOMAIN ids |-> Place(ids[n])]
  <2>1. ids = all BY <1>7, <1>9
  <2> HIDE DEF all, rank, c, there
  <2>2. DOMAIN places = 1..c /\ \A r \in 1..c : places[r] = Place(all[r]) BY <1>6, <2>1
  <2>3. ToSet(places) = there
    <3>1. \A r \in DOMAIN places : places[r] \in there BY <1>6, <2>2
    <3>2. \A k \in there : rank(k) + 1 \in DOMAIN places /\ places[rank(k) + 1] = k BY <1>8, <2>2
    <3> HIDE DEF places
    <3>3. QED BY <3>1, <3>2 DEF ToSet
  <2>4. ASSUME NEW m \in DOMAIN places, NEW n \in DOMAIN places, m < n PROVE Better(places[m], places[n])
    <3>1. places[m] \in there /\ places[n] \in there /\ rank(places[m]) = m - 1 /\ rank(places[n]) = n - 1
      BY <1>6, <2>2
    <3>2. m \in Int /\ n \in Int BY <2>2, <1>4
    <3>3. m - 1 < n - 1 BY <2>4, <3>2
    <3> HIDE DEF places
    <3>4. QED BY <1>4, <3>1, <3>3
  <2>5. QED BY <1>9, <2>3, <2>4 DEF there
<1>10. CASE "nth_match" \in DOMAIN s
  <2> DEFINE t == s.nth_match
             places == [n \in DOMAIN ids |-> Place(ids[n])]
             wanted == {k \in there : Cardinality({n \in there : Better(n, k)}) = t}
  <2>1. t \in Int BY <1>10, TreeConstants
  <2>2. ids = IF t >= 0 /\ t < c THEN <<all[t + 1]>> ELSE <<>> BY <1>6, <1>7, <1>10 DEF Nth
  <2>3. wanted = {k \in there : rank(k) = t}
    <3>1. \A k \in there : rank(k) = Cardinality({n \in there : Better(n, k)}) BY <1>3
    <3> HIDE DEF there, rank
    <3>2. QED BY <3>1
  <2> HIDE DEF all, rank, c, there, wanted, t
  <2>4. CASE t >= 0 /\ t < c
    <3>1. ids = <<all[t + 1]>> BY <2>2, <2>4
    <3>2. t + 1 \in 1..c /\ (t + 1) - 1 = t BY <1>4, <2>1, <2>4
    <3> DEFINE x == Place(all[t + 1])
    <3>3. x \in there /\ rank(x) = t BY <1>6, <3>2
    <3>4. \A k \in there : rank(k) = t => k = x BY <1>8
    <3>5. wanted = {x} BY <2>3, <3>3, <3>4
    <3>6. DOMAIN ids = {1} /\ ids[1] = all[t + 1] /\ Len(ids) = 1 BY <3>1
    <3>7. ToSet(places) = {x} BY <3>6 DEF ToSet
    <3>8. QED BY <1>10, <3>5, <3>6, <3>7 DEF wanted, there, t
  <2>5. CASE ~(t >= 0 /\ t < c)
    <3>1. ids = <<>> BY <2>2, <2>5
    <3>2. \A k \in there : rank(k) # t BY <1>4, <2>1, <2>5
    <3>3. wanted = {} BY <2>3, <3>2
    <3>4. DOMAIN ids = {} /\ Len(ids) = 0 BY <3>1
    <3>5. ToSet(places) = {} BY <3>4 DEF ToSet
    <3>6. QED BY <1>10, <3>3, <3>4, <3>5 DEF wanted, there, t
  <2>6. QED BY <2>4, <2>5
<1>11. QED BY <1>9, <1>10

LEMMA FindNamesNothing ==
    ASSUME NEW els, els \in Seq(ElementTypes(dump)), NEW s \in Selectors, Relational(s)
    PROVE  MatchSelector(els, None, s) = <<>>
<1> DEFINE ranked == {n \in DOMAIN els : Admits(els, None, s, els[n])}
           all == [r \in 1..Cardinality(ranked) |->
                      els[CHOOSE n \in ranked :
                              Cardinality({m \in ranked : Precedes(s, els[m], els[n])}) = r - 1].i]
<1>1. ranked = {} BY DEF Admits, Relational
<1>2. Cardinality(ranked) = 0 BY <1>1, FS_EmptySet
<1>3. all = <<>>
  <2>1. 1..0 = {} OBVIOUS
  <2>2. DOMAIN all = {} BY <1>2, <2>1
  <2> HIDE DEF all
  <2>3. QED BY <2>2
<1>4. MatchSelector(els, None, s) = IF "nth_match" \in DOMAIN s THEN Nth(all, s.nth_match) ELSE all
  BY DEF MatchSelector
<1>5. CASE "nth_match" \in DOMAIN s
  <2>1. s.nth_match \in Int BY <1>5, TreeConstants
  <2>2. Len(<<>>) = 0 OBVIOUS
  <2> HIDE DEF all
  <2>3. MatchSelector(els, None, s) = Nth(<<>>, s.nth_match) BY <1>3, <1>4, <1>5
  <2>4. QED BY <2>1, <2>2, <2>3 DEF Nth
<1>6. CASE "nth_match" \notin DOMAIN s BY <1>3, <1>4, <1>6
<1>7. QED BY <1>5, <1>6

-----------------------------------------------------------------------------
(* Forms.                                                                  *)

\* What is written nearest to the place of an index.
Nearest(i) ==
    LET field == Place(i)
        written == {k \in Said \ {field} : dump[k].text # "" /\ ~dump[k].editable}
        beside == {k \in written : Innermost(Outside(k)) = Innermost(Outside(field))}
        around == written \cap Outside(field)
    IN IF beside # {} THEN dump[Least(beside)].text
       ELSE IF around # {} THEN dump[Innermost(around)].text ELSE None
LEMMA LabelIsNear ==
    ASSUME Doc(dump), NEW els, els = ParseElements(dump), NEW rel, rel = ParseRelations(dump), NEW i \in Ids
    PROVE  Label(els, rel, i) = Nearest(i)
<1> DEFINE field == Place(i)
           written == {k \in Said \ {field} : dump[k].text # "" /\ ~dump[k].editable}
           beside == {k \in written : Innermost(Outside(k)) = Innermost(Outside(field))}
           around == written \cap Outside(field)
           has(j) == \E n \in DOMAIN els : els[n].i = j /\ els[n].text # "" /\ ~els[n].editable
           text(j) == els[CHOOSE n \in DOMAIN els : els[n].i = j].text
           near == {j \in rel.siblings[i] : has(j)}
           chain == rel.ancestors[i]
           out == {n \in DOMAIN chain : has(chain[n])}
<1>1. field \in Said BY IdsAreNames
\* What has a label is what is written.
<1>2. ASSUME NEW j \in Ids
      PROVE  /\ has(j) <=> dump[Place(j)].text # "" /\ ~dump[Place(j)].editable
             /\ text(j) = dump[Place(j)].text
  <2>1. \A n \in DOMAIN els : els[n].i = n - 1 BY ElementsAreNodes
  <2>2. j + 1 \in DOMAIN els /\ j \in Nat BY ElementsAreNodes, IdsAreNames
  <2>3. \A n \in DOMAIN els : n \in Int
    <3>1. els \in Seq(ElementTypes(dump)) BY ElementsAreNodes
    <3>2. QED BY <3>1
  <2>4. \A n \in DOMAIN els : els[n].i = j <=> n = j + 1 BY <2>1, <2>2, <2>3
  <2>5. els[j + 1].i = j /\ els[j + 1].text = dump[Place(j)].text /\ els[j + 1].editable = dump[Place(j)].editable
    BY <2>2, <2>4, ElementsAreNodes
  <2>6. (CHOOSE n \in DOMAIN els : els[n].i = j) = j + 1 BY <2>2, <2>4
  <2>7. QED BY <2>2, <2>4, <2>5, <2>6
<1> HIDE DEF has, text
<1>3. Label(els, rel, i) = IF near # {} THEN text(Least(near))
                           ELSE IF out # {} THEN text(chain[Least(out)]) ELSE None
  BY DEF Label, has, text
\* Beside it.
<1>4. /\ near \in SUBSET Ids
      /\ \A j \in near : Place(j) \in beside
      /\ \A k \in beside : \E j \in near : Place(j) = k
  <2>1. rel.siblings[i] = {j \in Ids \ {i} : rel.parent[j] = rel.parent[i]}
        /\ rel.parent = Parents(IterTree(dump))
    BY RelationsAre
  <2>2. \A j \in Ids : rel.parent[j] = rel.parent[i]
                          <=> Innermost(Outside(Place(j))) = Innermost(Outside(field))
    BY <2>1, SameParentSameInnermost
  <2>3. \A j \in Ids : Place(j) \in Said /\ (j # i <=> Place(j) # field) BY IdsAreNames
  <2>4. \A j \in Ids : j \in near <=> Place(j) \in beside
    <3> HIDE DEF field
    <3>1. QED BY <1>2, <2>1, <2>2, <2>3
  <2>5. near \in SUBSET Ids BY <2>1
  <2>6. \A k \in beside : Index(dump, k) \in Ids /\ Place(Index(dump, k)) = k BY IdsAreNames, IndexNames
  <2> HIDE DEF near, beside
  <2>7. QED BY <2>4, <2>5, <2>6
<1>5. near # {} <=> beside # {}
  <2> HIDE DEF near, beside
  <2>1. QED BY <1>4
<1>6. ASSUME near # {} PROVE text(Least(near)) = dump[Least(beside)].text
  <2> DEFINE j == Least(near)
  <2>1. near \in SUBSET Nat BY <1>4, IdsAreNames
  <2> HIDE DEF near, beside
  <2>2. \E x \in near : \A y \in near : x <= y BY <1>6, <2>1, LeastNatural
  <2>3. j \in near /\ \A y \in near : j <= y BY <2>2 DEF Least
  <2> HIDE DEF j
  <2>4. \A y \in near : Place(j) <= Place(y)
    <3> SUFFICES ASSUME NEW y \in near PROVE Place(j) <= Place(y) OBVIOUS
    <3>1. j \in Ids /\ y \in Ids /\ j \in Nat /\ y \in Nat BY <1>4, <2>1, <2>3
    <3>2. ~(y < j) BY <2>3, <3>1
    <3>3. ~(Place(y) < Place(j)) BY <3>1, <3>2, IdsAreNames
    <3>4. Place(j) \in Int /\ Place(y) \in Int BY <3>1, IdsAreNames, SaidIsBelow
    <3>5. QED BY <3>3, <3>4
  <2>5. Place(j) \in beside /\ \A k \in beside : Place(j) <= k BY <1>4, <2>3, <2>4
  <2>6. \A k \in beside : k \in Int BY SaidIsBelow DEF beside
  <2>7. Least(beside) = Place(j) BY <2>5, <2>6 DEF Least
  <2>8. text(j) = dump[Place(j)].text BY <1>2, <1>4, <2>3
  <2>9. QED BY <2>7, <2>8 DEF j
\* Around it.
<1>7. /\ chain \in Seq(Ids)
      /\ {Place(j) : j \in ToSet(chain)} = Outside(field)
      /\ \A m, n \in DOMAIN chain : m < n => Place(chain[m]) > Place(chain[n])
  <2>1. rel.ancestors = Ancestors(rel.parent) /\ rel.parent = Parents(IterTree(dump)) BY RelationsAre
  <2>2. QED BY <2>1, AncestorsAreOutside
<1>8. \A n \in DOMAIN chain : chain[n] \in Ids /\ n \in Nat BY <1>7
<1>9. \A n \in DOMAIN chain : n \in out <=> Place(chain[n]) \in around
  <2> SUFFICES ASSUME NEW n \in DOMAIN chain PROVE n \in out <=> Place(chain[n]) \in around OBVIOUS
  <2>1. chain[n] \in Ids BY <1>8
  <2>2. Place(chain[n]) \in Outside(field) BY <1>7 DEF ToSet
  <2>3. Place(chain[n]) \in Said BY <2>1, IdsAreNames
  <2>4. Place(chain[n]) # field
    <3>1. field \in 0..Len(dump) /\ field \in Int BY <1>1, SaidIsBelow
    <3>2. Place(chain[n]) < field BY <2>2, <3>1, OutsideIsSaid
    <3>3. QED BY <3>1, <3>2
  <2>5. has(chain[n]) <=> dump[Place(chain[n])].text # "" /\ ~dump[Place(chain[n])].editable BY <1>2, <2>1
  <2> HIDE DEF chain, field
  <2>6. QED BY <2>2, <2>3, <2>4, <2>5
<1>10. \A k \in around : \E n \in out : Place(chain[n]) = k
  <2> SUFFICES ASSUME NEW k \in around PROVE \E n \in out : Place(chain[n]) = k OBVIOUS
  <2>1. PICK n \in DOMAIN chain : Place(chain[n]) = k BY <1>7 DEF ToSet
  <2>2. n \in out BY <1>9, <2>1
  <2>3. QED BY <2>1, <2>2
<1>11. out # {} <=> around # {}
  <2>1. out \in SUBSET DOMAIN chain OBVIOUS
  <2> HIDE DEF out, around
  <2>2. QED BY <1>9, <1>10, <2>1
<1>12. ASSUME out # {} PROVE text(chain[Least(out)]) = dump[Innermost(around)].text
  <2> DEFINE n == Least(out)
  <2>1. out \in SUBSET Nat /\ out \in SUBSET DOMAIN chain BY <1>8
  <2>2. around \in SUBSET Said OBVIOUS
  <2> HIDE DEF out, around, chain
  <2>3. \E x \in out : \A y \in out : x <= y BY <1>12, <2>1, LeastNatural
  <2>4. n \in out /\ \A y \in out : n <= y BY <2>3 DEF Least
  <2> HIDE DEF n
  <2>5. Place(chain[n]) \in around BY <1>9, <2>1, <2>4
  <2>6. ASSUME NEW k \in around PROVE k <= Place(chain[n])
    <3>1. PICK m \in out : Place(chain[m]) = k BY <1>10
    <3>2. m = n \/ n < m BY <2>1, <2>4
    <3>3. k \in Int /\ Place(chain[n]) \in Int BY <2>2, <2>5, SaidIsBelow
    <3>4. CASE m = n BY <3>1, <3>3, <3>4
    <3>5. CASE n < m
      <4>1. Place(chain[n]) > k BY <1>7, <2>1, <2>4, <3>1, <3>5
      <4>2. QED BY <3>3, <4>1
    <3>6. QED BY <3>2, <3>4, <3>5
  <2>7. Innermost(around) = Place(chain[n]) BY <2>2, <2>5, <2>6, InnermostIs
  <2>8. text(chain[n]) = dump[Place(chain[n])].text BY <1>2, <1>8, <2>1, <2>4
  <2>9. QED BY <2>7, <2>8 DEF n
<1>13. Nearest(i) = IF beside # {} THEN dump[Least(beside)].text
                    ELSE IF around # {} THEN dump[Innermost(around)].text ELSE None
  BY DEF Nearest
<1> HIDE DEF near, out, chain, beside, around
<1>14. QED BY <1>3, <1>5, <1>6, <1>11, <1>12, <1>13

LEMMA FormsAreRight ==
    ASSUME Doc(dump), NEW els, els = ParseElements(dump), NEW rel, rel = ParseRelations(dump),
           answer.form = ExtractForm(els, rel)
    PROVE  LabelsAreNear
<1> DEFINE fields == {m \in DOMAIN els : els[m].editable}
           form == {[i |-> els[n].i, label |-> Label(els, rel, els[n].i)] : n \in fields}
<1>1. answer.form = form BY DEF ExtractForm
<1>2. \A n \in DOMAIN els : els[n].i \in Ids /\ els[n].editable = dump[Place(els[n].i)].editable
  BY ElementsAreNodes
<1>3. \A f \in form : f.i \in Ids /\ dump[Place(f.i)].editable /\ f.label = Label(els, rel, f.i) BY <1>2
<1>4. ASSUME NEW k \in DOMAIN dump, dump[k].editable PROVE \E f \in form : Place(f.i) = k
  <2>1. k \in 1..Len(dump) BY DEF Doc
  <2>2. dump[k].clickable BY <1>4, <2>1 DEF Doc
  <2>3. k \in Said BY <2>1, <2>2, SaidIsBelow DEF Meaningful
  <2> DEFINE n == Index(dump, k) + 1
  <2>4. Index(dump, k) \in Ids /\ Index(dump, k) \in Nat /\ Place(Index(dump, k)) = k BY <2>3, IdsAreNames, IndexNames
  <2>5. n \in DOMAIN els /\ els[n].i = Index(dump, k) BY <2>4, ElementsAreNodes
  <2>6. n \in fields BY <1>2, <1>4, <2>4, <2>5
  <2> DEFINE f == [i |-> els[n].i, label |-> Label(els, rel, els[n].i)]
  <2>7. f \in form BY <2>6
  <2>8. f.i = Index(dump, k) BY <2>5
  <2>9. QED BY <2>4, <2>7, <2>8
<1>5. \A f \in form : Place(f.i) \in DOMAIN dump
  <2>1. \A f \in form : Place(f.i) \in Said BY <1>3, IdsAreNames
  <2>2. QED BY <2>1 DEF Said
<1> HIDE DEF form
<1>6. {Place(f.i) : f \in form} = {k \in DOMAIN dump : dump[k].editable} BY <1>3, <1>4, <1>5
<1>7. ASSUME NEW f \in form PROVE f.label = Nearest(f.i)
  <2>1. f.i \in Ids /\ f.label = Label(els, rel, f.i) BY <1>3
  <2>2. Label(els, rel, f.i) = Nearest(f.i) BY <2>1, LabelIsNear
  <2>3. QED BY <2>1, <2>2
<1>8. LabelsAreNear <=>
        (answer.form # None =>
           /\ {Place(f.i) : f \in answer.form} = {k \in DOMAIN dump : dump[k].editable}
           /\ \A f \in answer.form : f.label = Nearest(f.i))
  BY DEF LabelsAreNear, Nearest
<1>9. {Place(f.i) : f \in answer.form} = {k \in DOMAIN dump : dump[k].editable} BY <1>1, <1>6
<1>10. \A f \in answer.form : f.label = Nearest(f.i) BY <1>1, <1>7
<1>11. QED BY <1>8, <1>9, <1>10

-----------------------------------------------------------------------------
(* The snapshot is of the dump, and the answer is the snapshot's.           *)

SnapInv ==
    /\ snap = [els |-> snap.els, rel |-> snap.rel]
    /\ snap.els # None => snap.els = ParseElements(dump)
    /\ snap.rel # None => snap.rel = ParseRelations(dump) /\ snap.els = ParseElements(dump)
AnswerInv ==
    /\ answer = [selector |-> answer.selector, ids |-> answer.ids, form |-> answer.form]
    /\ answer.selector # None =>
         /\ answer.selector \in Selectors /\ snap.els = ParseElements(dump)
         /\ answer.ids = MatchSelector(snap.els, snap.rel, answer.selector)
    /\ answer.form # None =>
         /\ snap.els = ParseElements(dump)
         /\ answer.form = ExtractForm(ParseElements(dump), ParseRelations(dump))
TreeInv == dump \in Dumps /\ SnapInv /\ AnswerInv

\* Whoever observes, the snapshot's list and relations are those of the dump, and an
\* answer is what match_selector or extract_form says of them.
THEOREM TreeHolds == TreeSpec => []TreeInv
<1>1. TreeInit => TreeInv BY DEF TreeInit, TreeInv, SnapInv, AnswerInv, NoAnswer
<1>2. ASSUME TreeInv, [TreeNext]_treeVars PROVE TreeInv'
  <2> USE DEF TreeInv, NoAnswer
  <2>1. ASSUME NEW relations \in BOOLEAN, Observe(relations) PROVE TreeInv'
    BY <1>2, <2>1 DEF Observe, Observed, SnapInv, AnswerInv
  <2>2. ASSUME NEW s \in Selectors, FindInSession(s) PROVE TreeInv'
    BY <1>2, <2>2 DEF FindInSession, Find, SnapInv, AnswerInv
  <2>3. ASSUME NEW s \in Selectors, DaemonFind(s) PROVE TreeInv'
    BY <1>2, <2>3 DEF DaemonFind, Find, Observed, SnapInv, AnswerInv
  <2>4. ASSUME NEW s \in Selectors, ToolFind(s) PROVE TreeInv'
    BY <1>2, <2>4 DEF ToolFind, Find, Observed, SnapInv, AnswerInv
  <2>5. CASE Form
    BY <1>2, <2>5 DEF Form, Observed, SnapInv, AnswerInv
  <2>6. CASE UNCHANGED treeVars BY <1>2, <2>6 DEF treeVars, SnapInv, AnswerInv
  <2>7. QED BY <1>2, <2>1, <2>2, <2>3, <2>4, <2>5, <2>6 DEF TreeNext
<1>3. QED BY <1>1, <1>2, PTL DEF TreeSpec

LEMMA TreeInvMeans == ASSUME TreeInv PROVE IndicesMeanNodes
<1>1. Doc(dump) BY DumpsAreDocs DEF TreeInv
<1>2. RelationsAgree
  <2>1. CASE snap.rel = None BY <2>1 DEF RelationsAgree
  <2>2. CASE snap.rel # None BY <1>1, <2>2, RelationsHold DEF TreeInv, SnapInv
  <2>3. QED BY <2>1, <2>2
<1>3. FindsWhatIsThere
  <2>1. CASE answer.selector = None BY <2>1 DEF FindsWhatIsThere
  <2>2. CASE answer.selector # None
    <3> DEFINE s == answer.selector
               els == ParseElements(dump)
    <3>1. s \in Selectors /\ answer.ids = MatchSelector(els, snap.rel, s) BY <2>2 DEF TreeInv, AnswerInv
    <3>2. snap.rel = None \/ snap.rel = ParseRelations(dump) BY DEF TreeInv, SnapInv
    <3>3. CASE Relational(s) /\ snap.rel = None
      <4>1. els \in Seq(ElementTypes(dump)) BY <1>1, ElementsAreNodes
      <4>2. MatchSelector(els, None, s) = <<>> BY <3>1, <3>3, <4>1, FindNamesNothing
      <4>3. answer.ids = <<>> BY <3>1, <3>3, <4>2
      <4>4. QED BY <3>3, <4>3 DEF FindsWhatIsThere
    <3>4. CASE ~(Relational(s) /\ snap.rel = None)
      <4> DEFINE there == {k \in Said : Alike(k, s)}
                 places == [n \in DOMAIN answer.ids |-> Place(answer.ids[n])]
      <4>1. IF "nth_match" \in DOMAIN s
            THEN /\ ToSet(places)
                        = {k \in there : Cardinality({n \in there : Better(n, k)}) = s.nth_match}
                 /\ Len(answer.ids) <= 1
            ELSE /\ ToSet(places) = there
                 /\ \A m, n \in DOMAIN places : m < n => Better(places[m], places[n])
        BY <1>1, <3>1, <3>2, <3>4, FindNamesThem
      <4>2. QED BY <3>4, <4>1 DEF FindsWhatIsThere
    <3>5. QED BY <3>3, <3>4
  <2>3. QED BY <2>1, <2>2
<1>4. LabelsAreNear
  <2>1. CASE answer.form = None BY <2>1 DEF LabelsAreNear
  <2>2. CASE answer.form # None
    <3>1. answer.form = ExtractForm(ParseElements(dump), ParseRelations(dump)) BY <2>2 DEF TreeInv, AnswerInv
    <3>2. QED BY <1>1, <3>1, FormsAreRight
  <2>3. QED BY <2>1, <2>2
<1>5. QED BY <1>2, <1>3, <1>4 DEF IndicesMeanNodes

\* For any dump and any selectors an index of parse_elements means the node that
\* parse_relations relates under it: a find names the nodes that are what the
\* selector says, in their order, and a form's labels are the nearest ones.
THEOREM IndicesNameNodes == TreeSpec => []IndicesMeanNodes
<1>1. TreeInv => IndicesMeanNodes BY TreeInvMeans
<1>2. QED BY <1>1, TreeHolds, PTL
=============================================================================
