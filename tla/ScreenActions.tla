---------------------------- MODULE ScreenActions ----------------------------
(***************************************************************************)
(* A command on the screen, from ensure to its envelope: the observation     *)
(* before it, the test of expected_hash, the resolution of an index or a      *)
(* selector, the input, and the observation after it (actuator.py,            *)
(* observer.py, session.py), over the link of AdbLink.  The user and the apps  *)
(* change and lock the screen between any two adb commands, and STOP may be   *)
(* engaged at any time.  Policy, rate and audit are in ActionFunnel.          *)
(*                                                                         *)
(* A screen is a sequence of nodes [text, point, clickable, native]; native    *)
(* says that the companion offers the node's own action.                      *)
(***************************************************************************)
EXTENDS AdbLink, FiniteSets

CONSTANTS
    Screens,        \* what the screen may show
    Target,         \* the text that waits and scrolls look for
    Verbs,          \* the commands of this instance
    Attempts,       \* observe's attempts
    MaxScrolls,     \* scroll_until's max_scrolls
    MaxChanges,     \* bound: changes of the screen and of its lock
    MaxCommands     \* bound: commands

Nothing == <<>>
\* The verbs that may become a node's own action: tap, and long_press of the
\* default duration, which takes the same way with "long_click".
Pointed == {"tap", "tap_text"}
\* Those that need no element: "key" stands for type, key, swipe, drag and fling;
\* "swipe_in" is named_swipe within an element, or across the screen when the
\* last snapshot has no such element.
Unaimed == {"key", "swipe_in"}
WholeScreen == [text |-> "", point |-> 0, clickable |-> FALSE, native |-> FALSE]
ASSUME ScreenConstants ==
    /\ \A s \in Screens : s # Nothing
    /\ Verbs \subseteq {"tap", "tap_text", "double_tap", "key", "swipe_in", "scroll_until", "wait_for"}
    /\ {MaxScrolls, MaxChanges, MaxCommands} \subseteq Nat /\ Attempts \in Nat \ {0}

VARIABLES
    shown, locked, version, \* the phone: nodes, keyguard, tree generation
    stop,                   \* the kill switch
    last,                   \* session.last: [els, version], els = Nothing for None
    cmd,                    \* the command: see NoCommand
    obs,                    \* its observation: [tries, dump]
    commands,
    taps,                   \* inputs that went in for it: sequence of nodes aimed at
    calm,                   \* since it began: [linked, locked], the link never broke,
                            \* the phone was locked all along
    late                    \* inputs it sent since STOP was engaged

screenVars == <<shown, locked, version, stop, last, cmd, obs, commands, taps, calm, late>>
vars == <<linkVars, screenVars>>

\* parse_elements keeps the nodes that say something or can be clicked; an
\* element's index is its place among them.
Elements(nodes) == SelectSeq(nodes, LAMBDA n : n.text # "" \/ n.clickable)
\* Mutant: the hash of a screen leaves the bounds out.
TextHash(els) == [k \in DOMAIN els |-> els[k].text]
\* screen_hash.
Hash(els) == [k \in DOMAIN els |-> <<els[k].text, els[k].point>>]
\* match_selector: those with the text, a clickable one first.
Ranked(els, text) ==
    LET having == {k \in DOMAIN els : els[k].text = text}
        strong == {k \in having : els[k].clickable}
    IN IF strong # {} THEN strong ELSE having

Sights == {Elements(s) : s \in Screens}
NoCommand == [verb |-> "none", i |-> 0, pinned |-> FALSE, staleOk |-> FALSE, sight |-> Nothing,
              pc |-> "idle", ret |-> "idle", left |-> 0, aim |-> 0, result |-> "none"]
Results == {"none", "ok", "not_found", "stale_snapshot", "observe_failed", "device_locked",
            "stopped", "unreachable", "no_element"}
TypeOK ==
    /\ LinkTypeOK
    /\ shown \in Screens /\ locked \in BOOLEAN /\ version \in 0..MaxChanges /\ stop \in BOOLEAN
    /\ last \in [els : Sights \cup {Nothing}, version : 0..MaxChanges]
    /\ DOMAIN cmd = DOMAIN NoCommand /\ cmd.result \in Results
    /\ cmd.verb \in Verbs \cup {"none"} /\ cmd.sight \in Sights \cup {Nothing}
    /\ cmd.left \in Nat
    /\ obs.tries \in 0..Attempts /\ obs.dump \in Screens \cup {Nothing}
    /\ commands \in 0..MaxCommands /\ late \in Nat
    /\ calm \in [linked : BOOLEAN, locked : BOOLEAN]

Init ==
    /\ LinkInit
    /\ shown \in Screens /\ locked \in BOOLEAN /\ version = 0 /\ stop = FALSE
    /\ last = [els |-> Nothing, version |-> 0]
    /\ cmd = NoCommand /\ obs = [tries |-> 0, dump |-> Nothing]
    /\ commands = 0 /\ taps = <<>> /\ late = 0
    /\ calm = [linked |-> TRUE, locked |-> FALSE]

phone == <<shown, locked, version, stop>>
ghosts == <<commands, calm>>

Goto(pc) == cmd' = [cmd EXCEPT !.pc = pc]
Finish(result) == cmd' = [cmd EXCEPT !.pc = "idle", !.result = result]
\* Call observe, and go on at ret.
Look(ret) ==
    /\ cmd' = [cmd EXCEPT !.pc = "tree", !.ret = ret]
    /\ obs' = [tries |-> 0, dump |-> Nothing]

\* The caller has seen some screen (sight) and names an element of it; the
\* funnel tests STOP, wait_for does not; both begin with ensure.
Begin(verb, i, pinned, staleOk, sight) ==
    /\ cmd.pc = "idle" /\ ens = "idle" /\ commands < MaxCommands
    /\ stop => verb = "wait_for"
    /\ i \in DOMAIN sight /\ (staleOk => pinned)
    /\ verb \in {"tap_text", "scroll_until", "wait_for"} => ~pinned
    /\ staleOk => verb = "tap"                          \* bound: stale_ok
    /\ verb \notin {"tap", "double_tap", "swipe_in"} => i = 1
    /\ cmd' = [NoCommand EXCEPT !.verb = verb, !.i = i, !.pinned = pinned, !.staleOk = staleOk,
                  !.sight = IF pinned THEN sight ELSE Nothing, !.pc = "ensure",
                  !.left = IF verb = "scroll_until" THEN MaxScrolls ELSE 0]
    /\ commands' = commands + 1 /\ taps' = <<>> /\ late' = 0
    /\ calm' = [linked |-> Up, locked |-> locked]
    /\ obs' = [tries |-> 0, dump |-> Nothing]
    /\ EnsureBegin /\ UNCHANGED <<phone, last>>

\* ensure returned, or raised; then the observation before the act.
Ensured ==
    /\ cmd.pc = "ensure" /\ ens \in {"ok", "failed"} /\ ens' = "idle"
    /\ start' = First /\ strayed' = FALSE /\ heard' = {} /\ todo' = <<>>
    /\ IF ens = "failed" THEN Finish("unreachable") /\ UNCHANGED obs
       ELSE IF cmd.verb = "wait_for" THEN Look("judge")
       ELSE Look(IF cmd.verb = "scroll_until" THEN "halt" ELSE "check")
    /\ UNCHANGED <<at, linked, moves, serial, saved, checked>>
    /\ UNCHANGED <<phone, last, ghosts, taps, late>>

\* The first half of an observation: uiautomator's dump, or an error line when
\* the screen is not idle; nothing on a dead link.
ReadTree ==
    /\ cmd.pc = "tree" /\ Goto("window")
    /\ \/ obs' = [obs EXCEPT !.dump = Nothing]
       \/ Up /\ obs' = [obs EXCEPT !.dump = shown]
    /\ UNCHANGED <<linkVars, phone, last, ghosts, taps, late>>

\* Mutant: the lock is looked at only when the dump is an error.
LockedOnError(dump) == Up /\ locked /\ dump = Nothing
\* parse_lock_state of the window lines; an empty answer reads as unlocked.
SeenLocked(dump) == Up /\ locked
\* Mutant: the attempts are not counted.
NextTryForever == 0
NextTry == obs.tries + 1
\* The second half: the window's lines.  A locked phone is refused whether or not
\* the tree was read; an error dump is tried again.
ReadWindow ==
    /\ cmd.pc = "window"
    /\ \/ SeenLocked(obs.dump) /\ Finish("device_locked") /\ UNCHANGED <<last, obs>>
       \/ /\ ~SeenLocked(obs.dump) /\ obs.dump # Nothing
          /\ last' = [els |-> Elements(obs.dump), version |-> version]
          /\ obs' = [tries |-> 0, dump |-> Nothing] /\ Goto(cmd.ret)
       \/ /\ ~SeenLocked(obs.dump) /\ obs.dump = Nothing /\ NextTry < Attempts
          /\ obs' = [obs EXCEPT !.tries = NextTry] /\ Goto("tree") /\ UNCHANGED last
       \/ /\ ~SeenLocked(obs.dump) /\ obs.dump = Nothing /\ NextTry >= Attempts
          /\ Finish("observe_failed") /\ UNCHANGED <<last, obs>>
    /\ UNCHANGED <<linkVars, phone, ghosts, taps, late>>

\* _check_stale: when the hash differs from the session's, observe once more.
Differs == cmd.pinned /\ Hash(last.els) # Hash(cmd.sight)
Check ==
    /\ cmd.pc = "check"
    /\ IF Differs THEN Look("compare") ELSE Goto("resolve") /\ UNCHANGED obs
    /\ UNCHANGED <<linkVars, phone, last, ghosts, taps, late>>
Compare ==
    /\ cmd.pc = "compare"
    /\ IF Differs /\ ~cmd.staleOk THEN Finish("stale_snapshot") ELSE Goto("resolve")
    /\ UNCHANGED <<linkVars, phone, last, obs, ghosts, taps, late>>

\* Session.resolve and resolve_selector: an element of the last snapshot.
Resolve ==
    /\ cmd.pc = "resolve"
    /\ LET named == CASE cmd.verb = "tap_text" -> Ranked(last.els, Target)
                       [] cmd.verb = "key" -> {}
                       [] OTHER -> {cmd.i} \cap DOMAIN last.els
       IN \/ named = {} /\ cmd.verb \in Unaimed /\ Goto("input")
          \/ /\ named = {} /\ cmd.verb \notin Unaimed
             /\ Finish(IF cmd.verb = "tap_text" THEN "stale_snapshot" ELSE "no_element")
          \/ \E k \in named :
                /\ \A j \in named : k <= j
                /\ cmd' = [cmd EXCEPT !.pc = "input", !.aim = k]
    /\ UNCHANGED <<linkVars, phone, last, obs, ghosts, taps, late>>

\* An input on a dead link is lost and nobody is told.
Inject(node) ==
    /\ taps' = IF Up THEN Append(taps, node) ELSE taps
    /\ late' = IF stop THEN late + 1 ELSE late
Aimed == IF cmd.aim = 0 THEN WholeScreen ELSE last.els[cmd.aim]

\* By coordinates, a key or a text; a double tap is two inputs.
Input ==
    /\ cmd.pc = "input" /\ Inject(Aimed)
    /\ IF cmd.verb = "double_tap" THEN Goto("second") /\ UNCHANGED obs ELSE Look("end")
    /\ UNCHANGED <<linkVars, phone, last, ghosts>>
Second ==
    /\ cmd.pc = "second" /\ Inject(Aimed) /\ Look("end")
    /\ UNCHANGED <<linkVars, phone, last, ghosts>>
\* _semantic_node: the companion drives the node itself, or refuses because the
\* tree has changed since it was observed.
SemanticInput ==
    /\ cmd.pc = "input" /\ cmd.verb \in Pointed /\ Aimed.native
    /\ \/ last.version # version /\ Finish("stale_snapshot") /\ UNCHANGED <<obs, taps, late>>
       \/ /\ last.version = version
          /\ taps' = Append(taps, Aimed) /\ late' = (IF stop THEN late + 1 ELSE late)
          /\ Look("end")
    /\ UNCHANGED <<linkVars, phone, last, ghosts>>

Shows == \E k \in DOMAIN last.els : last.els[k].text = Target

Exhausted == cmd.left = 0
\* Mutant: STOP is tested only when the loop begins.
HaltedAtEntry == stop /\ cmd.left = MaxScrolls
\* scroll_until re-reads the kill switch before every scroll.
Halted == stop
Halt ==
    /\ cmd.pc = "halt"
    /\ IF Exhausted THEN Look("end")
       ELSE IF Halted THEN Finish("stopped") /\ UNCHANGED obs ELSE Look("judge")
    /\ UNCHANGED <<linkVars, phone, last, ghosts, taps, late>>
\* The target is there, or the loop goes on: a scroll and its observation; a wait
\* until its deadline.
Judge ==
    /\ cmd.pc = "judge"
    /\ \/ Shows /\ Finish("ok") /\ UNCHANGED <<obs, taps, late>>
       \/ /\ ~Shows /\ cmd.verb = "scroll_until"
          /\ Inject(WholeScreen)
          /\ cmd' = [cmd EXCEPT !.pc = "tree", !.ret = "halt", !.left = @ - 1]
          /\ obs' = [tries |-> 0, dump |-> Nothing]
       \/ ~Shows /\ cmd.verb = "wait_for" /\ cmd.left = 0
          /\ Look("judge") /\ UNCHANGED <<taps, late>>
       \/ ~Shows /\ cmd.verb = "wait_for" /\ cmd.left = 1
          /\ Finish("not_found") /\ UNCHANGED <<obs, taps, late>>
    /\ UNCHANGED <<linkVars, phone, last, ghosts>>
\* wait_for's deadline passes (left counts it: 0 before, 1 after).  The command line's
\* own selector loop counts half a second per look instead: then too it ends.
Deadline ==
    /\ cmd.verb = "wait_for" /\ cmd.pc # "idle" /\ cmd.left = 0
    /\ cmd' = [cmd EXCEPT !.left = 1]
    /\ UNCHANGED <<linkVars, phone, last, obs, ghosts, taps, late>>
End ==
    /\ cmd.pc = "end" /\ Finish("ok")
    /\ UNCHANGED <<linkVars, phone, last, obs, ghosts, taps, late>>

\* The user and the apps.
Change ==
    /\ version < MaxChanges /\ version' = version + 1
    /\ \/ shown' \in Screens \ {shown} /\ UNCHANGED <<locked, calm>>
       \/ locked' = ~locked /\ calm' = [calm EXCEPT !.locked = FALSE] /\ UNCHANGED shown
    /\ UNCHANGED <<linkVars, stop, last, cmd, obs, commands, taps, late>>
Stop ==
    /\ ~stop /\ stop' = TRUE
    /\ UNCHANGED <<linkVars, shown, locked, version, last, cmd, obs, ghosts, taps, late>>
LinkMoves ==
    /\ Move /\ calm' = [calm EXCEPT !.linked = FALSE]
    /\ UNCHANGED <<phone, last, cmd, obs, commands, taps, late>>

CommandStep ==
    \/ Ensured \/ ReadTree \/ ReadWindow \/ Check \/ Compare \/ Resolve \/ Input \/ Second
    \/ SemanticInput \/ Halt \/ Judge \/ End
    \/ EnsureStep /\ UNCHANGED screenVars
Next ==
    \/ \E verb \in Verbs, i \in 1..3, pinned \in BOOLEAN, staleOk \in BOOLEAN, sight \in Sights :
            Begin(verb, i, pinned, staleOk, sight)
    \/ CommandStep \/ Deadline \/ Change \/ Stop \/ LinkMoves
    \/ CheckExpires /\ UNCHANGED screenVars
Spec == Init /\ [][Next]_vars /\ WF_vars(CommandStep) /\ WF_vars(Deadline)

-----------------------------------------------------------------------------
\* An input at an element, pinned to the screen its caller saw (expected_hash, not
\* stale_ok), goes to the text and the place the element had on that screen, never
\* across the whole screen, however often the screen changed and was observed in
\* between (_check_stale, Session.resolve, named_swipe).
PinnedInputHitsWhatWasSeen ==
    cmd.pinned /\ ~cmd.staleOk /\ cmd.verb # "key" =>
        \A n \in DOMAIN taps : /\ taps[n].text = cmd.sight[cmd.i].text
                               /\ taps[n].point = cmd.sight[cmd.i].point

\* A phone that is locked from the beginning to the end of a command, on a link
\* that holds, gets no input, and the command says that it is locked (observe).
LockedPhoneIsLeftAlone ==
    cmd.verb # "none" /\ calm.locked /\ calm.linked =>
        taps = <<>> /\ cmd.result \in {"none", "device_locked"}

\* A loop of scrolls sends at most one input once STOP is engaged (halt).
OneScrollAfterStop == cmd.verb = "scroll_until" => late <= 1

\* Every command ends: attempts, scrolls and waits are bounded, whatever the link,
\* the screen and the lock do.
CommandsEnd == (cmd.pc # "idle") ~> (cmd.pc = "idle")
=============================================================================
