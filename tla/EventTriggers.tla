--------------------------- MODULE EventTriggers ---------------------------
(***************************************************************************)
(* What starts a macro by itself: the companion's ring of UI events and    *)
(* the notifications of the phone, EventPoller that copies them to the     *)
(* EventBus, TriggerManager and its limits, and the Scheduler.  All of it  *)
(* runs inside the handler of events_poll, on the server's thread; the     *)
(* worker publishes on the bus beside it, other processes enable and       *)
(* disable macros, the companion and the daemon may restart.               *)
(*                                                                         *)
(* Engine.run is one step here, which returns or raises: MacroEngine has   *)
(* its inside.                                                             *)
(***************************************************************************)
EXTENDS Naturals, Sequences, FiniteSets, SequencesExt

CONSTANTS Macros,        \* enabled documents: [trigger, cooldown, per_hour, every]
          Notes,         \* keys of notifications
          Hour,          \* 3600 seconds, in ticks
          MaxBatch,      \* the 100 events of a poll of the bus, the 50 of the ring
          Capacity,      \* of the ring
          MaxActions,    \* bound: events the worker publishes
          MaxUi,         \* bound: UI events
          MaxUpsets,     \* bound: restarts, macros toggled, notifications removed
          MaxNow         \* bound: the clock

ASSUME TriggerAssumption ==
  /\ IsFiniteSet(Macros) /\ IsFiniteSet(Notes)
  /\ \A m \in Macros : m.cooldown \in Nat /\ m.per_hour \in Nat /\ m.every \in Nat
  /\ Hour \in Nat \ {0} /\ MaxBatch \in Nat \ {0} /\ Capacity \in Nat \ {0}
  /\ MaxActions \in Nat /\ MaxUi \in Nat /\ MaxUpsets \in Nat /\ MaxNow \in Nat \ {0}

VARIABLES ring,          \* the companion: its ring, and the last number given
          active,        \* notifications that are shown
          bus,           \* EventBus: the list, as it was appended to
          taken,         \* EventBus: numbers given out
          held,          \* per thread, the event numbered and not yet appended
          poller,        \* EventPoller: _ui_cursor, _seen_keys
          cursor,        \* TriggerManager._cursor
          armed,         \* Scheduler._armed
          server,        \* the handler of events_poll: where it is, what it holds
          enabled,       \* files: the macros enabled
          history,       \* file: macro_runs_history.json, a set of [run, at]
          now,
          used,          \* how much of the bounds is used
          fires,         \* history: when each macro was fired
          examined,      \* history: how often the manager took each event
          noted          \* history: notifications the manager has taken

phone == <<ring, active>>
files == <<enabled, history>>
memory == <<bus, taken, held, poller, cursor, armed, server>>
past == <<fires, examined, noted>>
vars == <<ring, active, bus, taken, held, poller, cursor, armed, server,
          enabled, history, now, used, fires, examined, noted>>

-----------------------------------------------------------------------------
None == 0
NoEvent == [seq |-> 0, type |-> "none", key |-> "none"]
Idle == [at |-> "idle", todo |-> <<>>, mark |-> 0]

Scheduled(m) == m.every > 0

Init ==
  /\ ring = [events |-> <<>>, last |-> 0]
  /\ active = {}
  /\ bus = <<>> /\ taken = 0
  /\ held = [t \in {"server", "worker"} |-> NoEvent]
  /\ poller = [cursor |-> 0, seen |-> {}]
  /\ cursor = 0
  /\ armed = [m \in Macros |-> None]
  /\ server = Idle
  /\ enabled = Macros
  /\ history = [m \in Macros |-> {}]
  /\ now = 1
  /\ used = [actions |-> 0, ui |-> 0, upsets |-> 0]
  /\ fires = [m \in Macros |-> <<>>]
  /\ examined = [n \in {} |-> 0]
  /\ noted = {}

Use(what, max) == used[what] < max /\ used' = [used EXCEPT ![what] = @ + 1]

-----------------------------------------------------------------------------
(* EventBus                                                                *)

\* publish: the number, and in a step of its own the append.
Take(thread, type, key) ==
  /\ held[thread] = NoEvent
  /\ taken' = taken + 1
  /\ held' = [held EXCEPT ![thread] = [seq |-> taken + 1, type |-> type, key |-> key]]

AppendHeld(thread) ==
  /\ held[thread] # NoEvent
  /\ bus' = Append(bus, held[thread])
  /\ held' = [held EXCEPT ![thread] = NoEvent]

FirstOf(s, n) == SubSeq(s, 1, IF n < Len(s) THEN n ELSE Len(s))
LastSeq(s, otherwise) == IF s = <<>> THEN otherwise ELSE s[Len(s)].seq

\* The items of s at the places idx, in their order.
Place(idx, n) == CHOOSE i \in idx : Cardinality({j \in idx : j <= i}) = n
Picked(s, idx) == [n \in 1..Cardinality(idx) |-> s[Place(idx, n)]]

\* Mutant: the event at the cursor is handed out again.
NewerOrSame(s, since) == Picked(s, {i \in DOMAIN s : s[i].seq >= since})

Newer(s, since) == Picked(s, {i \in DOMAIN s : s[i].seq > since})

PollBus(since) == FirstOf(Newer(bus, since), MaxBatch)

CursorAfter(batch, since) == LastSeq(batch, since)

\* The worker publishes action_started and action_finished; no macro has
\* a trigger for them.
WorkerTakes ==
  /\ Use("actions", MaxActions)
  /\ Take("worker", "action", "none")
  /\ UNCHANGED <<phone, files, bus, poller, cursor, armed, server, now, past>>

WorkerAppends ==
  /\ AppendHeld("worker")
  /\ UNCHANGED <<phone, files, taken, poller, cursor, armed, server, now, used, past>>

-----------------------------------------------------------------------------
(* EventPoller.drain_once                                                  *)

Goto(at, todo, mark) ==
  server' = [server EXCEPT !.at = at, !.todo = todo, !.mark = mark]

\* EventRing.query: the last ones for a cursor of zero, the next ones else.
Query(since) ==
  IF since = 0
    THEN LET n == Len(ring.events)
         IN  SubSeq(ring.events, IF n > MaxBatch THEN n - MaxBatch + 1 ELSE 1, n)
    ELSE FirstOf(Newer(ring.events, since), MaxBatch)

\* A source of UI events that raises ends events_poll before anything has changed:
\* a stuttering step.
PollStarts ==
  /\ server.at = "idle"
  /\ \/ \E events \in {Query(poller.cursor)} :
          Goto("ui", events, LastSeq(events, poller.cursor))
     \/ Goto("ui", <<>>, poller.cursor)   \* no provider of UI events
  /\ UNCHANGED <<phone, files, bus, taken, held, poller, cursor, armed, now, used, past>>

PublishNext ==
  /\ server.at \in {"ui", "notes"} /\ server.todo # <<>>
  /\ Take("server", Head(server.todo).type, Head(server.todo).key)
  /\ server' = [server EXCEPT !.todo = Tail(@)]
  /\ poller' = IF server.at = "notes"
                 THEN [poller EXCEPT !.seen = @ \cup {Head(server.todo).key}] ELSE poller
  /\ UNCHANGED <<phone, files, bus, cursor, armed, now, used, past>>

ServerAppends ==
  /\ AppendHeld("server")
  /\ UNCHANGED <<phone, files, taken, poller, cursor, armed, server, now, used, past>>

Published == server.todo = <<>> /\ held["server"] = NoEvent

\* Mutant: what is posted once the cursor has moved is taken for seen.
UnseenAtFirst == IF poller.cursor = 0 THEN active \ poller.seen ELSE {}

Unseen == active \ poller.seen

DrainNotes ==
  /\ server.at = "ui" /\ Published
  /\ poller' = [poller EXCEPT !.cursor = server.mark]
  /\ Goto("notes", [i \in 1..Cardinality(Unseen) |->
                      [seq |-> 0, type |-> "note", key |-> SetToSeq(Unseen)[i]]], 0)
  /\ UNCHANGED <<phone, files, bus, taken, held, cursor, armed, now, used, past>>

\* A provider that does not answer raises, and so does events_poll.
NotesFail ==
  /\ server.at = "ui" /\ Published
  /\ poller' = [poller EXCEPT !.cursor = server.mark]
  /\ server' = Idle
  /\ UNCHANGED <<phone, files, bus, taken, held, cursor, armed, now, used, past>>

-----------------------------------------------------------------------------
(* TriggerManager.step                                                     *)

Matches(m, e) == m.trigger = e.type

\* Event by event, each against the macros in the order of their files.
Pairs(batch, macros) ==
  LET order == SetToSeq(macros)
      k == Len(order)
      all == [i \in 1..(Len(batch) * k) |->
                [event |-> batch[((i - 1) \div k) + 1],
                 macro |-> order[((i - 1) % k) + 1]]]
  IN  Picked(all, {i \in DOMAIN all : Matches(all[i].macro, all[i].event)})

Triggered == {m \in enabled : ~Scheduled(m)}

Count(f, batch) ==
  [n \in DOMAIN f \cup {batch[i].seq : i \in 1..Len(batch)} |->
     (IF n \in DOMAIN f THEN f[n] ELSE 0)
     + Cardinality({i \in 1..Len(batch) : batch[i].seq = n})]

\* The cursor is moved before the macros are listed, and a document that
\* cannot be parsed raises there.
StepStarts ==
  /\ server.at = "notes" /\ Published
  /\ \E batch \in {PollBus(cursor)} :
         /\ cursor' = CursorAfter(batch, cursor)
         /\ \/ Goto("match", Pairs(batch, Triggered), 0)
            \/ server' = Idle
         /\ examined' = Count(examined, batch)
         /\ noted' = noted \cup {batch[i].key : i \in {j \in 1..Len(batch) :
                                                       batch[j].type = "note"}}
  /\ UNCHANGED <<phone, files, bus, taken, held, poller, armed, now, used, fires>>

\* The file has only the times; run, the number of the macro's run, keeps two of
\* one tick apart.
Recent(runs) == {r \in runs : now - r.at < Hour}
Latest(runs) == CHOOSE t \in {r.at : r \in runs} : \A r \in runs : r.at <= t

\* Mutant: off by one, the limit itself still passes.
AllowsOneMore(m) ==
  LET h == history[m]
  IN  /\ ~(m.cooldown > 0 /\ h # {} /\ now - Latest(h) < m.cooldown)
      /\ m.per_hour > 0 => Cardinality(Recent(h)) <= m.per_hour

\* A limit that is not in the document is a zero here.
Allows(m) ==
  LET h == history[m]
  IN  /\ ~(m.cooldown > 0 /\ h # {} /\ now - Latest(h) < m.cooldown)
      /\ m.per_hour > 0 => Cardinality(Recent(h)) < m.per_hour

\* A condition or a limit does not hold, or a condition raises.
Skip ==
  /\ server.at = "match" /\ server.todo # <<>>
  /\ \/ server' = [server EXCEPT !.todo = Tail(@)]
     \/ server' = Idle
  /\ UNCHANGED <<phone, files, bus, taken, held, poller, cursor, armed, now, used, past>>

\* The run is on record before it begins.
Fire ==
  /\ server.at = "match" /\ server.todo # <<>>
  /\ LET m == Head(server.todo).macro
     IN  /\ Allows(m)
         /\ history' = [history EXCEPT ![m] =
                          Recent(@) \cup {[run |-> Len(fires[m]) + 1, at |-> now]}]
         /\ server' = [server EXCEPT !.at = "run", !.todo = Tail(@)]
         /\ fires' = [fires EXCEPT ![m] = Append(@, now)]
  /\ UNCHANGED <<phone, enabled, bus, taken, held, poller, cursor, armed, now, used,
                 examined, noted>>

\* An exception is swallowed by events_poll: the rest of the batch and the
\* scheduler are passed over.
RunEnds ==
  /\ server.at = "run"
  /\ \/ server' = [server EXCEPT !.at = "match"]
     \/ server' = Idle
  /\ UNCHANGED <<phone, files, bus, taken, held, poller, cursor, armed, now, used, past>>

-----------------------------------------------------------------------------
(* Scheduler.due                                                           *)

DueStarts ==
  /\ server.at = "match" /\ server.todo = <<>>
  /\ Goto("due", SetToSeq({m \in enabled : Scheduled(m)}), now)
  /\ UNCHANGED <<phone, files, bus, taken, held, poller, cursor, armed, now, used, past>>

Armed(m) == [armed EXCEPT ![m] = server.mark + m.every]

\* Mutant: a macro that has run is not armed again.
RearmedNever(m) == armed

Rearmed(m) == Armed(m)

Arm ==
  /\ server.at = "due" /\ server.todo # <<>>
  /\ LET m == Head(server.todo)
     IN  /\ armed[m] = None \/ server.mark < armed[m]
         /\ armed' = IF armed[m] = None THEN Armed(m) ELSE armed
  /\ server' = [server EXCEPT !.todo = Tail(@)]
  /\ UNCHANGED <<phone, files, bus, taken, held, poller, cursor, now, used, past>>

\* Neither the conditions nor the limits of the document are looked at.
FireDue ==
  /\ server.at = "due" /\ server.todo # <<>>
  /\ LET m == Head(server.todo)
     IN  armed[m] # None /\ server.mark >= armed[m]
  /\ server' = [server EXCEPT !.at = "duerun"]
  /\ UNCHANGED <<phone, files, bus, taken, held, poller, cursor, armed, now, used, past>>

\* Only a run that returns is armed again: one that raises is due at once.
DueRunEnds ==
  /\ server.at = "duerun"
  /\ LET m == Head(server.todo)
     IN  \/ /\ armed' = Rearmed(m)
            /\ server' = [server EXCEPT !.at = "due", !.todo = Tail(@)]
            /\ fires' = [fires EXCEPT ![m] = Append(@, server.mark)]
         \/ /\ server' = Idle
            /\ UNCHANGED <<armed, fires>>
  /\ UNCHANGED <<phone, files, bus, taken, held, poller, cursor, now, used, examined, noted>>

Answer ==
  /\ server.at = "due" /\ server.todo = <<>>
  /\ server' = Idle
  /\ UNCHANGED <<phone, files, bus, taken, held, poller, cursor, armed, now, used, past>>

-----------------------------------------------------------------------------
(* Everything around the daemon.                                           *)

Overfull(events) == Len(events) > Capacity

UiEvent ==
  /\ Use("ui", MaxUi)
  /\ LET more == Append(ring.events, [seq |-> ring.last + 1, type |-> "ui", key |-> "none"])
     IN  ring' = [events |-> IF Overfull(more) THEN Tail(more) ELSE more,
                  last |-> ring.last + 1]
  /\ UNCHANGED <<active, files, memory, now, past>>

NotePosted ==
  /\ \E k \in Notes \ active : active' = active \cup {k}
  /\ UNCHANGED <<ring, files, memory, now, used, past>>

NoteRemoved ==
  /\ Use("upsets", MaxUpsets)
  /\ \E k \in active : active' = active \ {k}
  /\ UNCHANGED <<ring, files, memory, now, past>>

\* macro enable and macro disable run in the process of the command.
Toggle ==
  /\ Use("upsets", MaxUpsets)
  /\ \E m \in Macros : enabled' = IF m \in enabled THEN enabled \ {m} ELSE enabled \cup {m}
  /\ UNCHANGED <<phone, history, memory, now, past>>

Tick ==
  /\ now < MaxNow
  /\ now' = now + 1
  /\ UNCHANGED <<phone, files, memory, used, past>>

\* The ring begins again at one; the daemon's cursor stays.
CompanionRestarts ==
  /\ Use("upsets", MaxUpsets)
  /\ ring' = [events |-> <<>>, last |-> 0]
  /\ UNCHANGED <<active, files, memory, now, past>>

DaemonRestarts ==
  /\ Use("upsets", MaxUpsets)
  /\ bus' = <<>> /\ taken' = 0
  /\ held' = [t \in {"server", "worker"} |-> NoEvent]
  /\ poller' = [cursor |-> 0, seen |-> {}]
  /\ cursor' = 0
  /\ armed' = [m \in Macros |-> None]
  /\ server' = Idle
  /\ examined' = [n \in {} |-> 0] /\ noted' = {}
  /\ UNCHANGED <<phone, files, now, fires>>

Handler ==
  \/ PublishNext \/ ServerAppends \/ DrainNotes \/ NotesFail \/ StepStarts
  \/ Skip \/ Fire \/ RunEnds \/ DueStarts \/ Arm \/ FireDue \/ DueRunEnds \/ Answer

Next ==
  \/ PollStarts \/ Handler \/ WorkerTakes \/ WorkerAppends
  \/ UiEvent \/ NotePosted \/ NoteRemoved \/ Toggle \/ Tick
  \/ CompanionRestarts \/ DaemonRestarts

\* A client polls again and again (phone_events, droidjig events), the
\* server's thread runs, and a provider that keeps being asked answers (that of
\* UI events, too: a poll that fails there is no step of PollStarts).
Spec ==
  /\ Init /\ [][Next]_vars
  /\ WF_vars(PollStarts \/ Handler) /\ SF_vars(DrainNotes)

-----------------------------------------------------------------------------
\* Types: numbers on the bus are given out once, what the server holds fits
\* where it is, and a cursor never passes the numbers given out.
TypeOK ==
  /\ active \subseteq Notes /\ poller.seen \subseteq Notes /\ enabled \subseteq Macros
  /\ \A i, j \in 1..Len(bus) : i # j => bus[i].seq # bus[j].seq
  /\ \A i \in 1..Len(bus) : bus[i].seq \in 1..taken
  /\ Len(ring.events) <= Capacity
  /\ cursor \in 0..taken
  /\ server.at \in {"idle", "ui", "notes", "match", "run", "due", "duerun"}
  /\ \A m \in Macros : armed[m] \in 0..(MaxNow + m.every)

\* However the daemon restarts and runs raise, two event-fired runs of a macro
\* are a cooldown apart, and no hour has more of them than per_hour.
LimitsHold ==
  \A m \in {n \in Macros : ~Scheduled(n)} : \A i \in 1..Len(fires[m]) :
    /\ \A j \in (i + 1)..Len(fires[m]) : fires[m][j] - fires[m][i] >= m.cooldown
    /\ m.per_hour > 0 =>
         Cardinality({j \in i..Len(fires[m]) : fires[m][j] - fires[m][i] < Hour})
           <= m.per_hour

Behind(i, j) == i < j /\ bus[j].seq < bus[i].seq

\* An event a macro may have a trigger for is passed by the cursor without
\* having been in a batch only if the worker appended out of order around it:
\* not because a batch was full, nor because of what raised before.
SkippedOnlyIfReordered ==
  \A j \in 1..Len(bus) :
    bus[j].type # "action" /\ bus[j].seq <= cursor =>
      bus[j].seq \in DOMAIN examined \/ \E i \in 1..Len(bus) : Behind(i, j)

\* An event is taken a second time, and its macros fired again, only when an
\* event with a lower number was appended after it; never a third time.
RepeatsOnlyReordered ==
  \A n \in DOMAIN examined :
    /\ examined[n] <= 2
    /\ examined[n] = 2 =>
         \E i, j \in 1..Len(bus) : bus[i].seq = n /\ Behind(i, j)

\* The runs of a scheduled macro that return are an interval apart, counted
\* from the poll that starts them, through disabling and restarts; nothing is
\* made up for when polls were late.
ScheduleKeepsInterval ==
  \A m \in {n \in Macros : Scheduled(n)} : \A i \in 1..(Len(fires[m]) - 1) :
    fires[m][i + 1] - fires[m][i] >= m.every

\* The manager takes every event once and none is passed over, but for those
\* that two threads appended out of order.
EventsTakenOnce == SkippedOnlyIfReordered /\ RepeatsOnlyReordered

\* While clients poll, a notification that stays is taken by the manager, in
\* this or an earlier showing, unless its event is behind a higher number; a
\* restart of the daemon begins anew.
NotesReachTheManager ==
  \A k \in Notes : k \in active ~>
    \/ k \in noted \/ k \notin active
    \/ \E i, j \in 1..Len(bus) : bus[j].key = k /\ Behind(i, j)
=============================================================================
