------------------------ MODULE EventTriggersProofs ------------------------
(***************************************************************************)
(* Theorems about EventTriggers, for all macros, limits, batches, rings and *)
(* lengths of time: the limits and the intervals of macros hold whatever      *)
(* restarts and raises, and the manager takes every event once but for those   *)
(* two threads appended out of order.                                       *)
(***************************************************************************)
EXTENDS EventTriggers, FiniteSetTheorems, TLAPS

Event == [seq : Nat, type : {"action", "ui", "note"}, key : Notes \cup {"none"}]
Shown == [seq : Nat, type : {"note"}, key : Notes]
Threads == {"server", "worker"}
Timed == {m \in Macros : Scheduled(m)}
Driven == {m \in Macros : ~Scheduled(m)}

\* What the handler holds fits the place where it is.
ServerType ==
    /\ server = [at |-> server.at, todo |-> server.todo, mark |-> server.mark]
    /\ server.at \in {"idle", "ui", "notes", "match", "run", "due", "duerun"}
    /\ server.mark \in Nat
    /\ server.at = "idle" => server.todo = <<>>
    /\ server.at = "ui" => server.todo \in Seq(Event)
    /\ server.at = "notes" => server.todo \in Seq(Shown)
    /\ server.at \in {"match", "run"} => server.todo \in Seq([event : Event, macro : Driven])
    /\ server.at \in {"due", "duerun"} => server.todo \in Seq(Timed)
    /\ server.at = "duerun" => server.todo # <<>>

Types ==
    /\ ring \in [events : Seq(Event), last : Nat] /\ active \subseteq Notes
    /\ Len(ring.events) <= Capacity
    /\ bus \in Seq(Event) /\ taken \in Nat /\ held \in [Threads -> Event \cup {NoEvent}]
    /\ poller \in [cursor : Nat, seen : SUBSET Notes] /\ cursor \in Nat
    /\ armed \in [Macros -> Nat] /\ enabled \subseteq Macros /\ now \in 1..MaxNow
    /\ fires \in [Macros -> Seq(Nat)]
    /\ history \in [Macros -> SUBSET [run : Nat, at : Nat]]
    /\ ServerType

\* The file of an event-driven macro holds the last run and all of the last hour, and
\* nothing that was not one.
Entry(f, i) == [run |-> i, at |-> f[i]]
Recorded(h, f, t) ==
    /\ h \subseteq {Entry(f, i) : i \in 1..Len(f)}
    /\ \A i \in 1..Len(f) :
        /\ f[i] <= t
        /\ \A j \in i..Len(f) : f[i] <= f[j]
        /\ i = Len(f) \/ t - f[i] < Hour => Entry(f, i) \in h
LimitsInv == \A m \in Driven : Recorded(history[m], fires[m], now)

\* A scheduled macro is armed at least an interval behind its last run.
ArmedInv ==
    /\ server.at \in {"due", "duerun"} => server.mark <= now
    /\ server.at = "duerun" => armed[Head(server.todo)] \in 1..server.mark
    /\ \A m \in Timed : \A i \in 1..Len(fires[m]) :
        /\ fires[m][i] <= now
        /\ server.at \in {"due", "duerun"} => fires[m][i] <= server.mark
        /\ armed[m] # None => fires[m][i] + m.every <= armed[m]

\* The numbers on the bus and with the threads are different; of those lower than
\* one on the bus, at most one was or may still be appended behind it.
Lower(n, i) == n > i /\ bus[n].seq < bus[i].seq
BusInv ==
    /\ \A i \in 1..Len(bus) : bus[i].seq \in 1..taken
    /\ \A t \in Threads : held[t] = NoEvent \/ held[t].seq \in 1..taken
    /\ \A i, j \in 1..Len(bus) : bus[i].seq = bus[j].seq => i = j
    /\ \A i \in 1..Len(bus), t \in Threads : bus[i].seq # held[t].seq
    /\ held["server"].seq # held["worker"].seq \/ held["server"] = NoEvent
    /\ \A i, j, k \in 1..Len(bus) : Lower(j, i) /\ Lower(k, i) => j = k
    /\ \A i, j \in 1..Len(bus), t \in Threads :
        Lower(j, i) => held[t] = NoEvent \/ held[t].seq > bus[i].seq
    /\ \A i \in 1..Len(bus) : \E t \in Threads : held[t] = NoEvent \/ held[t].seq > bus[i].seq

\* The cursor is the number of an event; what was taken and lies above it is behind
\* a lower event that the cursor has reached.
CursorInv ==
    /\ cursor = 0 \/ \E i \in 1..Len(bus) : bus[i].seq = cursor
    /\ \A n \in DOMAIN examined : examined[n] \in {1, 2} /\ \E i \in 1..Len(bus) : bus[i].seq = n
    /\ \A i \in 1..Len(bus) : bus[i].seq \in DOMAIN examined /\ bus[i].seq > cursor =>
        examined[bus[i].seq] = 1 /\ \E j \in 1..Len(bus) : Lower(j, i) /\ bus[j].seq <= cursor
    /\ \A i \in 1..Len(bus) : bus[i].seq \in DOMAIN examined /\ examined[bus[i].seq] = 2 =>
        \E j \in 1..Len(bus) : Lower(j, i)
    /\ \A j \in 1..Len(bus) : bus[j].seq <= cursor =>
        bus[j].seq \in DOMAIN examined \/ \E i \in 1..Len(bus) : Behind(i, j)

-----------------------------------------------------------------------------
(* Filtered sequences.                                                     *)

Rank(idx, i) == Cardinality({j \in idx : j <= i})

LEMMA RankType ==
    ASSUME NEW idx \in SUBSET Nat, IsFiniteSet(idx), NEW i \in idx
    PROVE  Rank(idx, i) \in 1..Cardinality(idx) /\ IsFiniteSet({j \in idx : j <= i})
<1> DEFINE below == {j \in idx : j <= i}
<1>1. below \in SUBSET idx /\ i \in below OBVIOUS
<1>2. IsFiniteSet(below) /\ Cardinality(below) <= Cardinality(idx) BY <1>1, FS_Subset
<1>3. Cardinality(below) \in Nat /\ Cardinality(idx) \in Nat BY <1>2, FS_CardinalityType
<1>4. Cardinality(below) # 0 BY <1>1, <1>2, FS_EmptySet
<1>5. QED BY <1>2, <1>3, <1>4 DEF Rank

LEMMA RankGrows ==
    ASSUME NEW idx \in SUBSET Nat, IsFiniteSet(idx), NEW i \in idx, NEW k \in idx, i < k
    PROVE  Rank(idx, i) < Rank(idx, k)
<1> DEFINE low == {j \in idx : j <= i}
           high == {j \in idx : j <= k}
<1>1. IsFiniteSet(high) BY RankType
<1>2. low \in SUBSET high
  <2>1. ASSUME NEW j \in idx, j <= i PROVE j <= k
    <3>1. j \in Nat /\ i \in Nat /\ k \in Nat OBVIOUS
    <3>2. QED BY <3>1, <2>1
  <2>2. QED BY <2>1
<1>3. IsFiniteSet(low) /\ Cardinality(low) <= Cardinality(high) /\ (Cardinality(high) = Cardinality(low) => high = low)
  BY <1>1, <1>2, FS_Subset
<1>4. k \in high /\ k \notin low BY SMT
<1>5. Cardinality(low) \in Nat /\ Cardinality(high) \in Nat BY <1>1, <1>3, FS_CardinalityType
<1>6. high # low BY <1>4
<1>7. QED BY <1>3, <1>5, <1>6 DEF Rank

\* Place(idx, n) is the n-th smallest of idx.
LEMMA PlaceIs ==
    ASSUME NEW idx \in SUBSET Nat, IsFiniteSet(idx), NEW n \in 1..Cardinality(idx)
    PROVE  Place(idx, n) \in idx /\ Rank(idx, Place(idx, n)) = n
<1> DEFINE ranks == [i \in idx |-> Rank(idx, i)]
           size == Cardinality(idx)
<1>1. size \in Nat BY FS_CardinalityType
<1>2. ranks \in [idx -> 1..size] BY RankType
<1>3. \A i, k \in idx : ranks[i] = ranks[k] => i = k
  <2>1. ASSUME NEW i \in idx, NEW k \in idx, i < k PROVE ranks[i] # ranks[k]
    <3>1. Rank(idx, i) < Rank(idx, k) BY <2>1, RankGrows
    <3>2. Rank(idx, i) \in 1..size /\ Rank(idx, k) \in 1..size BY RankType
    <3>3. QED BY <3>1, <3>2
  <2>2. \A i, k \in idx : i = k \/ i < k \/ k < i OBVIOUS
  <2>3. QED BY <2>1, <2>2
<1>4. ranks \in Injection(idx, 1..size)
  BY <1>2, <1>3, Zenon DEF Injection, IsInjective
<1>5. IsFiniteSet(1..size) /\ Cardinality(1..size) = size BY <1>1, FS_Interval
<1>6. ranks \in Surjection(idx, 1..size) BY <1>4, <1>5, FS_Injection
<1>7. \E i \in idx : ranks[i] = n BY <1>6 DEF Surjection
<1>8. \E i \in idx : Cardinality({j \in idx : j <= i}) = n BY <1>7 DEF Rank
<1>9. QED BY <1>8, Zenon DEF Place, Rank

LEMMA PlacesGrow ==
    ASSUME NEW idx \in SUBSET Nat, IsFiniteSet(idx),
           NEW m \in 1..Cardinality(idx), NEW n \in 1..Cardinality(idx)
    PROVE  Place(idx, m) < Place(idx, n) <=> m < n
<1> DEFINE p == Place(idx, m)
           q == Place(idx, n)
<1>1. p \in idx /\ Rank(idx, p) = m /\ q \in idx /\ Rank(idx, q) = n BY PlaceIs
<1>2. p < q => m < n BY <1>1, RankGrows
<1>3. q < p => n < m BY <1>1, RankGrows
<1>4. p \in Nat /\ q \in Nat BY <1>1
<1>5. m \in Nat /\ n \in Nat OBVIOUS
<1>6. p = q => m = n BY <1>1
<1> HIDE DEF p, q
<1>7. p < q <=> m < n BY <1>2, <1>3, <1>4, <1>5, <1>6
<1>8. QED BY <1>7 DEF p, q

LEMMA EveryPlace ==
    ASSUME NEW idx \in SUBSET Nat, IsFiniteSet(idx), NEW i \in idx
    PROVE  \E n \in 1..Cardinality(idx) : Place(idx, n) = i
<1> DEFINE n == Rank(idx, i)
<1>1. n \in 1..Cardinality(idx) BY RankType
<1>2. Place(idx, n) \in idx /\ Rank(idx, Place(idx, n)) = n BY <1>1, PlaceIs
<1>3. ~(Place(idx, n) < i) /\ ~(i < Place(idx, n))
  <2>1. CASE Place(idx, n) < i
    <3>1. Rank(idx, Place(idx, n)) < Rank(idx, i) BY <1>2, <2>1, RankGrows
    <3>2. QED BY <1>1, <1>2, <3>1
  <2>2. CASE i < Place(idx, n)
    <3>1. Rank(idx, i) < Rank(idx, Place(idx, n)) BY <1>2, <2>2, RankGrows
    <3>2. QED BY <1>1, <1>2, <3>1
  <2>3. QED BY <2>1, <2>2
<1>4. Place(idx, n) \in Nat /\ i \in Nat BY <1>2
<1>5. Place(idx, n) = i BY <1>3, <1>4
<1>6. QED BY <1>1, <1>5

LEMMA PlacesFinite ==
    ASSUME NEW S, NEW s \in Seq(S), NEW idx \in SUBSET DOMAIN s
    PROVE  idx \in SUBSET Nat /\ IsFiniteSet(idx) /\ Cardinality(idx) \in Nat
<1>1. DOMAIN s = 1..Len(s) /\ Len(s) \in Nat OBVIOUS
<1>2. IsFiniteSet(1..Len(s)) BY <1>1, FS_Interval
<1>3. IsFiniteSet(idx) BY <1>1, <1>2, FS_Subset
<1>4. QED BY <1>1, <1>3, FS_CardinalityType

LEMMA PickedIs ==
    ASSUME NEW S, NEW s \in Seq(S), NEW idx \in SUBSET DOMAIN s
    PROVE  /\ Picked(s, idx) \in Seq(S) /\ Len(Picked(s, idx)) = Cardinality(idx)
           /\ \A n \in 1..Cardinality(idx) :
                Place(idx, n) \in idx /\ Picked(s, idx)[n] = s[Place(idx, n)]
<1>1. idx \in SUBSET Nat /\ IsFiniteSet(idx) /\ Cardinality(idx) \in Nat BY PlacesFinite
<1>2. \A n \in 1..Cardinality(idx) : Place(idx, n) \in idx BY <1>1, PlaceIs
<1>3. \A n \in 1..Cardinality(idx) : s[Place(idx, n)] \in S BY <1>2
<1>4. Picked(s, idx) \in Seq(S) /\ Len(Picked(s, idx)) = Cardinality(idx)
  BY <1>1, <1>3 DEF Picked
<1>5. QED BY <1>2, <1>4 DEF Picked

LEMMA FirstOfIs ==
    ASSUME NEW S, NEW s \in Seq(S), NEW n \in Nat
    PROVE  /\ FirstOf(s, n) \in Seq(S) /\ Len(FirstOf(s, n)) <= Len(s)
           /\ \A k \in 1..Len(FirstOf(s, n)) : FirstOf(s, n)[k] = s[k]
BY DEF FirstOf

LEMMA LastSeqType ==
    ASSUME NEW s \in Seq(Event), NEW otherwise \in Nat
    PROVE  LastSeq(s, otherwise) \in Nat
<1>1. CASE s = <<>> BY <1>1 DEF LastSeq
<1>2. CASE s # <<>>
  <2>1. s[Len(s)] \in Event BY <1>2
  <2>2. QED BY <1>2, <2>1 DEF LastSeq, Event
<1>3. QED BY <1>1, <1>2

LEMMA NewerType ==
    ASSUME NEW s \in Seq(Event), NEW since \in Nat
    PROVE  Newer(s, since) \in Seq(Event)
<1>1. {i \in DOMAIN s : s[i].seq > since} \in SUBSET DOMAIN s OBVIOUS
<1>2. QED BY <1>1, PickedIs DEF Newer

LEMMA SetToSeqType ==
    ASSUME NEW S, IsFiniteSet(S)
    PROVE  SetToSeq(S) \in Seq(S) /\ SetToSeq(S) \in [1..Cardinality(S) -> S] /\ Cardinality(S) \in Nat
<1> DEFINE k == Cardinality(S)
<1>1. k \in Nat /\ ExistsBijection(1..k, S) BY FS_CardinalityType
<1>2. \E f \in [1..k -> S] : IsInjective(f)
  BY <1>1 DEF ExistsBijection, Bijection, Injection
<1>3. SetToSeq(S) \in [1..k -> S] BY <1>2 DEF SetToSeq
<1>4. QED BY <1>1, <1>3

LEMMA PairsType ==
    ASSUME NEW batch \in Seq(Event), NEW macros \in SUBSET Macros
    PROVE  Pairs(batch, macros) \in Seq([event : Event, macro : macros])
<1> DEFINE order == SetToSeq(macros)
           k == Len(order)
           Pair == [event : Event, macro : macros]
           all == [i \in 1..(Len(batch) * k) |->
                     [event |-> batch[((i - 1) \div k) + 1], macro |-> order[((i - 1) % k) + 1]]]
           idx == {i \in DOMAIN all : Matches(all[i].macro, all[i].event)}
<1>1. IsFiniteSet(macros) BY TriggerAssumption, FS_Subset
<1>2. order \in Seq(macros) BY <1>1, SetToSeqType
<1>3. k \in Nat /\ Len(batch) \in Nat BY <1>2
<1>4. ASSUME NEW i \in 1..(Len(batch) * k)
      PROVE  [event |-> batch[((i - 1) \div k) + 1], macro |-> order[((i - 1) % k) + 1]] \in Pair
  <2>1. k > 0 /\ i \in Nat /\ i - 1 \in Nat
    <3>1. k = 0 => Len(batch) * k = 0 BY <1>3
    <3>2. k # 0 BY <1>3, <1>4, <3>1
    <3>3. QED BY <1>3, <3>2
  <2> DEFINE q == (i - 1) \div k
             r == (i - 1) % k
  <2>2. r \in 0..(k - 1) BY <1>3, <2>1
  <2>3. q \in 0..(Len(batch) - 1)
    <3>1. q \in Nat /\ i - 1 = k * q + r BY <1>3, <2>1
    <3>2. i - 1 < k * Len(batch) BY <1>3, <1>4
    <3> HIDE DEF q, r, k
    <3>3. \A b \in Nat : q >= b => k * q >= k * b BY <1>3, <2>1, <3>1
    <3>4. k * q \in Nat /\ k * Len(batch) \in Nat /\ r \in Nat BY <1>3, <2>1, <2>2, <3>1
    <3>5. ~(q >= Len(batch)) BY <1>3, <2>1, <3>1, <3>2, <3>3, <3>4
    <3>6. QED BY <1>3, <3>1, <3>5
  <2>4. batch[q + 1] \in Event BY <1>3, <2>3
  <2>5. order[r + 1] \in macros BY <1>2, <1>3, <2>2
  <2>6. QED BY <2>4, <2>5
<1>5. all \in Seq(Pair) BY <1>3, <1>4
<1>6. idx \in SUBSET DOMAIN all OBVIOUS
<1>7. Pairs(batch, macros) = Picked(all, idx) BY DEF Pairs
<1> HIDE DEF all, idx, Pair
<1>8. Picked(all, idx) \in Seq(Pair) BY <1>5, <1>6, PickedIs
<1>9. QED BY <1>7, <1>8 DEF Pair

-----------------------------------------------------------------------------
(* Types.                                                                  *)

\* The server's record, field by field.
ServerIs(at, todo, mark) == server' = [at |-> at, todo |-> todo, mark |-> mark]

LEMMA GotoIs ==
    ASSUME ServerType, NEW at, NEW todo, NEW mark, Goto(at, todo, mark)
    PROVE  ServerIs(at, todo, mark)
BY DEF ServerType, Goto, ServerIs

LEMMA AtTodoIs ==
    ASSUME ServerType, NEW at, NEW todo
    PROVE  /\ server' = [server EXCEPT !.at = at] => ServerIs(at, server.todo, server.mark)
           /\ server' = [server EXCEPT !.todo = todo] => ServerIs(server.at, todo, server.mark)
           /\ server' = [server EXCEPT !.at = at, !.todo = todo] => ServerIs(at, todo, server.mark)
           /\ server' = Idle => ServerIs("idle", <<>>, 0)
BY DEF ServerType, ServerIs, Idle

LEMMA TailType ==
    ASSUME NEW S, NEW s \in Seq(S), s # <<>>
    PROVE  Head(s) \in S /\ Tail(s) \in Seq(S)
OBVIOUS

LEMMA SeqWider ==
    ASSUME NEW S, NEW T, S \subseteq T, NEW s \in Seq(S)
    PROVE  s \in Seq(T)
<1>1. \A n \in 1..Len(s) : s[n] \in T OBVIOUS
<1>2. QED BY <1>1

LEMMA IdleTypes ==
    ASSUME Types, server' = Idle
    PROVE  ServerType'
BY DEF Types, ServerType, Idle

LEMMA QueryType ==
    ASSUME Types, NEW since \in Nat
    PROVE  Query(since) \in Seq(Event)
<1>1. ring.events \in Seq(Event) BY DEF Types
<1>2. CASE since = 0
  <2> DEFINE n == Len(ring.events)
             first == IF n > MaxBatch THEN n - MaxBatch + 1 ELSE 1
  <2>1. n \in Nat /\ MaxBatch \in Nat \ {0} BY <1>1, TriggerAssumption
  <2>2. first \in 1..(n + 1) BY <2>1
  <2>3. SubSeq(ring.events, first, n) \in Seq(Event) BY <1>1, <2>1, <2>2
  <2>4. QED BY <1>2, <2>3 DEF Query
<1>3. CASE since # 0
  <2>1. Newer(ring.events, since) \in Seq(Event) BY <1>1, NewerType
  <2>2. FirstOf(Newer(ring.events, since), MaxBatch) \in Seq(Event) BY <2>1, FirstOfIs, TriggerAssumption
  <2>3. QED BY <1>3, <2>2 DEF Query
<1>4. QED BY <1>2, <1>3

LEMMA BatchType ==
    ASSUME Types
    PROVE  PollBus(cursor) \in Seq(Event) /\ CursorAfter(PollBus(cursor), cursor) \in Nat
<1>1. Newer(bus, cursor) \in Seq(Event) BY NewerType DEF Types
<1>2. PollBus(cursor) \in Seq(Event) BY <1>1, FirstOfIs, TriggerAssumption DEF PollBus
<1>3. QED BY <1>2, LastSeqType DEF CursorAfter, Types

LEMMA TakeTypes ==
    ASSUME Types, NEW t \in Threads, NEW type \in {"action", "ui", "note"},
           NEW key \in Notes \cup {"none"}, Take(t, type, key)
    PROVE  taken' \in Nat /\ held' \in [Threads -> Event \cup {NoEvent}]
<1>1. [seq |-> taken + 1, type |-> type, key |-> key] \in Event BY DEF Types, Event
<1>2. QED BY <1>1 DEF Types, Take

LEMMA AppendTypes ==
    ASSUME Types, NEW t \in Threads, AppendHeld(t)
    PROVE  bus' \in Seq(Event) /\ held' \in [Threads -> Event \cup {NoEvent}]
<1>1. held[t] \in Event BY DEF Types, AppendHeld
<1>2. QED BY <1>1 DEF Types, AppendHeld

LEMMA PollTypes == ASSUME Types, PollStarts PROVE Types'
<1>1. ServerType /\ poller.cursor \in Nat BY DEF Types
<1>2. PICK todo \in Seq(Event), mark \in Nat : ServerIs("ui", todo, mark)
  <2>1. CASE \E events \in {Query(poller.cursor)} :
               Goto("ui", events, LastSeq(events, poller.cursor))
    BY <1>1, <2>1, QueryType, LastSeqType, GotoIs
  <2>2. CASE Goto("ui", <<>>, poller.cursor)
    <3>1. <<>> \in Seq(Event) OBVIOUS
    <3>2. QED BY <1>1, <2>2, <3>1, GotoIs
  <2>3. QED BY <2>1, <2>2 DEF PollStarts
<1>3. ServerType' BY <1>2 DEF ServerIs, ServerType
<1>4. QED BY <1>3 DEF PollStarts, Types, phone, files, past

LEMMA PublishTypes == ASSUME Types, PublishNext PROVE Types'
<1> DEFINE e == Head(server.todo)
<1>1. ServerType /\ server.todo # <<>> /\ server.at \in {"ui", "notes"}
  BY DEF Types, PublishNext
<1>2. e \in Event
  <2>1. CASE server.at = "ui"
    <3>1. server.todo \in Seq(Event) BY <1>1, <2>1 DEF ServerType
    <3>2. QED BY <1>1, <3>1, TailType
  <2>2. CASE server.at = "notes"
    <3>1. server.todo \in Seq(Shown) BY <1>1, <2>2 DEF ServerType
    <3>2. e \in Shown BY <1>1, <3>1, TailType
    <3>3. QED BY <3>2 DEF Shown, Event
  <2>3. QED BY <1>1, <2>1, <2>2
<1>3. ServerIs(server.at, Tail(server.todo), server.mark) BY <1>1, AtTodoIs DEF PublishNext
<1>4. ServerType'
  <2>1. server.at = "ui" => Tail(server.todo) \in Seq(Event) BY <1>1, TailType DEF ServerType
  <2>2. server.at = "notes" => Tail(server.todo) \in Seq(Shown) BY <1>1, TailType DEF ServerType
  <2>3. QED BY <1>1, <1>3, <2>1, <2>2 DEF ServerIs, ServerType
<1>5. taken' \in Nat /\ held' \in [Threads -> Event \cup {NoEvent}]
  <2>1. e.type \in {"action", "ui", "note"} /\ e.key \in Notes \cup {"none"} BY <1>2 DEF Event
  <2>2. Take("server", e.type, e.key) BY DEF PublishNext
  <2>3. QED BY <2>1, <2>2, TakeTypes DEF Threads
<1>6. poller' \in [cursor : Nat, seen : SUBSET Notes]
  <2>1. CASE server.at = "notes"
    <3>1. server.todo \in Seq(Shown) BY <1>1, <2>1 DEF ServerType
    <3>2. e \in Shown BY <1>1, <3>1, TailType
    <3>3. e.key \in Notes BY <3>2 DEF Shown
    <3>4. poller' = [poller EXCEPT !.seen = @ \cup {e.key}] BY <2>1 DEF PublishNext
    <3> HIDE DEF e
    <3>5. QED BY <3>3, <3>4 DEF Types
  <2>2. CASE server.at # "notes" BY <2>2 DEF PublishNext, Types
  <2>3. QED BY <2>1, <2>2
<1>7. QED BY <1>4, <1>5, <1>6 DEF PublishNext, Types, phone, files, past

LEMMA AppendsTypes == ASSUME Types, ServerAppends \/ WorkerAppends PROVE Types'
<1>1. CASE ServerAppends BY <1>1, AppendTypes DEF ServerAppends, Types, ServerType, phone, files, past, Threads
<1>2. CASE WorkerAppends BY <1>2, AppendTypes DEF WorkerAppends, Types, ServerType, phone, files, past, Threads
<1>3. QED BY <1>1, <1>2

LEMMA WorkerTypes == ASSUME Types, WorkerTakes PROVE Types'
<1>1. taken' \in Nat /\ held' \in [Threads -> Event \cup {NoEvent}]
  BY TakeTypes DEF WorkerTakes, Threads
<1>2. QED BY <1>1 DEF WorkerTakes, Types, ServerType, phone, files, past

LEMMA DrainTypes == ASSUME Types, DrainNotes \/ NotesFail PROVE Types'
<1>1. ServerType /\ poller \in [cursor : Nat, seen : SUBSET Notes] /\ active \subseteq Notes BY DEF Types
<1>2. poller' = [poller EXCEPT !.cursor = server.mark] BY DEF DrainNotes, NotesFail
<1>3. poller' \in [cursor : Nat, seen : SUBSET Notes] BY <1>1, <1>2 DEF ServerType
<1>4. ServerType'
  <2>1. CASE DrainNotes
    <3> DEFINE k == Cardinality(Unseen)
               todo == [i \in 1..k |-> [seq |-> 0, type |-> "note", key |-> SetToSeq(Unseen)[i]]]
    <3>1. Unseen \in SUBSET Notes BY <1>1 DEF Unseen
    <3>2. IsFiniteSet(Unseen) BY <3>1, TriggerAssumption, FS_Subset
    <3>3. SetToSeq(Unseen) \in [1..k -> Unseen] /\ k \in Nat BY <3>2, SetToSeqType
    <3>4. \A i \in 1..k : [seq |-> 0, type |-> "note", key |-> SetToSeq(Unseen)[i]] \in Shown
      BY <3>1, <3>3 DEF Shown
    <3>5. todo \in Seq(Shown) BY <3>3, <3>4
    <3>6. Goto("notes", todo, 0) BY <2>1 DEF DrainNotes
    <3> HIDE DEF todo
    <3>7. ServerIs("notes", todo, 0) BY <1>1, <3>6, GotoIs
    <3>8. QED BY <3>5, <3>7 DEF ServerIs, ServerType
  <2>2. CASE NotesFail BY <2>2, IdleTypes DEF NotesFail
  <2>3. QED BY <2>1, <2>2
<1>5. QED BY <1>3, <1>4 DEF DrainNotes, NotesFail, Types, phone, files, past

LEMMA StepStartsTypes == ASSUME Types, StepStarts PROVE Types'
<1> DEFINE batch == PollBus(cursor)
<1>1. ServerType /\ enabled \subseteq Macros BY DEF Types
<1>2. batch \in Seq(Event) /\ CursorAfter(batch, cursor) \in Nat BY BatchType
<1>3. cursor' = CursorAfter(batch, cursor) BY DEF StepStarts
<1>4. ServerType'
  <2>1. CASE Goto("match", Pairs(batch, Triggered), 0)
    <3>1. Triggered \in SUBSET Macros /\ Triggered \in SUBSET Driven BY <1>1 DEF Triggered, Driven
    <3>2. Pairs(batch, Triggered) \in Seq([event : Event, macro : Triggered])
      BY <1>2, <3>1, PairsType
    <3>3. [event : Event, macro : Triggered] \subseteq [event : Event, macro : Driven]
      BY <3>1
    <3> HIDE DEF batch
    <3>6. Pairs(batch, Triggered) \in Seq([event : Event, macro : Driven])
      BY <3>2, <3>3, SeqWider
    <3>4. ServerIs("match", Pairs(batch, Triggered), 0) BY <1>1, <2>1, GotoIs
    <3>5. QED BY <3>4, <3>6 DEF ServerIs, ServerType
  <2>2. CASE server' = Idle BY <2>2, IdleTypes
  <2>3. QED BY <2>1, <2>2 DEF StepStarts
<1>5. QED BY <1>2, <1>3, <1>4 DEF StepStarts, Types, phone, files

LEMMA MatchTypes == ASSUME Types, Skip \/ Fire \/ RunEnds PROVE Types'
<1> DEFINE Pair == [event : Event, macro : Driven]
<1>1. ServerType /\ server.at \in {"match", "run"} BY DEF Types, Skip, Fire, RunEnds
<1>2. server.todo \in Seq(Pair) BY <1>1 DEF ServerType
<1>3. server.todo # <<>> => Head(server.todo) \in Pair /\ Tail(server.todo) \in Seq(Pair)
  BY <1>2, TailType
<1>4. server.todo # <<>> => Head(server.todo).macro \in Driven BY <1>3
<1>5. Tail(server.todo) \in Seq(Pair) \/ ~(Skip \/ Fire) BY <1>3 DEF Skip, Fire
<1> HIDE DEF Pair
<1>6. \/ server' = Idle \/ \E todo \in Seq(Pair) : ServerIs("match", todo, server.mark)
      \/ \E todo \in Seq(Pair) : ServerIs("run", todo, server.mark)
  <2>1. CASE Skip
    <3>1. CASE server' = [server EXCEPT !.todo = Tail(@)]
      <4>1. ServerIs("match", Tail(server.todo), server.mark) BY <1>1, <2>1, <3>1, AtTodoIs DEF Skip
      <4>2. QED BY <1>5, <2>1, <4>1
    <3>2. QED BY <2>1, <3>1 DEF Skip
  <2>2. CASE Fire
    <3>1. server' = [server EXCEPT !.at = "run", !.todo = Tail(@)] BY <2>2 DEF Fire
    <3>2. ServerIs("run", Tail(server.todo), server.mark) BY <1>1, <3>1, AtTodoIs
    <3>3. QED BY <1>5, <2>2, <3>2
  <2>3. CASE RunEnds
    <3>1. CASE server' = [server EXCEPT !.at = "match"]
      <4>1. ServerIs("match", server.todo, server.mark) BY <1>1, <3>1, AtTodoIs
      <4>2. QED BY <1>2, <4>1 DEF Pair
    <3>2. QED BY <2>3, <3>1 DEF RunEnds
  <2>4. QED BY <2>1, <2>2, <2>3
<1>7. ServerType'
  <2>1. CASE server' = Idle BY <2>1, IdleTypes
  <2>2. CASE \E todo \in Seq(Pair) : ServerIs("match", todo, server.mark)
    BY <1>1, <2>2 DEF ServerIs, ServerType, Pair
  <2>3. CASE \E todo \in Seq(Pair) : ServerIs("run", todo, server.mark)
    BY <1>1, <2>3 DEF ServerIs, ServerType, Pair
  <2>4. QED BY <1>6, <2>1, <2>2, <2>3
<1>8. fires' \in [Macros -> Seq(Nat)]
  <2>1. CASE Fire
    <3>1. Head(server.todo).macro \in Macros BY <1>4, <2>1 DEF Fire, Driven
    <3>2. fires' = [fires EXCEPT ![Head(server.todo).macro] = Append(@, now)] BY <2>1 DEF Fire
    <3>3. fires \in [Macros -> Seq(Nat)] /\ now \in Nat BY DEF Types
    <3>4. Append(fires[Head(server.todo).macro], now) \in Seq(Nat) BY <3>1, <3>3
    <3>5. QED BY <3>2, <3>3, <3>4
  <2>2. CASE Skip \/ RunEnds BY <2>2 DEF Skip, RunEnds, past, Types
  <2>3. QED BY <2>1, <2>2
<1>9. history' \in [Macros -> SUBSET [run : Nat, at : Nat]]
  <2>1. CASE Fire
    <3> DEFINE m == Head(server.todo).macro
               new == [run |-> Len(fires[m]) + 1, at |-> now]
    <3>1. m \in Macros BY <1>4, <2>1 DEF Fire, Driven
    <3>2. history' = [history EXCEPT ![m] = Recent(@) \cup {new}] BY <2>1 DEF Fire
    <3>3. history \in [Macros -> SUBSET [run : Nat, at : Nat]] /\ fires \in [Macros -> Seq(Nat)]
          /\ now \in Nat
      BY DEF Types
    <3> HIDE DEF m
    <3>4. Len(fires[m]) + 1 \in Nat BY <3>1, <3>3
    <3>5. new \in [run : Nat, at : Nat] BY <3>3, <3>4
    <3>6. Recent(history[m]) \subseteq [run : Nat, at : Nat] BY <3>1, <3>3 DEF Recent
    <3> HIDE DEF new
    <3>7. QED BY <3>2, <3>3, <3>5, <3>6
  <2>2. CASE Skip \/ RunEnds BY <2>2 DEF Skip, RunEnds, files, Types
  <2>3. QED BY <2>1, <2>2
<1>10. QED BY <1>7, <1>8, <1>9 DEF Skip, Fire, RunEnds, Types, phone, files, past

LEMMA DueTypes == ASSUME Types, DueStarts \/ Arm \/ FireDue \/ DueRunEnds \/ Answer PROVE Types'
<1>1. ServerType /\ now \in Nat /\ armed \in [Macros -> Nat] /\ fires \in [Macros -> Seq(Nat)]
  BY DEF Types
<1>2. CASE DueStarts
  <2> DEFINE timed == {m \in enabled : Scheduled(m)}
  <2>1. timed \in SUBSET Macros /\ timed \subseteq Timed BY DEF Types, Timed
  <2>2. IsFiniteSet(timed) BY <2>1, TriggerAssumption, FS_Subset
  <2>3. SetToSeq(timed) \in Seq(timed) BY <2>2, SetToSeqType
  <2>4. SetToSeq(timed) \in Seq(Timed) BY <2>1, <2>3, SeqWider
  <2>5. Goto("due", SetToSeq(timed), now) BY <1>2 DEF DueStarts
  <2> HIDE DEF timed
  <2>6. ServerIs("due", SetToSeq(timed), now) BY <1>1, <2>5, GotoIs
  <2>7. ServerType' BY <1>1, <2>4, <2>6 DEF ServerIs, ServerType
  <2>8. QED BY <1>2, <2>7 DEF DueStarts, Types, phone, files, past
<1>3. CASE Answer BY <1>3, IdleTypes DEF Answer, Types, phone, files, past
<1>4. CASE Arm \/ FireDue \/ DueRunEnds
  <2> DEFINE m == Head(server.todo)
  <2>1. server.todo \in Seq(Timed) /\ server.todo # <<>>
    BY <1>1, <1>4 DEF Arm, FireDue, DueRunEnds, ServerType
  <2>2. m \in Timed /\ Tail(server.todo) \in Seq(Timed) BY <2>1, TailType
  <2>3. m \in Macros /\ m.every \in Nat /\ server.mark \in Nat
    BY <1>1, <2>2, TriggerAssumption DEF Timed, ServerType
  <2>4. server.mark + m.every \in Nat BY <2>3
  <2> HIDE DEF m
  <2>5. Armed(m) \in [Macros -> Nat] BY <1>1, <2>3, <2>4 DEF Armed
  <2>6. armed' \in [Macros -> Nat]
    BY <1>1, <1>4, <2>5 DEF Arm, FireDue, DueRunEnds, Rearmed, m
  <2>7. fires' \in [Macros -> Seq(Nat)]
    <3>1. CASE DueRunEnds /\ fires' = [fires EXCEPT ![m] = Append(@, server.mark)]
      <4>1. Append(fires[m], server.mark) \in Seq(Nat) BY <1>1, <2>3
      <4>2. QED BY <1>1, <3>1, <4>1
    <3>2. CASE UNCHANGED fires BY <1>1, <3>2
    <3>3. QED BY <1>4, <3>1, <3>2 DEF Arm, FireDue, DueRunEnds, past, m
  <2>8. ServerType'
    <3>1. CASE Arm
      <4>1. ServerIs("due", Tail(server.todo), server.mark) BY <1>1, <3>1, AtTodoIs DEF Arm
      <4>2. QED BY <1>1, <2>2, <4>1 DEF ServerIs, ServerType
    <3>2. CASE FireDue
      <4>1. ServerIs("duerun", server.todo, server.mark) BY <1>1, <3>2, AtTodoIs DEF FireDue
      <4>2. QED BY <1>1, <2>1, <4>1 DEF ServerIs, ServerType
    <3>3. CASE DueRunEnds /\ server' = [server EXCEPT !.at = "due", !.todo = Tail(@)]
      <4>1. ServerIs("due", Tail(server.todo), server.mark) BY <1>1, <3>3, AtTodoIs
      <4>2. QED BY <1>1, <2>2, <4>1 DEF ServerIs, ServerType
    <3>4. CASE server' = Idle BY <3>4, IdleTypes
    <3>5. QED BY <1>4, <3>1, <3>2, <3>3, <3>4 DEF DueRunEnds
  <2>9. QED BY <1>4, <2>6, <2>7, <2>8 DEF Arm, FireDue, DueRunEnds, Types, phone, files, past
<1>5. QED BY <1>2, <1>3, <1>4

LEMMA PhoneTypes == ASSUME Types, UiEvent \/ NotePosted \/ NoteRemoved \/ CompanionRestarts PROVE Types'
<1>1. ring \in [events : Seq(Event), last : Nat] /\ Len(ring.events) <= Capacity /\ active \subseteq Notes
  BY DEF Types
<1>2. ring.events \in Seq(Event) /\ ring.last \in Nat BY <1>1
<1>3. ring' \in [events : Seq(Event), last : Nat] /\ Len(ring'.events) <= Capacity
  <2>1. CASE UiEvent
    <3> DEFINE e == [seq |-> ring.last + 1, type |-> "ui", key |-> "none"]
               more == Append(ring.events, e)
               kept == IF Overfull(more) THEN Tail(more) ELSE more
    <3>1. e \in Event BY <1>2 DEF Event
    <3>2. more \in Seq(Event) /\ Len(more) = Len(ring.events) + 1 /\ more # <<>> BY <1>2, <3>1
    <3>3. Tail(more) \in Seq(Event) /\ Len(Tail(more)) = Len(more) - 1 BY <3>2
    <3>4. ring' = [events |-> kept, last |-> ring.last + 1] BY <2>1 DEF UiEvent
    <3> HIDE DEF more
    <3>5. Len(ring.events) \in Nat /\ Len(more) \in Nat /\ Capacity \in Nat
      BY <1>2, <3>2, TriggerAssumption
    <3>6. kept \in Seq(Event) BY <3>2, <3>3
    <3>7. Len(kept) <= Capacity BY <1>1, <3>2, <3>3, <3>5 DEF Overfull
    <3> HIDE DEF kept
    <3>8. QED BY <1>2, <3>4, <3>6, <3>7
  <2>2. CASE CompanionRestarts
    <3>1. <<>> \in Seq(Event) /\ Len(<<>>) = 0 OBVIOUS
    <3>2. QED BY <2>2, <3>1, TriggerAssumption DEF CompanionRestarts
  <2>3. CASE NotePosted \/ NoteRemoved BY <1>1, <2>3 DEF NotePosted, NoteRemoved
  <2>4. QED BY <2>1, <2>2, <2>3
<1>4. active' \subseteq Notes BY <1>1 DEF UiEvent, NotePosted, NoteRemoved, CompanionRestarts
<1>5. UNCHANGED <<files, memory, now, past>>
  BY DEF UiEvent, NotePosted, NoteRemoved, CompanionRestarts
<1>6. QED BY <1>3, <1>4, <1>5 DEF Types, ServerType, files, memory, past

LEMMA RestartTypes == ASSUME Types, Toggle \/ Tick \/ DaemonRestarts PROVE Types'
<1>1. CASE Toggle BY <1>1 DEF Toggle, Types, ServerType, phone, memory, past
<1>2. CASE Tick
  <2>1. now' \in 1..MaxNow BY <1>2, TriggerAssumption DEF Tick, Types
  <2>2. QED BY <1>2, <2>1 DEF Tick, Types, ServerType, phone, files, memory, past
<1>3. CASE DaemonRestarts
  <2>1. <<>> \in Seq(Event) OBVIOUS
  <2>2. held' \in [Threads -> Event \cup {NoEvent}] /\ armed' \in [Macros -> Nat]
    BY <1>3 DEF DaemonRestarts, Threads, None
  <2>3. poller' \in [cursor : Nat, seen : SUBSET Notes] BY <1>3 DEF DaemonRestarts
  <2>4. ServerType' BY <1>3, IdleTypes DEF DaemonRestarts
  <2>5. QED BY <1>3, <2>1, <2>2, <2>3, <2>4 DEF DaemonRestarts, Types, phone, files
<1>4. QED BY <1>1, <1>2, <1>3

LEMMA InitTypes == Init => Types
<1> SUFFICES ASSUME Init PROVE Types OBVIOUS
<1>1. <<>> \in Seq(Event) /\ <<>> \in Seq(Nat) /\ Len(<<>>) = 0 OBVIOUS
<1>2. held \in [Threads -> Event \cup {NoEvent}] /\ armed \in [Macros -> Nat]
      /\ fires \in [Macros -> Seq(Nat)] /\ history \in [Macros -> SUBSET [run : Nat, at : Nat]]
  BY <1>1 DEF Init, Threads, None
<1>3. poller \in [cursor : Nat, seen : SUBSET Notes] /\ ring \in [events : Seq(Event), last : Nat]
  BY <1>1 DEF Init
<1>4. ServerType BY DEF Init, ServerType, Idle
<1>5. Len(ring.events) <= Capacity BY <1>1, TriggerAssumption DEF Init
<1>6. QED BY <1>1, <1>2, <1>3, <1>4, <1>5, TriggerAssumption DEF Init, Types

LEMMA StepTypes == Types /\ [Next]_vars => Types'
<1> SUFFICES ASSUME Types, [Next]_vars PROVE Types' OBVIOUS
<1>1. CASE UNCHANGED vars BY <1>1 DEF vars, Types, ServerType
<1>2. CASE Next
  BY <1>2, PollTypes, PublishTypes, AppendsTypes, WorkerTypes, DrainTypes, StepStartsTypes,
     MatchTypes, DueTypes, PhoneTypes, RestartTypes DEF Next, Handler
<1>3. QED BY <1>1, <1>2

THEOREM TriggerTypes == Spec => []Types
<1>1. QED BY InitTypes, StepTypes, PTL DEF Spec

-----------------------------------------------------------------------------
(* The limits.                                                             *)

\* LimitsHold for one macro, as of its runs f.
Within(m, f) ==
    \A i \in 1..Len(f) :
        /\ \A j \in (i + 1)..Len(f) : f[j] - f[i] >= m.cooldown
        /\ m.per_hour > 0 =>
             Cardinality({j \in i..Len(f) : f[j] - f[i] < Hour}) <= m.per_hour

LEMMA LimitsAreWithin == LimitsHold <=> \A m \in Driven : Within(m, fires[m])
BY DEF LimitsHold, Within, Driven

LEMMA MacroType == ASSUME NEW m \in Macros PROVE m.cooldown \in Nat /\ m.per_hour \in Nat /\ m.every \in Nat
BY TriggerAssumption

\* The entries are finitely many, and as many as the runs they stand for.
LEMMA EntriesFinite ==
    ASSUME Types, NEW m \in Macros, NEW h \in SUBSET {Entry(fires[m], i) : i \in 1..Len(fires[m])}
    PROVE  IsFiniteSet(h)
<1> DEFINE n == Len(fires[m])
           all == {Entry(fires[m], i) : i \in 1..n}
           f == [i \in 1..n |-> Entry(fires[m], i)]
<1>1. fires[m] \in Seq(Nat) BY DEF Types
<1>2. n \in Nat BY <1>1
<1>3. IsFiniteSet(1..n) BY <1>2, FS_Interval
<1>4. f \in [1..n -> all] /\ \A e \in all : \E i \in 1..n : f[i] = e OBVIOUS
<1>5. f \in Surjection(1..n, all) BY <1>4 DEF Surjection
<1>6. IsFiniteSet(all) BY <1>3, <1>5, FS_Surjection
<1>7. QED BY <1>6, FS_Subset

LEMMA RunsCounted ==
    ASSUME Types, NEW m \in Macros, NEW h, IsFiniteSet(h),
           NEW runs \in SUBSET (1..Len(fires[m])), \A i \in runs : Entry(fires[m], i) \in h
    PROVE  IsFiniteSet(runs) /\ Cardinality(runs) <= Cardinality(h)
<1> DEFINE f == [i \in runs |-> Entry(fires[m], i)]
<1>1. f \in [runs -> h] OBVIOUS
<1>2. \A i, j \in runs : f[i] = f[j] => i = j
  <2> SUFFICES ASSUME NEW i \in runs, NEW j \in runs, f[i] = f[j] PROVE i = j OBVIOUS
  <2>1. Entry(fires[m], i).run = Entry(fires[m], j).run OBVIOUS
  <2>2. QED BY <2>1 DEF Entry
<1>3. f \in Injection(runs, h) BY <1>1, <1>2, Zenon DEF Injection, IsInjective
<1>4. QED BY <1>3, FS_Injection

\* The last run is on record, and so is the time of the latest.
LEMMA LatestIs ==
    ASSUME Types, NEW m \in Driven, Recorded(history[m], fires[m], now), NEW i \in 1..Len(fires[m])
    PROVE  history[m] # {} /\ Latest(history[m]) \in Nat /\ fires[m][i] <= Latest(history[m])
<1> DEFINE f == fires[m]
           n == Len(f)
           h == history[m]
           times == {r.at : r \in h}
<1>1. f \in Seq(Nat) BY DEF Types, Driven
<1>2. n \in Nat /\ n \in 1..n BY <1>1
<1>3. Entry(fires[m], n) \in h BY <1>2 DEF Recorded
<1>4. \A r \in h : \E j \in 1..n : r = Entry(fires[m], j) BY DEF Recorded
<1>5. \A r \in h : r.at \in Nat /\ r.at <= f[n]
  <2> SUFFICES ASSUME NEW r \in h PROVE r.at \in Nat /\ r.at <= f[n] OBVIOUS
  <2>1. PICK j \in 1..n : r = Entry(fires[m], j) BY <1>4
  <2>2. r.at = f[j] BY <2>1 DEF Entry
  <2>3. n \in j..n BY <1>2
  <2>4. f[j] <= f[n] BY <2>3 DEF Recorded
  <2>5. f[j] \in Nat BY <1>1
  <2>6. QED BY <2>2, <2>4, <2>5
<1>6. Entry(fires[m], n).at = f[n] BY DEF Entry
<1>7. f[n] \in times BY <1>3, <1>6
<1>8. Latest(h) \in times /\ \A r \in h : r.at <= Latest(h) BY <1>5, <1>7, Zenon DEF Latest
<1>9. Latest(h) \in Nat BY <1>5, <1>8
<1>10. f[n] <= Latest(h) BY <1>3, <1>6, <1>8
<1>11. n \in i..n BY <1>2
<1>12. f[i] <= f[n] BY <1>11 DEF Recorded
<1>13. f[i] \in Nat /\ f[n] \in Nat BY <1>1, <1>2
<1> HIDE DEF f, n, h
<1>14. f[i] <= Latest(h) BY <1>9, <1>10, <1>12, <1>13
<1>15. QED BY <1>3, <1>9, <1>14 DEF f, h, n

\* A run after one of the last hour is one of the last hour.
LEMMA LaterIsNearer ==
    ASSUME NEW t \in Nat, NEW a \in Nat, NEW b \in Nat, NEW width \in Nat, a <= b, t - a < width
    PROVE  t - b < width
OBVIOUS

\* One more run where the limits allow it.
LEMMA OneMoreRun ==
    ASSUME Types, NEW m \in Driven, Recorded(history[m], fires[m], now), Within(m, fires[m]), Allows(m)
    PROVE  Within(m, Append(fires[m], now))
<1> DEFINE f == fires[m]
           n == Len(f)
           h == history[m]
           g == Append(f, now)
<1>1. f \in Seq(Nat) /\ now \in Nat /\ m \in Macros BY DEF Types, Driven
<1>2. n \in Nat /\ g \in Seq(Nat) /\ Len(g) = n + 1 /\ g[n + 1] = now BY <1>1
<1>3. \A i \in 1..n : g[i] = f[i] /\ f[i] \in Nat BY <1>1
<1>4. \A i \in 1..n : f[i] <= now BY DEF Recorded
<1>5. m.cooldown \in Nat /\ m.per_hour \in Nat BY <1>1, MacroType
<1>6. \A i \in 1..n : now - f[i] >= m.cooldown
  <2> SUFFICES ASSUME NEW i \in 1..n PROVE now - f[i] >= m.cooldown OBVIOUS
  <2>1. h # {} /\ Latest(h) \in Nat /\ f[i] <= Latest(h) BY LatestIs
  <2>2. ~(m.cooldown > 0 /\ h # {} /\ now - Latest(h) < m.cooldown) BY DEF Allows
  <2>3. f[i] \in Nat /\ f[i] <= now BY <1>3, <1>4
  <2>4. CASE m.cooldown = 0 BY <1>1, <2>3, <2>4
  <2>5. CASE m.cooldown > 0
    <3>1. ~(now - Latest(h) < m.cooldown) BY <2>1, <2>2, <2>5
    <3> HIDE DEF f, h
    <3>2. QED BY <1>1, <1>5, <2>1, <2>3, <3>1
  <2>6. QED BY <1>5, <2>4, <2>5
<1>7. IsFiniteSet(Recent(h))
  <2>1. Recent(h) \in SUBSET {Entry(fires[m], i) : i \in 1..Len(fires[m])} BY DEF Recorded, Recent
  <2>2. QED BY <1>1, <2>1, EntriesFinite
<1>8. ASSUME NEW i \in 1..n, m.per_hour > 0, now - f[i] < Hour
      PROVE  /\ IsFiniteSet({j \in i..n : f[j] - f[i] < Hour})
             /\ Cardinality({j \in i..n : f[j] - f[i] < Hour}) < m.per_hour
  <2> DEFINE runs == {j \in i..n : f[j] - f[i] < Hour}
  <2>1. runs \in SUBSET (1..n) BY <1>2
  <2>2. \A j \in runs : Entry(fires[m], j) \in Recent(h)
    <3> SUFFICES ASSUME NEW j \in i..n PROVE Entry(fires[m], j) \in Recent(h) OBVIOUS
    <3>1. j \in 1..n BY <1>2
    <3>2. f[i] <= f[j] BY DEF Recorded
    <3>3. f[i] \in Nat /\ f[j] \in Nat /\ Hour \in Nat BY <1>3, <3>1, TriggerAssumption
    <3>4. now - f[j] < Hour
      <4>1. now - f[i] < Hour /\ now \in Nat BY <1>1, <1>8
      <4>2. QED BY <3>2, <3>3, <4>1, LaterIsNearer
    <3>5. Entry(fires[m], j) \in h BY <3>1, <3>4 DEF Recorded
    <3>6. Entry(fires[m], j).at = f[j] BY DEF Entry
    <3>7. QED BY <3>4, <3>5, <3>6 DEF Recent
  <2>3. IsFiniteSet(runs) /\ Cardinality(runs) <= Cardinality(Recent(h))
    BY <1>1, <1>7, <2>1, <2>2, RunsCounted
  <2>4. Cardinality(Recent(h)) < m.per_hour BY <1>8 DEF Allows
  <2>5. Cardinality(runs) \in Nat /\ Cardinality(Recent(h)) \in Nat
    BY <1>7, <2>3, FS_CardinalityType
  <2> HIDE DEF runs, h
  <2>6. Cardinality(runs) < m.per_hour BY <1>5, <2>3, <2>4, <2>5
  <2>7. QED BY <2>3, <2>6 DEF runs
<1>9. ASSUME NEW i \in 1..(n + 1), m.per_hour > 0
      PROVE  Cardinality({j \in i..(n + 1) : g[j] - g[i] < Hour}) <= m.per_hour
  <2> DEFINE runs == {j \in i..(n + 1) : g[j] - g[i] < Hour}
             old == {j \in i..n : f[j] - f[i] < Hour}
  <2>1. CASE i = n + 1
    <3>1. runs \subseteq {n + 1} BY <1>2, <2>1
    <3>2. IsFiniteSet({n + 1}) /\ Cardinality({n + 1}) = 1 BY FS_Singleton
    <3>3. Cardinality(runs) <= 1 /\ IsFiniteSet(runs) BY <3>1, <3>2, FS_Subset
    <3>4. Cardinality(runs) \in Nat BY <3>3, FS_CardinalityType
    <3> HIDE DEF runs
    <3>5. Cardinality(runs) <= m.per_hour BY <1>5, <1>9, <3>3, <3>4
    <3>6. QED BY <3>5 DEF runs
  <2>2. CASE i \in 1..n
    <3>1. \A j \in i..n : g[j] = f[j] /\ g[i] = f[i] BY <1>2, <1>3, <2>2
    <3>2. CASE now - f[i] < Hour
      <4>1. runs \subseteq old \cup {n + 1}
        <5>1. \A j \in runs : j \in i..n \/ j = n + 1 BY <1>2
        <5>2. QED BY <3>1, <5>1
      <4>2. IsFiniteSet(old) /\ Cardinality(old) < m.per_hour BY <1>8, <1>9, <2>2, <3>2
      <4>3. Cardinality(old) \in Nat BY <4>2, FS_CardinalityType
      <4>4. IsFiniteSet(old \cup {n + 1}) /\ Cardinality(old \cup {n + 1})
              = IF n + 1 \in old THEN Cardinality(old) ELSE Cardinality(old) + 1
        BY <4>2, FS_AddElement
      <4>5. Cardinality(runs) <= Cardinality(old \cup {n + 1}) /\ IsFiniteSet(runs)
        BY <4>1, <4>4, FS_Subset
      <4>6. Cardinality(runs) \in Nat BY <4>5, FS_CardinalityType
      <4> DEFINE a == Cardinality(runs)
                 b == Cardinality(old \cup {n + 1})
                 c == Cardinality(old)
      <4>7. b \in {c, c + 1} /\ a <= b /\ c < m.per_hour /\ a \in Nat /\ c \in Nat
        BY <4>2, <4>3, <4>4, <4>5, <4>6
      <4> HIDE DEF a, b, c
      <4>8. a <= m.per_hour BY <1>5, <4>7
      <4>9. QED BY <4>8 DEF a
    <3>3. CASE ~(now - f[i] < Hour)
      <4>1. n + 1 \notin runs BY <1>2, <2>2, <3>1, <3>3
      <4>2. \A j \in runs : j \in i..n
        <5> SUFFICES ASSUME NEW j \in runs PROVE j \in i..n OBVIOUS
        <5>1. j \in i..(n + 1) /\ j # n + 1 BY <4>1
        <5> HIDE DEF runs, n, g
        <5>2. QED BY <1>2, <2>2, <5>1
      <4>5. \A j \in runs : j \in old BY <3>1, <4>2
      <4>6. \A j \in old : j \in i..(n + 1) BY <1>2, <2>2
      <4>7. \A j \in old : j \in runs BY <3>1, <4>6
      <4>3. runs = old BY <4>5, <4>7
      <4>4. Cardinality(old) <= m.per_hour BY <1>9, <2>2 DEF Within
      <4>8. QED BY <4>3, <4>4
    <3>4. QED BY <3>2, <3>3
  <2>3. i = n + 1 \/ i \in 1..n BY <1>2, <1>9
  <2>4. QED BY <2>1, <2>2, <2>3
<1>10. ASSUME NEW i \in 1..(n + 1), NEW j \in (i + 1)..(n + 1)
       PROVE  g[j] - g[i] >= m.cooldown
  <2>1. i \in 1..n /\ (j = n + 1 \/ j \in (i + 1)..n) BY <1>2
  <2>2. CASE j = n + 1 BY <1>2, <1>3, <1>6, <2>1, <2>2
  <2>3. CASE j \in (i + 1)..n
    <3>1. f[j] - f[i] >= m.cooldown BY <2>1, <2>3 DEF Within
    <3>2. j \in 1..n BY <1>2, <2>1, <2>3
    <3>3. QED BY <1>3, <2>1, <3>1, <3>2
  <2>4. QED BY <2>1, <2>2, <2>3
<1> HIDE DEF g
<1>11. Within(m, g) BY <1>2, <1>9, <1>10 DEF Within
<1>12. QED BY <1>11 DEF g

\* Time passes; nothing else happens to the macros that are event-driven.
LEMMA RecordedLater ==
    ASSUME NEW f \in Seq(Nat), NEW h, NEW t \in Nat, NEW u \in Nat, t <= u, Recorded(h, f, t)
    PROVE  Recorded(h, f, u)
<1>1. ASSUME NEW i \in 1..Len(f) PROVE f[i] <= u /\ (u - f[i] < Hour => t - f[i] < Hour)
  <2>1. f[i] \in Nat /\ f[i] <= t BY DEF Recorded
  <2>2. QED BY <2>1, TriggerAssumption
<1>2. QED BY <1>1 DEF Recorded

LEMMA HistoryKept ==
    ASSUME Types, Types', LimitsInv, now <= now',
           \A m \in Driven : fires'[m] = fires[m] /\ history'[m] = history[m]
    PROVE  LimitsInv'
<1> SUFFICES ASSUME NEW m \in Driven PROVE Recorded(history[m], fires[m], now)'
  BY DEF LimitsInv
<1>1. Recorded(history[m], fires[m], now) BY DEF LimitsInv
<1>2. now \in Nat /\ now' \in Nat /\ fires[m] \in Seq(Nat) BY DEF Types, Driven
<1>3. Recorded(history[m], fires[m], now') BY <1>1, <1>2, RecordedLater
<1>4. QED BY <1>3

\* One more run on record.
LEMMA RecordedMore ==
    ASSUME Types, NEW f \in Seq(Nat), NEW h, Recorded(h, f, now)
    PROVE  Recorded(Recent(h) \cup {[run |-> Len(f) + 1, at |-> now]}, Append(f, now), now)
<1> DEFINE n == Len(f)
           new == [run |-> n + 1, at |-> now]
           g == Append(f, now)
           k == Recent(h) \cup {new}
<1>1. now \in Nat BY DEF Types
<1>2. n \in Nat /\ g \in Seq(Nat) /\ Len(g) = n + 1 /\ g[n + 1] = now BY <1>1
<1>3. \A i \in 1..n : g[i] = f[i] /\ f[i] \in Nat BY <1>1
<1>4. \A i \in 1..n : Entry(g, i) = Entry(f, i) BY <1>3 DEF Entry
<1>5. Entry(g, n + 1) = new BY <1>2 DEF Entry
<1>6. Recent(h) \subseteq {Entry(f, i) : i \in 1..n} BY DEF Recorded, Recent
<1>7. \A r \in k : \E i \in 1..(n + 1) : r = Entry(g, i)
  <2>1. \A r \in Recent(h) : \E i \in 1..n : r = Entry(g, i) BY <1>4, <1>6
  <2>2. 1..n \subseteq 1..(n + 1) /\ n + 1 \in 1..(n + 1) BY <1>2
  <2> HIDE DEF new, n, g
  <2>3. QED BY <1>5, <2>1, <2>2
<1>8. ASSUME NEW i \in 1..(n + 1)
      PROVE  /\ g[i] <= now
             /\ \A j \in i..(n + 1) : g[i] <= g[j]
             /\ i = n + 1 \/ now - g[i] < Hour => Entry(g, i) \in k
  <2>1. CASE i = n + 1
    <3>1. \A j \in i..(n + 1) : j = n + 1 BY <1>2, <2>1
    <3> HIDE DEF new, n, g
    <3>2. Entry(g, i) \in k BY <1>5, <2>1
    <3>3. QED BY <1>1, <1>2, <2>1, <3>1, <3>2
  <2>2. CASE i \in 1..n
    <3>1. g[i] = f[i] /\ f[i] \in Nat /\ f[i] <= now BY <1>3, <2>2 DEF Recorded
    <3>2. \A j \in i..n : f[i] <= f[j] /\ g[j] = f[j] BY <1>2, <1>3, <2>2 DEF Recorded
    <3>3. \A j \in i..(n + 1) : j \in i..n \/ j = n + 1 BY <1>2
    <3>4. \A j \in i..(n + 1) : g[i] <= g[j] BY <1>2, <3>1, <3>2, <3>3
    <3>5. ASSUME now - g[i] < Hour PROVE Entry(g, i) \in k
      <4>1. Entry(f, i) \in h BY <2>2, <3>1, <3>5 DEF Recorded
      <4>2. Entry(f, i).at = f[i] BY DEF Entry
      <4>3. Entry(f, i) \in Recent(h) BY <3>1, <3>5, <4>1, <4>2 DEF Recent
      <4>4. QED BY <1>4, <2>2, <4>3
    <3>6. i # n + 1 BY <1>2, <2>2
    <3>7. QED BY <3>1, <3>4, <3>5, <3>6
  <2>3. i = n + 1 \/ i \in 1..n BY <1>2
  <2>4. QED BY <2>1, <2>2, <2>3
<1> HIDE DEF g, k
<1>9. Recorded(k, g, now) BY <1>2, <1>7, <1>8 DEF Recorded
<1>10. QED BY <1>9 DEF g, k

LEMMA FireRecords ==
    ASSUME Types, Fire
    PROVE  \E m \in Driven :
             /\ Allows(m) /\ now' = now
             /\ fires' = [fires EXCEPT ![m] = Append(@, now)]
             /\ history' = [history EXCEPT ![m] =
                              Recent(@) \cup {[run |-> Len(fires[m]) + 1, at |-> now]}]
<1>1. server.todo \in Seq([event : Event, macro : Driven]) /\ server.todo # <<>>
  BY DEF Types, ServerType, Fire
<1>2. Head(server.todo) \in [event : Event, macro : Driven] BY <1>1, TailType
<1>3. Head(server.todo).macro \in Driven BY <1>2
<1>4. QED BY <1>3 DEF Fire

LEMMA LimitsFire ==
    ASSUME Types, LimitsInv, \A d \in Driven : Within(d, fires[d]), Fire
    PROVE  LimitsInv' /\ \A d \in Driven : Within(d, fires'[d])
<1>1. PICK m \in Driven :
             /\ Allows(m) /\ now' = now
             /\ fires' = [fires EXCEPT ![m] = Append(@, now)]
             /\ history' = [history EXCEPT ![m] =
                              Recent(@) \cup {[run |-> Len(fires[m]) + 1, at |-> now]}]
  BY FireRecords
<1>2. /\ fires \in [Macros -> Seq(Nat)] /\ history \in [Macros -> SUBSET [run : Nat, at : Nat]]
      /\ m \in Macros /\ Driven \subseteq Macros
  BY DEF Types, Driven
<1>3. fires'[m] = Append(fires[m], now) /\ history'[m]
        = Recent(history[m]) \cup {[run |-> Len(fires[m]) + 1, at |-> now]}
  BY <1>1, <1>2
<1>4. \A d \in Driven : d # m => fires'[d] = fires[d] /\ history'[d] = history[d] BY <1>1, <1>2
<1>5. fires[m] \in Seq(Nat) /\ Recorded(history[m], fires[m], now) BY <1>2 DEF LimitsInv
<1>6. Recorded(history'[m], fires'[m], now') BY <1>1, <1>3, <1>5, RecordedMore
<1>7. Within(m, fires'[m]) BY <1>1, <1>3, <1>5, OneMoreRun
<1>8. \A d \in Driven : Recorded(history'[d], fires'[d], now')
  BY <1>1, <1>4, <1>6 DEF LimitsInv
<1>9. QED BY <1>4, <1>7, <1>8 DEF LimitsInv

\* A step that fires no event-driven macro.
LEMMA NoFire ==
    ASSUME Types, [Next]_vars, ~Fire
    PROVE  /\ now' = now \/ now' = now + 1
           /\ \A m \in Driven : fires'[m] = fires[m] /\ history'[m] = history[m]
<1>1. CASE DueRunEnds
  <2>1. server.todo \in Seq(Timed) /\ server.todo # <<>>
    BY <1>1 DEF Types, ServerType, DueRunEnds
  <2>2. Head(server.todo) \in Timed BY <2>1, TailType
  <2>3. \A m \in Driven : m # Head(server.todo) /\ m \in Macros BY <2>2 DEF Driven, Timed
  <2>4. QED BY <1>1, <2>3 DEF DueRunEnds, Types, files
<1>2. CASE Tick BY <1>2 DEF Tick, files, past
<1>3. CASE Next /\ ~DueRunEnds /\ ~Tick
  BY <1>3 DEF Next, Handler, PollStarts, PublishNext, ServerAppends, DrainNotes, NotesFail,
              StepStarts, Skip, RunEnds, DueStarts, Arm, FireDue, Answer, WorkerTakes,
              WorkerAppends, UiEvent, NotePosted, NoteRemoved, Toggle, CompanionRestarts,
              DaemonRestarts, files, past
<1>4. CASE UNCHANGED vars BY <1>4 DEF vars
<1>5. QED BY <1>1, <1>2, <1>3, <1>4

LEMMA StepLimits ==
    ASSUME Types, LimitsInv, LimitsHold, [Next]_vars
    PROVE  LimitsInv' /\ LimitsHold'
<1>1. Types' BY StepTypes
<1>2. CASE Fire
  <2>1. LimitsInv' /\ \A d \in Driven : Within(d, fires'[d])
    BY <1>2, LimitsFire, LimitsAreWithin
  <2>2. LimitsHold' BY <2>1 DEF LimitsHold, Within, Driven
  <2>3. QED BY <2>1, <2>2
<1>3. CASE ~Fire
  <2>1. (now' = now \/ now' = now + 1)
        /\ \A m \in Driven : fires'[m] = fires[m] /\ history'[m] = history[m]
    BY <1>3, NoFire
  <2>2. now <= now' BY <2>1 DEF Types
  <2>3. LimitsInv' BY <1>1, <2>1, <2>2, HistoryKept
  <2>4. LimitsHold' BY <2>1 DEF LimitsHold, Driven
  <2>5. QED BY <2>3, <2>4
<1>4. QED BY <1>2, <1>3

\* For any cooldowns and limits, over any number of restarts, failures and hours.
THEOREM LimitsAlwaysHold == Spec => []LimitsHold
<1>1. Init => LimitsInv /\ LimitsHold
  <2> SUFFICES ASSUME Init PROVE LimitsInv /\ LimitsHold OBVIOUS
  <2>1. \A m \in Macros : fires[m] = <<>> /\ history[m] = {} BY DEF Init
  <2>2. \A i : i \notin 1..Len(<<>>) OBVIOUS
  <2>3. LimitsInv BY <2>1, <2>2 DEF LimitsInv, Recorded, Driven
  <2>4. LimitsHold BY <2>1, <2>2 DEF LimitsHold
  <2>5. QED BY <2>3, <2>4
<1>2. (Types /\ LimitsInv /\ LimitsHold) /\ [Next]_vars => (Types /\ LimitsInv /\ LimitsHold)'
  BY StepTypes, StepLimits
<1>3. QED BY <1>1, <1>2, InitTypes, PTL DEF Spec

-----------------------------------------------------------------------------
(* The schedule.                                                           *)

Due == {"due", "duerun"}
Quiet == /\ UNCHANGED armed \/ armed' = [m \in Macros |-> None]
         /\ \A m \in Timed : fires'[m] = fires[m]
         /\ now' = now \/ now' = now + 1
         /\ server'.at \notin Due \/ UNCHANGED <<server, armed>>

LEMMA FireQuiet == ASSUME Types, Fire PROVE Quiet
<1>1. PICK m \in Driven : now' = now /\ fires' = [fires EXCEPT ![m] = Append(@, now)]
  BY FireRecords
<1>2. \A d \in Timed : d # m /\ d \in Macros BY DEF Timed, Driven
<1>3. \A d \in Timed : fires'[d] = fires[d] BY <1>1, <1>2 DEF Types
<1>4. server'.at = "run" BY DEF Fire, Types, ServerType
<1>5. QED BY <1>1, <1>3, <1>4 DEF Quiet, Fire, Due

LEMMA PollsQuiet ==
    ASSUME Types, PollStarts \/ PublishNext \/ ServerAppends \/ DrainNotes \/ NotesFail \/ StepStarts
    PROVE  Quiet
<1>1. ServerType BY DEF Types
<1>2. CASE PollStarts
  <2>1. server'.at = "ui" BY <1>1, <1>2 DEF PollStarts, Goto, ServerType
  <2>2. QED BY <1>2, <2>1 DEF PollStarts, Quiet, past, Due
<1>3. CASE PublishNext
  <2>1. server'.at = server.at BY <1>1, <1>3 DEF PublishNext, ServerType
  <2>2. QED BY <1>3, <2>1 DEF PublishNext, Quiet, past, Due
<1>4. CASE ServerAppends BY <1>4 DEF ServerAppends, Quiet, past
<1>5. CASE DrainNotes
  <2>1. server'.at = "notes" BY <1>1, <1>5 DEF DrainNotes, Goto, ServerType
  <2>2. QED BY <1>5, <2>1 DEF DrainNotes, Quiet, past, Due
<1>6. CASE NotesFail BY <1>6 DEF NotesFail, Quiet, past, Due, Idle
<1>7. CASE StepStarts
  <2>3. Goto("match", Pairs(PollBus(cursor), Triggered), 0) \/ server' = Idle BY <1>7 DEF StepStarts
  <2>4. ServerIs("match", Pairs(PollBus(cursor), Triggered), 0) \/ server' = Idle
    BY <1>1, <2>3, GotoIs
  <2>1. server'.at \in {"match", "idle"} BY <2>4 DEF ServerIs, Idle
  <2>2. QED BY <1>7, <2>1 DEF StepStarts, Quiet, Due
<1>8. QED BY <1>2, <1>3, <1>4, <1>5, <1>6, <1>7

LEMMA OthersQuiet ==
    ASSUME Types, \/ Skip \/ RunEnds \/ Answer \/ WorkerTakes \/ WorkerAppends \/ UiEvent
                  \/ NotePosted \/ NoteRemoved \/ Toggle \/ Tick \/ CompanionRestarts
                  \/ DaemonRestarts \/ UNCHANGED vars
    PROVE  Quiet
<1>1. ServerType BY DEF Types
<1>2. CASE Skip
  <2>1. server'.at \in {"match", "idle"} BY <1>1, <1>2 DEF Skip, ServerType, Idle
  <2>2. QED BY <1>2, <2>1 DEF Skip, Quiet, past, Due
<1>3. CASE RunEnds
  <2>1. server'.at \in {"match", "idle"} BY <1>1, <1>3 DEF RunEnds, ServerType, Idle
  <2>2. QED BY <1>3, <2>1 DEF RunEnds, Quiet, past, Due
<1>4. CASE Answer BY <1>4 DEF Answer, Quiet, past, Due, Idle
<1>5. CASE DaemonRestarts BY <1>5 DEF DaemonRestarts, Quiet, Due, Idle
<1>6. CASE WorkerTakes \/ WorkerAppends BY <1>6 DEF WorkerTakes, WorkerAppends, Quiet, past
<1>7. CASE UiEvent \/ NotePosted \/ NoteRemoved \/ Toggle \/ Tick \/ CompanionRestarts
  BY <1>7 DEF UiEvent, NotePosted, NoteRemoved, Toggle, Tick, CompanionRestarts, Quiet, memory, past
<1>8. CASE UNCHANGED vars BY <1>8 DEF vars, Quiet
<1>9. QED BY <1>2, <1>3, <1>4, <1>5, <1>6, <1>7, <1>8

\* The runs f of a macro, its armed time a and the time t of the poll, where there
\* is one.
Spaced(m, f) == \A i \in 1..(Len(f) - 1) : f[i + 1] - f[i] >= m.every
Ahead(m, f, a) == a # None => \A i \in 1..Len(f) : f[i] + m.every <= a
Past(f, t) == \A i \in 1..Len(f) : f[i] <= t

LEMMA ArmedParts ==
    ArmedInv <=> /\ server.at \in Due => server.mark <= now
                 /\ server.at = "duerun" => armed[Head(server.todo)] \in 1..server.mark
                 /\ \A m \in Timed : /\ Past(fires[m], now) /\ Ahead(m, fires[m], armed[m])
                                     /\ server.at \in Due => Past(fires[m], server.mark)
BY Zenon DEF ArmedInv, Past, Ahead, Due

LEMMA SpacedParts == ScheduleKeepsInterval <=> \A m \in Timed : Spaced(m, fires[m])
BY DEF ScheduleKeepsInterval, Spaced, Timed

LEMMA QuietArmed ==
    ASSUME Types, Types', ArmedInv, Quiet
    PROVE  ArmedInv'
<1>1. \A m \in Timed : m \in Macros /\ fires[m] \in Seq(Nat) BY DEF Types, Timed
<1>2. now \in Nat /\ now' \in Nat /\ now <= now' BY DEF Types, Quiet
<1>3. ASSUME NEW m \in Timed
      PROVE  /\ Past(fires'[m], now') /\ Ahead(m, fires'[m], armed'[m])
             /\ server'.at \in Due => Past(fires'[m], server'.mark)
  <2>1. fires'[m] = fires[m] /\ fires[m] \in Seq(Nat) /\ m \in Macros BY <1>1 DEF Quiet
  <2>2. Past(fires[m], now) /\ Ahead(m, fires[m], armed[m]) BY ArmedParts
  <2>3. ASSUME NEW i \in 1..Len(fires[m]) PROVE fires[m][i] <= now'
    <3>1. fires[m][i] \in Nat /\ fires[m][i] <= now BY <2>1, <2>2 DEF Past
    <3>2. QED BY <1>2, <3>1
  <2>4. Past(fires'[m], now') BY <2>1, <2>3 DEF Past
  <2>5. armed'[m] = armed[m] \/ armed'[m] = None BY <2>1 DEF Quiet
  <2>6. Ahead(m, fires'[m], armed'[m]) BY <2>1, <2>2, <2>5 DEF Ahead
  <2>7. server'.at \in Due => Past(fires'[m], server'.mark) BY <2>1, ArmedParts DEF Quiet
  <2>8. QED BY <2>4, <2>6, <2>7
<1>4. server'.at \in Due => server'.mark <= now'
  <2>1. server.mark \in Nat BY DEF Types, ServerType
  <2>2. QED BY <1>2, <2>1, ArmedParts DEF Quiet
<1>5. server'.at = "duerun" => armed'[Head(server'.todo)] \in 1..server'.mark
  <2>1. ASSUME server'.at = "duerun" PROVE server' = server /\ armed' = armed
    BY <2>1 DEF Quiet, Due
  <2>2. QED BY <2>1, ArmedParts
<1>6. QED BY <1>3, <1>4, <1>5, Zenon DEF ArmedInv, Past, Ahead, Due

\* The Scheduler's own steps.
LEMMA DueArmed ==
    ASSUME Types, Types', ArmedInv, DueStarts \/ Arm \/ FireDue
    PROVE  ArmedInv'
<1>1. ServerType /\ now \in Nat /\ now' = now /\ fires' = fires
  <2>1. ServerType /\ now \in Nat BY DEF Types
  <2>2. now' = now /\ fires' = fires BY DEF DueStarts, Arm, FireDue, past
  <2>3. QED BY <2>1, <2>2
<1>2. \A m \in Timed : m \in Macros /\ fires[m] \in Seq(Nat) /\ m.every \in Nat
  BY MacroType DEF Types, Timed
<1>3. CASE DueStarts
  <2>1. server'.at = "due" /\ server'.mark = now /\ armed' = armed
    BY <1>1, <1>3 DEF DueStarts, Goto, ServerType
  <2>2. QED BY <1>1, <2>1 DEF ArmedInv
<1>4. CASE Arm
  <2> DEFINE m == Head(server.todo)
             t == server.mark
  <2>1. server.at = "due" /\ server.todo \in Seq(Timed) /\ server.todo # <<>> /\ t \in Nat
    BY <1>1, <1>4 DEF Arm, ServerType
  <2>2. m \in Timed BY <2>1, TailType
  <2>3. server'.at = "due" /\ server'.mark = t BY <1>1, <1>4, <2>1 DEF Arm, ServerType
  <2>4. (armed' = [armed EXCEPT ![m] = t + m.every] /\ armed[m] = None) \/ armed' = armed
    BY <1>4 DEF Arm, Armed
  <2> HIDE DEF m
  <2>5. t <= now /\ \A d \in Timed : Past(fires[d], now) /\ Past(fires[d], t) /\ Ahead(d, fires[d], armed[d])
    BY <2>1 DEF ArmedInv, Past, Ahead, Due
  <2>6. \A d \in Timed : Ahead(d, fires[d], armed'[d])
    <3> SUFFICES ASSUME NEW d \in Timed PROVE Ahead(d, fires[d], armed'[d]) OBVIOUS
    <3>1. CASE armed'[d] = armed[d] BY <2>5, <3>1
    <3>2. CASE armed'[d] = t + d.every
      <4>1. ASSUME NEW i \in 1..Len(fires[d]) PROVE fires[d][i] + d.every <= t + d.every
        <5>1. fires[d][i] \in Nat /\ fires[d][i] <= t BY <1>2, <2>5 DEF Past
        <5>2. QED BY <1>2, <2>1, <5>1
      <4>2. QED BY <3>2, <4>1 DEF Ahead
    <3>3. armed'[d] = armed[d] \/ armed'[d] = t + d.every BY <1>2, <2>4 DEF Types
    <3>4. QED BY <3>1, <3>2, <3>3
  <2>7. QED BY <1>1, <2>3, <2>5, <2>6, Zenon DEF ArmedInv, Past, Ahead, Due
<1>5. CASE FireDue
  <2>1. server'.at = "duerun" /\ server'.mark = server.mark /\ server'.todo = server.todo
        /\ armed' = armed /\ server.at = "due"
    BY <1>1, <1>5 DEF FireDue, ServerType
  <2>2. armed[Head(server.todo)] # None /\ server.mark >= armed[Head(server.todo)]
    BY <1>5 DEF FireDue
  <2>3. armed[Head(server.todo)] \in Nat /\ server.mark \in Nat
    <3>1. server.todo \in Seq(Timed) /\ server.todo # <<>> BY <1>1, <1>5 DEF FireDue, ServerType
    <3>2. Head(server.todo) \in Timed BY <3>1, TailType
    <3>3. QED BY <1>1, <1>2, <3>2 DEF Types, ServerType
  <2>4. armed[Head(server.todo)] \in 1..server.mark BY <2>2, <2>3 DEF None
  <2>5. QED BY <1>1, <2>1, <2>4 DEF ArmedInv
<1>6. QED BY <1>3, <1>4, <1>5

\* A run that returns is an interval behind the last one, and armed for the next.
LEMMA DueRunArmed ==
    ASSUME Types, Types', ArmedInv, \A d \in Timed : Spaced(d, fires[d]), DueRunEnds
    PROVE  ArmedInv' /\ \A d \in Timed : Spaced(d, fires'[d])
<1> DEFINE m == Head(server.todo)
           t == server.mark
           f == fires[m]
<1>1. ServerType /\ now \in Nat /\ now' = now /\ server.at = "duerun" BY DEF Types, DueRunEnds
<1>2. server.todo \in Seq(Timed) /\ server.todo # <<>> /\ t \in Nat BY <1>1 DEF ServerType
<1>3. m \in Timed BY <1>2, TailType
<1>4. \A d \in Timed : d \in Macros /\ fires[d] \in Seq(Nat) /\ d.every \in Nat
  BY MacroType DEF Types, Timed
<1>5. armed[m] \in 1..t /\ t <= now /\ \A d \in Timed : Past(fires[d], now) /\ Past(fires[d], t)
      /\ Ahead(d, fires[d], armed[d])
  BY <1>1 DEF ArmedInv, Past, Ahead, Due
<1>6. CASE server' = Idle /\ UNCHANGED <<armed, fires>>
  BY <1>1, <1>6 DEF ArmedInv, Idle
<1>7. CASE /\ armed' = [armed EXCEPT ![m] = t + m.every]
           /\ server' = [server EXCEPT !.at = "due", !.todo = Tail(@)]
           /\ fires' = [fires EXCEPT ![m] = Append(@, t)]
  <2>1. server'.at = "due" /\ server'.mark = t BY <1>1, <1>7 DEF ServerType
  <2> HIDE DEF m, t
  <2>2. fires'[m] = Append(f, t) /\ armed'[m] = t + m.every BY <1>3, <1>4, <1>7 DEF Types
  <2>3. \A d \in Timed : d # m => fires'[d] = fires[d] /\ armed'[d] = armed[d]
    BY <1>4, <1>7 DEF Types
  <2>4. f \in Seq(Nat) /\ m.every \in Nat BY <1>3, <1>4
  <2>5. \A i \in 1..Len(f) : f[i] \in Nat /\ f[i] <= t /\ f[i] <= now /\ f[i] + m.every <= armed[m]
    <3>1. armed[m] # None BY <1>5 DEF None
    <3>2. QED BY <1>3, <1>5, <2>4, <3>1 DEF Past, Ahead
  <2>6. \A i \in 1..Len(f) : f[i] + m.every <= t
    <3> SUFFICES ASSUME NEW i \in 1..Len(f) PROVE f[i] + m.every <= t OBVIOUS
    <3>1. f[i] \in Nat /\ f[i] + m.every <= armed[m] BY <2>5
    <3> HIDE DEF f
    <3>2. QED BY <1>2, <1>5, <2>4, <3>1 DEF t
  <2> DEFINE g == Append(f, t)
  <2>7. Len(f) \in Nat /\ Len(g) = Len(f) + 1 /\ g[Len(f) + 1] = t /\ \A i \in 1..Len(f) : g[i] = f[i]
    BY <1>2, <2>4 DEF t
  <2>8. Spaced(m, g)
    <3> SUFFICES ASSUME NEW i \in 1..Len(f) PROVE g[i + 1] - g[i] >= m.every BY <2>7 DEF Spaced
    <3>1. CASE i = Len(f)
      <4>1. f[i] \in Nat /\ f[i] + m.every <= t BY <2>5, <2>6
      <4>2. g[i + 1] = t /\ g[i] = f[i] BY <2>7, <3>1
      <4>3. t \in Nat BY <1>2 DEF t
      <4> HIDE DEF g, f
      <4>4. QED BY <2>4, <4>1, <4>2, <4>3
    <3>2. CASE i # Len(f)
      <4>1. i + 1 \in 1..Len(f) /\ i \in 1..(Len(f) - 1) BY <2>7, <3>2
      <4>2. g[i + 1] = f[i + 1] /\ g[i] = f[i] BY <2>7, <4>1
      <4>3. f[i + 1] - f[i] >= m.every BY <1>3, <4>1 DEF Spaced
      <4>4. QED BY <4>2, <4>3
    <3>3. QED BY <3>1, <3>2
  <2>9. \A i \in 1..Len(g) : g[i] <= t /\ g[i] <= now /\ g[i] + m.every <= t + m.every
    <3> SUFFICES ASSUME NEW i \in 1..Len(g)
                 PROVE g[i] <= t /\ g[i] <= now /\ g[i] + m.every <= t + m.every OBVIOUS
    <3>1. i \in 1..Len(f) \/ i = Len(f) + 1 BY <2>7
    <3>2. g[i] \in Nat /\ g[i] <= t BY <1>2, <2>5, <2>7, <3>1 DEF t
    <3>3. t \in Nat BY <1>2 DEF t
    <3> HIDE DEF g
    <3>4. QED BY <1>1, <1>5, <2>4, <3>2, <3>3
  <2>10. Past(g, t) /\ Past(g, now) /\ Ahead(m, g, t + m.every) BY <2>9 DEF Past, Ahead
  <2> HIDE DEF g
  <2>11. \A d \in Timed : /\ Past(fires'[d], now) /\ Past(fires'[d], t)
                          /\ Ahead(d, fires'[d], armed'[d]) /\ Spaced(d, fires'[d])
    BY <1>5, <2>2, <2>3, <2>8, <2>10 DEF g
  <2>12. ArmedInv' BY <1>1, <1>5, <2>1, <2>11, Zenon DEF ArmedInv, Past, Ahead, Due
  <2>13. QED BY <2>11, <2>12
<1>8. QED BY <1>6, <1>7 DEF DueRunEnds, Rearmed, Armed

LEMMA StepArmed ==
    ASSUME Types, ArmedInv, ScheduleKeepsInterval, [Next]_vars
    PROVE  ArmedInv' /\ ScheduleKeepsInterval'
<1>1. Types' BY StepTypes
<1>2. \A d \in Timed : Spaced(d, fires[d]) BY SpacedParts
<1>3. CASE DueRunEnds
  <2>1. ArmedInv' /\ \A d \in Timed : Spaced(d, fires'[d]) BY <1>1, <1>2, <1>3, DueRunArmed
  <2>2. QED BY <2>1 DEF ScheduleKeepsInterval, Spaced, Timed
<1>4. CASE DueStarts \/ Arm \/ FireDue
  <2>1. fires' = fires BY <1>4 DEF DueStarts, Arm, FireDue, past
  <2>2. ScheduleKeepsInterval' BY <2>1 DEF ScheduleKeepsInterval
  <2>3. QED BY <1>1, <1>4, <2>2, DueArmed
<1>5. CASE Quiet
  <2>1. ScheduleKeepsInterval' BY <1>5 DEF ScheduleKeepsInterval, Quiet, Timed
  <2>2. QED BY <1>1, <1>5, <2>1, QuietArmed
<1>6. QED BY <1>3, <1>4, <1>5, FireQuiet, PollsQuiet, OthersQuiet DEF Next, Handler

\* Through disabling, failures and restarts, for any intervals.
THEOREM SchedulesKeepIntervals == Spec => []ScheduleKeepsInterval
<1>1. Init => ArmedInv /\ ScheduleKeepsInterval
  <2> SUFFICES ASSUME Init PROVE ArmedInv /\ ScheduleKeepsInterval OBVIOUS
  <2>1. \A m \in Macros : fires[m] = <<>> BY DEF Init
  <2>2. Len(<<>>) = 0 OBVIOUS
  <2>3. ArmedInv BY <2>1, <2>2 DEF Init, Idle, ArmedInv, Timed
  <2>4. ScheduleKeepsInterval BY <2>1, <2>2 DEF ScheduleKeepsInterval
  <2>5. QED BY <2>3, <2>4
<1>2. (Types /\ ArmedInv /\ ScheduleKeepsInterval) /\ [Next]_vars
        => (Types /\ ArmedInv /\ ScheduleKeepsInterval)'
  BY StepTypes, StepArmed
<1>3. QED BY <1>1, <1>2, InitTypes, PTL DEF Spec

-----------------------------------------------------------------------------
(* What the manager takes of the bus.                                      *)

\* The places of the bus up to l that are newer than c.
Reached(l, c) == {i \in 1..l : bus[i].seq > c}
Newest == {i \in DOMAIN bus : bus[i].seq > cursor}

\* A batch is what is newer than the cursor, up to its last event.
LEMMA BatchIs ==
    ASSUME Types
    PROVE  \/ PollBus(cursor) = <<>>
           \/ \E l \in Reached(Len(bus), cursor) :
                /\ CursorAfter(PollBus(cursor), cursor) = bus[l].seq
                /\ \A k \in 1..Len(PollBus(cursor)) :
                     /\ Place(Newest, k) \in Reached(l, cursor)
                     /\ PollBus(cursor)[k] = bus[Place(Newest, k)]
                /\ \A i \in Reached(l, cursor) :
                     \E k \in 1..Len(PollBus(cursor)) : Place(Newest, k) = i
                /\ \A k, n \in 1..Len(PollBus(cursor)) :
                     Place(Newest, k) = Place(Newest, n) => k = n
<1> DEFINE batch == PollBus(cursor)
           idx == Newest
           all == Picked(bus, idx)
           size == Cardinality(idx)
<1>1. bus \in Seq(Event) /\ cursor \in Nat /\ Len(bus) \in Nat /\ DOMAIN bus = 1..Len(bus) BY DEF Types
<1>2. idx \in SUBSET DOMAIN bus BY DEF Newest
<1>3. idx \in SUBSET Nat /\ IsFiniteSet(idx) /\ size \in Nat BY <1>1, <1>2, PlacesFinite
<1>4. all \in Seq(Event) /\ Len(all) = size
      /\ \A k \in 1..size : Place(idx, k) \in idx /\ all[k] = bus[Place(idx, k)]
  BY <1>1, <1>2, PickedIs
<1>5. batch = FirstOf(all, MaxBatch) BY DEF PollBus, Newer, Newest
<1>6. MaxBatch \in Nat BY TriggerAssumption
<1>7. batch \in Seq(Event) /\ Len(batch) <= size /\ \A k \in 1..Len(batch) : batch[k] = all[k]
  BY <1>4, <1>5, <1>6, FirstOfIs
<1>8. CASE batch # <<>>
  <2> DEFINE last == Len(batch)
             l == Place(idx, last)
  <2>1. last \in 1..size /\ last \in Nat BY <1>3, <1>7, <1>8
  <2>2. l \in idx /\ l \in 1..Len(bus) /\ bus[l].seq > cursor BY <1>1, <1>4, <2>1 DEF Newest
  <2>3. CursorAfter(batch, cursor) = bus[l].seq
    <3>1. CursorAfter(batch, cursor) = batch[last].seq BY <1>8 DEF CursorAfter, LastSeq
    <3>2. last \in 1..last BY <2>1
    <3>3. batch[last] = bus[l] BY <1>4, <1>7, <2>1, <3>2
    <3>4. QED BY <3>1, <3>3
  <2>4. ASSUME NEW k \in 1..last
        PROVE  Place(idx, k) \in Reached(l, cursor) /\ batch[k] = bus[Place(idx, k)]
    <3>1. k \in 1..size /\ k <= last
      <4> HIDE DEF last, size
      <4>1. QED BY <1>3, <2>1, <2>4
    <3>2. Place(idx, k) \in idx /\ batch[k] = bus[Place(idx, k)] BY <1>4, <1>7, <3>1
    <3>3. ~(l < Place(idx, k)) BY <1>3, <2>1, <3>1, PlacesGrow
    <3>4. Place(idx, k) \in 1..Len(bus) /\ bus[Place(idx, k)].seq > cursor BY <1>1, <3>2 DEF Newest
    <3>5. Place(idx, k) \in 1..l
      <4>1. Place(idx, k) \in Nat /\ l \in Nat /\ Place(idx, k) >= 1 BY <2>2, <3>4
      <4> HIDE DEF l
      <4>2. QED BY <3>3, <4>1
    <3>6. QED BY <3>2, <3>4, <3>5 DEF Reached
  <2>5. ASSUME NEW i \in Reached(l, cursor) PROVE \E k \in 1..last : Place(idx, k) = i
    <3>1. i \in idx /\ i <= l /\ i \in Nat BY <1>1, <2>2 DEF Reached, Newest
    <3>2. PICK k \in 1..size : Place(idx, k) = i BY <1>3, <3>1, EveryPlace
    <3>3. ~(l < i) BY <2>2, <3>1
    <3>4. ~(last < k) BY <1>3, <2>1, <3>2, <3>3, PlacesGrow
    <3>5. k \in 1..last BY <2>1, <3>4
    <3>6. QED BY <3>2, <3>5
  <2>6. ASSUME NEW k \in 1..last, NEW n \in 1..last, Place(idx, k) = Place(idx, n)
        PROVE  k = n
    <3>1. k \in 1..size /\ n \in 1..size
      <4> HIDE DEF last, size
      <4>1. QED BY <1>3, <2>1, <2>6
    <3>2. Place(idx, k) \in Nat BY <1>3, <1>4, <3>1
    <3>3. ~(k < n) /\ ~(n < k) BY <1>3, <2>6, <3>1, <3>2, PlacesGrow
    <3>4. QED BY <3>1, <3>3
  <2>7. l \in Reached(Len(bus), cursor) BY <2>2 DEF Reached
  <2> HIDE DEF l, batch, idx
  <2>8. QED BY <2>3, <2>4, <2>5, <2>6, <2>7, Zenon DEF batch, idx
<1>9. QED BY <1>8

\* How often each event is taken by a batch that ends at place l of the bus.
Took(l, i) == IF i \in Reached(l, cursor) THEN 1 ELSE 0
Before(n) == IF n \in DOMAIN examined THEN examined[n] ELSE 0

LEMMA BatchCounts ==
    ASSUME Types, BusInv, CursorInv
    PROVE  \/ /\ CursorAfter(PollBus(cursor), cursor) = cursor
              /\ DOMAIN Count(examined, PollBus(cursor)) = DOMAIN examined
              /\ \A n \in DOMAIN examined : Count(examined, PollBus(cursor))[n] = examined[n]
           \/ \E l \in Reached(Len(bus), cursor) :
                /\ CursorAfter(PollBus(cursor), cursor) = bus[l].seq
                /\ DOMAIN Count(examined, PollBus(cursor))
                     = DOMAIN examined \cup {bus[i].seq : i \in Reached(l, cursor)}
                /\ \A i \in 1..Len(bus) :
                     bus[i].seq \in DOMAIN Count(examined, PollBus(cursor)) =>
                       Count(examined, PollBus(cursor))[bus[i].seq]
                         = Before(bus[i].seq) + Took(l, i)
<1> DEFINE batch == PollBus(cursor)
           ks(n) == {k \in 1..Len(batch) : batch[k].seq = n}
           all == DOMAIN examined \cup {batch[k].seq : k \in 1..Len(batch)}
<1>1. DOMAIN Count(examined, batch) = all
      /\ \A n \in all : Count(examined, batch)[n] = Before(n) + Cardinality(ks(n))
  BY DEF Count, Before
<1>2. \A n \in DOMAIN examined : examined[n] \in Nat BY DEF CursorInv
<1>3. CASE batch = <<>>
  <2>1. Len(batch) = 0 BY <1>3
  <2>2. 1..Len(batch) = {} BY <2>1
  <2>3. all = DOMAIN examined BY <2>2
  <2>4. \A n : ks(n) = {} BY <2>2
  <2>5. Cardinality({}) = 0 BY FS_EmptySet
  <2>6. ASSUME NEW n \in DOMAIN examined PROVE Count(examined, batch)[n] = examined[n]
    <3>1. Count(examined, batch)[n] = examined[n] + 0 BY <1>1, <2>3, <2>4, <2>5 DEF Before
    <3>2. QED BY <1>2, <3>1
  <2>7. CursorAfter(batch, cursor) = cursor BY <1>3 DEF CursorAfter, LastSeq
  <2> HIDE DEF all, batch, ks
  <2>8. QED BY <1>1, <2>3, <2>6, <2>7 DEF batch
<1>4. ASSUME NEW l \in Reached(Len(bus), cursor),
             CursorAfter(batch, cursor) = bus[l].seq,
             \A k \in 1..Len(batch) : /\ Place(Newest, k) \in Reached(l, cursor)
                                      /\ batch[k] = bus[Place(Newest, k)],
             \A i \in Reached(l, cursor) : \E k \in 1..Len(batch) : Place(Newest, k) = i,
             \A k, n \in 1..Len(batch) : Place(Newest, k) = Place(Newest, n) => k = n
      PROVE  /\ DOMAIN Count(examined, batch)
                  = DOMAIN examined \cup {bus[i].seq : i \in Reached(l, cursor)}
             /\ \A i \in 1..Len(bus) :
                  bus[i].seq \in DOMAIN Count(examined, batch) =>
                    Count(examined, batch)[bus[i].seq] = Before(bus[i].seq) + Took(l, i)
  <2>1. l \in 1..Len(bus) /\ Len(bus) \in Nat BY DEF Reached, Types
  <2>2. Reached(l, cursor) \subseteq 1..Len(bus) BY <2>1 DEF Reached
  <2>3. {batch[k].seq : k \in 1..Len(batch)} = {bus[i].seq : i \in Reached(l, cursor)}
    <3>1. ASSUME NEW k \in 1..Len(batch)
          PROVE  \E i \in Reached(l, cursor) : batch[k].seq = bus[i].seq
      BY <1>4, Zenon
    <3>2. ASSUME NEW i \in Reached(l, cursor)
          PROVE  \E k \in 1..Len(batch) : bus[i].seq = batch[k].seq
      <4>1. PICK k \in 1..Len(batch) : Place(Newest, k) = i BY <1>4
      <4>2. batch[k] = bus[i] BY <1>4, <4>1
      <4>3. QED BY <4>2
    <3> HIDE DEF batch
    <3>3. {batch[k].seq : k \in 1..Len(batch)} \subseteq {bus[i].seq : i \in Reached(l, cursor)}
      BY <3>1
    <3>4. {bus[i].seq : i \in Reached(l, cursor)} \subseteq {batch[k].seq : k \in 1..Len(batch)}
      BY <3>2
    <3>5. QED BY <3>3, <3>4
  <2>4. ASSUME NEW i \in 1..Len(bus) PROVE Cardinality(ks(bus[i].seq)) = Took(l, i)
    <3>1. ASSUME NEW k \in ks(bus[i].seq) PROVE Place(Newest, k) = i
      <4>1. k \in 1..Len(batch) /\ batch[k].seq = bus[i].seq OBVIOUS
      <4>2. batch[k] = bus[Place(Newest, k)] /\ Place(Newest, k) \in 1..Len(bus)
        BY <1>4, <2>2, <4>1
      <4>3. QED BY <4>1, <4>2 DEF BusInv
    <3>2. CASE i \in Reached(l, cursor)
      <4>1. PICK k \in 1..Len(batch) : Place(Newest, k) = i BY <1>4, <3>2
      <4>2. batch[k] = bus[i] BY <1>4, <4>1
      <4>3. k \in ks(bus[i].seq) BY <4>2
      <4>4. \A n \in ks(bus[i].seq) : n = k
        <5> SUFFICES ASSUME NEW n \in ks(bus[i].seq) PROVE n = k OBVIOUS
        <5>1. Place(Newest, n) = Place(Newest, k) /\ n \in 1..Len(batch) BY <3>1, <4>1
        <5>2. QED BY <1>4, <5>1
      <4> HIDE DEF ks
      <4>5. ks(bus[i].seq) = {k} BY <4>3, <4>4
      <4>6. QED BY <3>2, <4>5, FS_Singleton DEF Took
    <3>3. CASE i \notin Reached(l, cursor)
      <4>1. ASSUME NEW k \in ks(bus[i].seq) PROVE FALSE
        <5>1. Place(Newest, k) = i /\ k \in 1..Len(batch) BY <3>1
        <5>2. QED BY <1>4, <3>3, <5>1
      <4> HIDE DEF ks
      <4>2. ks(bus[i].seq) = {} BY <4>1
      <4>3. QED BY <3>3, <4>2, FS_EmptySet DEF Took
    <3>4. QED BY <3>2, <3>3
  <2>5. all = DOMAIN examined \cup {bus[i].seq : i \in Reached(l, cursor)} BY <2>3
  <2> HIDE DEF all, batch, ks
  <2>6. QED BY <1>1, <2>4, <2>5
<1> HIDE DEF all, batch, ks
<1>5. QED BY <1>3, <1>4, BatchIs DEF batch

LEMMA BusBounds ==
    ASSUME Types, BusInv
    PROVE  /\ \A i \in 1..Len(bus) : bus[i].seq \in Nat /\ bus[i].seq > 0
           /\ \A t \in Threads : held[t].seq \in Nat /\ (held[t] # NoEvent => held[t].seq > 0)
           /\ Len(bus) \in Nat
<1>1. ASSUME NEW t \in Threads PROVE held[t].seq \in Nat
  <2>1. held[t] \in Event \/ held[t] = NoEvent BY DEF Types
  <2>2. QED BY <2>1 DEF Event, NoEvent
<1>2. taken \in Nat /\ Len(bus) \in Nat BY DEF Types
<1>3. QED BY <1>1, <1>2 DEF BusInv

\* A new number is above all others.
LEMMA TakeBus ==
    ASSUME Types, BusInv, NEW t \in Threads, NEW type, NEW key, Take(t, type, key), UNCHANGED bus
    PROVE  BusInv'
<1>1. taken \in Nat /\ taken' = taken + 1 /\ bus' = bus BY DEF Types, Take
<1>2. held'[t] = [seq |-> taken + 1, type |-> type, key |-> key]
      /\ \A u \in Threads : u # t => held'[u] = held[u]
  BY DEF Take, Types
<1>3. held'[t].seq = taken + 1 BY <1>2
<1>4. \A i \in 1..Len(bus) : bus[i].seq \in 1..taken BY DEF BusInv
<1>5. \A u \in Threads : u # t => held[u] = NoEvent \/ held[u].seq \in 1..taken BY DEF BusInv
<1>6. \A u \in Threads : held'[u] = NoEvent \/ held'[u].seq \in 1..taken'
  <2> SUFFICES ASSUME NEW u \in Threads PROVE held'[u] = NoEvent \/ held'[u].seq \in 1..taken' OBVIOUS
  <2>1. CASE u = t BY <1>1, <1>3, <2>1
  <2>2. CASE u # t BY <1>1, <1>2, <1>5, <2>2
  <2>3. QED BY <2>1, <2>2
<1>7. \A i \in 1..Len(bus) : bus[i].seq \in 1..taken' BY <1>1, <1>4
<1>8. \A i \in 1..Len(bus), u \in Threads : bus[i].seq # held'[u].seq
  <2> SUFFICES ASSUME NEW i \in 1..Len(bus), NEW u \in Threads PROVE bus[i].seq # held'[u].seq OBVIOUS
  <2>1. CASE u = t
    <3>1. bus[i].seq \in 1..taken BY <1>4
    <3>2. QED BY <1>1, <1>3, <2>1, <3>1
  <2>2. CASE u # t BY <1>2, <2>2 DEF BusInv
  <2>3. QED BY <2>1, <2>2
<1>9. held'["server"].seq # held'["worker"].seq
  <2>1. PICK u \in Threads : u # t BY DEF Threads
  <2>2. held'[u] = held[u] /\ (held[u] = NoEvent \/ held[u].seq \in 1..taken) BY <1>2, <1>5, <2>1
  <2>3. held'[u].seq # held'[t].seq
    <3>1. NoEvent.seq = 0 BY DEF NoEvent
    <3>2. held'[u].seq = 0 \/ held'[u].seq \in 1..taken BY <2>2, <3>1
    <3>3. QED BY <1>1, <1>3, <3>2
  <2>4. QED BY <2>1, <2>3 DEF Threads
<1>10. \A i \in 1..Len(bus) : held'[t].seq > bus[i].seq
  <2> SUFFICES ASSUME NEW i \in 1..Len(bus) PROVE held'[t].seq > bus[i].seq OBVIOUS
  <2>1. bus[i].seq \in 1..taken BY <1>4
  <2>2. QED BY <1>1, <1>3, <2>1
<1>11. \A i, j \in 1..Len(bus), u \in Threads :
         Lower(j, i) => held'[u] = NoEvent \/ held'[u].seq > bus[i].seq
  <2> SUFFICES ASSUME NEW i \in 1..Len(bus), NEW j \in 1..Len(bus), NEW u \in Threads, Lower(j, i)
               PROVE  held'[u] = NoEvent \/ held'[u].seq > bus[i].seq
    OBVIOUS
  <2>1. CASE u = t BY <1>10, <2>1
  <2>2. CASE u # t BY <1>2, <2>2 DEF BusInv
  <2>3. QED BY <2>1, <2>2
<1>12. \A i \in 1..Len(bus) : \E u \in Threads : held'[u] = NoEvent \/ held'[u].seq > bus[i].seq
  BY <1>10
<1>13. /\ \A i, j \in 1..Len(bus) : bus[i].seq = bus[j].seq => i = j
       /\ \A i, j, k \in 1..Len(bus) : Lower(j, i) /\ Lower(k, i) => j = k
  BY DEF BusInv
<1>14. QED BY <1>1, <1>6, <1>7, <1>8, <1>9, <1>11, <1>12, <1>13, Zenon DEF BusInv, Lower

\* The number appended was with its thread until now; the other thread's is above
\* everything the new event is behind.
LEMMA AppendBus ==
    ASSUME Types, BusInv, NEW t \in Threads, AppendHeld(t), UNCHANGED taken
    PROVE  BusInv'
<1> DEFINE n == Len(bus) + 1
           e == held[t]
<1>1. Len(bus) \in Nat /\ e # NoEvent /\ bus' = Append(bus, e) /\ bus \in Seq(Event)
      /\ held' = [held EXCEPT ![t] = NoEvent] /\ held \in [Threads -> Event \cup {NoEvent}]
  BY DEF Types, AppendHeld
<1>2. Len(bus') = n /\ bus'[n] = e /\ \A i \in 1..Len(bus) : bus'[i] = bus[i]
  <2>1. e \in Event BY <1>1
  <2> HIDE DEF e
  <2>2. QED BY <1>1, <2>1
<1>3. held'[t] = NoEvent /\ \A u \in Threads : u # t => held'[u] = held[u] BY <1>1
<1>4. \A i \in 1..n : i = n \/ i \in 1..Len(bus) BY <1>1
<1>5. \A i \in 1..Len(bus) : bus[i].seq \in Nat /\ bus[i].seq > 0 BY BusBounds
<1>6. e.seq \in Nat /\ e.seq > 0 /\ NoEvent.seq = 0 BY <1>1, BusBounds DEF NoEvent
<1>7. \A i \in 1..Len(bus) : bus[i].seq # e.seq BY DEF BusInv
<1>8. \A i, j \in 1..n : bus'[i].seq = bus'[j].seq => i = j
  <2> HIDE DEF n, e
  <2>1. QED BY <1>2, <1>4, <1>7 DEF BusInv
<1>9. \A i \in 1..n : bus'[i].seq \in 1..taken
  <2> HIDE DEF n, e
  <2>1. e.seq \in 1..taken BY <1>1 DEF e, BusInv
  <2>2. QED BY <1>2, <1>4, <2>1 DEF BusInv
<1>10. \A u \in Threads : held'[u] = NoEvent \/ held'[u] = held[u] BY <1>3
<1>11. \A i \in 1..n, u \in Threads : bus'[i].seq # held'[u].seq
  <2> SUFFICES ASSUME NEW i \in 1..n, NEW u \in Threads PROVE bus'[i].seq # held'[u].seq OBVIOUS
  <2>1. CASE u = t
    <3>1. bus'[i].seq > 0 BY <1>2, <1>4, <1>5, <1>6
    <3>2. QED BY <1>3, <1>6, <2>1, <3>1
  <2>2. CASE u # t
    <3>1. held'[u] = held[u] BY <1>3, <2>2
    <3>2. held[u].seq # e.seq
      <4>1. CASE held[u] = NoEvent BY <1>6, <4>1
      <4>2. CASE held[u] # NoEvent BY <1>1, <2>2, <4>2 DEF BusInv, Threads
      <4>3. QED BY <4>1, <4>2
    <3>3. \A k \in 1..Len(bus) : bus[k].seq # held[u].seq BY DEF BusInv
    <3> HIDE DEF n, e
    <3>4. QED BY <1>2, <1>4, <3>1, <3>2, <3>3
  <2>3. QED BY <2>1, <2>2
<1>12. held'["server"].seq # held'["worker"].seq \/ held'["server"] = NoEvent
  <2>1. CASE t = "server" BY <1>3, <2>1
  <2>2. CASE t = "worker"
    <3>1. held'["worker"].seq = 0 /\ held'["server"] = held["server"] BY <1>3, <1>6, <2>2 DEF Threads
    <3>2. held["server"] = NoEvent \/ held["server"].seq > 0 BY BusBounds DEF Threads
    <3>3. QED BY <3>1, <3>2
  <2>3. QED BY <2>1, <2>2 DEF Threads
<1> DEFINE Low(j, i) == j > i /\ bus'[j].seq < bus'[i].seq
<1>13. ASSUME NEW i \in 1..n, NEW j \in 1..n, Low(j, i)
       PROVE  i \in 1..Len(bus) /\ ((j \in 1..Len(bus) /\ Lower(j, i)) \/ (j = n /\ e.seq < bus[i].seq))
  <2>1. i # n /\ i \in 1..Len(bus)
    <3>1. i < j /\ j <= n /\ i >= 1 /\ i \in Nat /\ j \in Nat BY <1>1, <1>13
    <3>2. QED BY <1>1, <3>1
  <2>2. bus'[i] = bus[i] BY <1>2, <2>1
  <2>3. CASE j = n
    <3> HIDE DEF n, e
    <3>1. bus'[j].seq = e.seq /\ bus'[j].seq < bus'[i].seq BY <1>2, <1>13, <2>3
    <3>2. QED BY <2>1, <2>2, <2>3, <3>1
  <2>4. CASE j \in 1..Len(bus)
    <3>1. bus'[j] = bus[j] /\ j > i /\ bus'[j].seq < bus'[i].seq BY <1>2, <1>13, <2>4
    <3>2. Lower(j, i) BY <2>2, <3>1 DEF Lower
    <3> HIDE DEF n, e, Low
    <3>3. QED BY <2>1, <2>4, <3>2
  <2>5. QED BY <1>4, <2>3, <2>4
<1>14. ASSUME NEW i \in 1..Len(bus), NEW j \in 1..Len(bus), Lower(j, i), e.seq < bus[i].seq PROVE FALSE
  <2>1. e.seq > bus[i].seq BY <1>1, <1>14 DEF BusInv
  <2> HIDE DEF e
  <2>2. QED BY <1>5, <1>6, <1>14, <2>1
<1>15. \A i, j, k \in 1..n : Low(j, i) /\ Low(k, i) => j = k
  <2> SUFFICES ASSUME NEW i \in 1..n, NEW j \in 1..n, NEW k \in 1..n, Low(j, i), Low(k, i) PROVE j = k
    OBVIOUS
  <2> HIDE DEF Low, n, e
  <2>1. i \in 1..Len(bus) /\ ((j \in 1..Len(bus) /\ Lower(j, i)) \/ (j = n /\ e.seq < bus[i].seq)) BY <1>13
  <2>2. (k \in 1..Len(bus) /\ Lower(k, i)) \/ (k = n /\ e.seq < bus[i].seq) BY <1>13
  <2>3. CASE j = n /\ k = n BY <2>3
  <2>4. CASE j \in 1..Len(bus) /\ k \in 1..Len(bus) /\ Lower(j, i) /\ Lower(k, i)
    BY <2>1, <2>4 DEF BusInv
  <2>5. QED BY <1>14, <2>1, <2>2, <2>3, <2>4
<1>16. \A i, j \in 1..n, u \in Threads : Low(j, i) => held'[u] = NoEvent \/ held'[u].seq > bus'[i].seq
  <2> SUFFICES ASSUME NEW i \in 1..n, NEW j \in 1..n, NEW u \in Threads, Low(j, i), u # t
               PROVE  held'[u] = NoEvent \/ held'[u].seq > bus'[i].seq
    BY <1>3
  <2>1. i \in 1..Len(bus) /\ ((j \in 1..Len(bus) /\ Lower(j, i)) \/ (j = n /\ e.seq < bus[i].seq)) BY <1>13
  <2>2. held'[u] = held[u] /\ bus'[i] = bus[i] BY <1>2, <1>3, <2>1
  <2>3. held[u] = NoEvent \/ held[u].seq > bus[i].seq
    <3>1. CASE j \in 1..Len(bus) /\ Lower(j, i) BY <2>1, <3>1 DEF BusInv
    <3>2. CASE e.seq < bus[i].seq
      <4>1. PICK w \in Threads : held[w] = NoEvent \/ held[w].seq > bus[i].seq BY <2>1 DEF BusInv
      <4>2. w # t
        <5> HIDE DEF e
        <5>1. bus[i].seq \in Nat BY <1>5, <2>1
        <5>2. ~(e.seq > bus[i].seq) BY <1>6, <3>2, <5>1
        <5>3. QED BY <1>1, <4>1, <5>2 DEF e
      <4>3. w = u BY <4>2 DEF Threads
      <4>4. QED BY <4>1, <4>3
    <3>3. QED BY <2>1, <3>1, <3>2
  <2>4. QED BY <2>2, <2>3
<1>17. \A i \in 1..n : \E u \in Threads : held'[u] = NoEvent \/ held'[u].seq > bus'[i].seq BY <1>3
<1>18. \A u \in Threads : held'[u] = NoEvent \/ held'[u].seq \in 1..taken
  BY <1>10 DEF BusInv
<1> HIDE DEF n, e
<1>19. QED BY <1>2, <1>8, <1>9, <1>11, <1>12, <1>15, <1>16, <1>17, <1>18 DEF BusInv, Lower

BusSame == UNCHANGED <<bus, taken, held>>
TakenSame == UNCHANGED <<cursor, examined>>

\* What each step does to the bus, and to what the manager has taken of it.
LEMMA BusStep ==
    ASSUME [Next]_vars
    PROVE  \/ /\ \E t \in Threads, type, key \in {Head(server.todo).type, Head(server.todo).key, "action", "none"} :
                   Take(t, type, key)
              /\ UNCHANGED bus /\ TakenSame
           \/ /\ \E t \in Threads : AppendHeld(t)
              /\ UNCHANGED taken /\ TakenSame
           \/ StepStarts /\ BusSame
           \/ BusSame /\ TakenSame
           \/ DaemonRestarts
<1>1. CASE PublishNext BY <1>1 DEF PublishNext, TakenSame, past, Threads
<1>2. CASE WorkerTakes BY <1>2 DEF WorkerTakes, TakenSame, past, Threads
<1>3. CASE ServerAppends BY <1>3 DEF ServerAppends, TakenSame, past, Threads
<1>4. CASE WorkerAppends BY <1>4 DEF WorkerAppends, TakenSame, past, Threads
<1>5. CASE StepStarts BY <1>5 DEF StepStarts, BusSame
<1>6. CASE PollStarts \/ DrainNotes \/ NotesFail \/ Skip \/ RunEnds \/ DueStarts \/ Arm \/ FireDue \/ Answer
  BY <1>6 DEF PollStarts, DrainNotes, NotesFail, Skip, RunEnds, DueStarts, Arm, FireDue, Answer,
              BusSame, TakenSame, past
<1>7. CASE Fire BY <1>7 DEF Fire, BusSame, TakenSame
<1>8. CASE DueRunEnds BY <1>8 DEF DueRunEnds, BusSame, TakenSame
<1>9. CASE UiEvent \/ NotePosted \/ NoteRemoved \/ Toggle \/ Tick \/ CompanionRestarts
  BY <1>9 DEF UiEvent, NotePosted, NoteRemoved, Toggle, Tick, CompanionRestarts, BusSame, TakenSame,
              memory, past
<1>10. CASE UNCHANGED vars BY <1>10 DEF vars, BusSame, TakenSame
<1>11. QED BY <1>1, <1>2, <1>3, <1>4, <1>5, <1>6, <1>7, <1>8, <1>9, <1>10 DEF Next, Handler

LEMMA RestartBus == ASSUME DaemonRestarts PROVE BusInv' /\ CursorInv'
<1>1. bus' = <<>> /\ Len(<<>>) = 0 BY DEF DaemonRestarts
<1>2. 1..Len(bus') = {} BY <1>1
<1>3. \A t \in Threads : held'[t] = NoEvent BY DEF DaemonRestarts, Threads
<1>4. cursor' = 0 /\ DOMAIN examined' = {} BY DEF DaemonRestarts
<1>5. BusInv' BY <1>2, <1>3 DEF BusInv, Threads
<1>6. CursorInv' BY <1>2, <1>4 DEF CursorInv
<1>7. QED BY <1>5, <1>6

\* An event appended later than a higher one the cursor is at was put out of order.
LEMMA AppendCursor ==
    ASSUME Types, BusInv, CursorInv, NEW t \in Threads, AppendHeld(t), TakenSame
    PROVE  CursorInv'
<1> DEFINE n == Len(bus) + 1
           e == held[t]
<1>1. Len(bus) \in Nat /\ e # NoEvent /\ bus' = Append(bus, e) /\ bus \in Seq(Event)
      /\ cursor' = cursor /\ examined' = examined /\ cursor \in Nat
  BY DEF Types, AppendHeld, TakenSame
<1>2. Len(bus') = n /\ bus'[n] = e /\ \A i \in 1..Len(bus) : bus'[i] = bus[i]
  <2>1. e \in Event BY <1>1 DEF Types
  <2> HIDE DEF e
  <2>2. QED BY <1>1, <2>1
<1>3. \A i \in 1..n : i = n \/ i \in 1..Len(bus) BY <1>1
<1>4. 1..Len(bus) \subseteq 1..n /\ n \in 1..n BY <1>1
<1>5. e.seq \in Nat /\ e.seq > 0 BY <1>1, BusBounds
<1>6. \A i \in 1..Len(bus) : bus[i].seq # e.seq BY DEF BusInv
<1>7. e.seq \notin DOMAIN examined BY <1>6 DEF CursorInv
<1> HIDE DEF n, e
<1>8. cursor' = 0 \/ \E i \in 1..n : bus'[i].seq = cursor' BY <1>1, <1>2, <1>4 DEF CursorInv
<1>9. \A m \in DOMAIN examined' : examined'[m] \in {1, 2} /\ \E i \in 1..n : bus'[i].seq = m
  BY <1>1, <1>2, <1>4 DEF CursorInv
<1>10. ASSUME NEW i \in 1..n, bus'[i].seq \in DOMAIN examined
       PROVE  i \in 1..Len(bus) /\ bus'[i] = bus[i]
  BY <1>2, <1>3, <1>7, <1>10
<1>11. \A i \in 1..n : bus'[i].seq \in DOMAIN examined' /\ bus'[i].seq > cursor' =>
         examined'[bus'[i].seq] = 1 /\ \E j \in 1..n : j > i /\ bus'[j].seq < bus'[i].seq /\ bus'[j].seq <= cursor'
  <2> SUFFICES ASSUME NEW i \in 1..n, bus'[i].seq \in DOMAIN examined, bus'[i].seq > cursor
               PROVE examined[bus'[i].seq] = 1
                     /\ \E j \in 1..n : j > i /\ bus'[j].seq < bus'[i].seq /\ bus'[j].seq <= cursor
    BY <1>1
  <2>1. i \in 1..Len(bus) /\ bus'[i] = bus[i] BY <1>10
  <2>2. examined[bus[i].seq] = 1 /\ \E j \in 1..Len(bus) : Lower(j, i) /\ bus[j].seq <= cursor
    BY <2>1 DEF CursorInv
  <2>3. QED BY <1>2, <1>4, <2>1, <2>2 DEF Lower
<1>12. \A i \in 1..n : bus'[i].seq \in DOMAIN examined' /\ examined'[bus'[i].seq] = 2 =>
         \E j \in 1..n : j > i /\ bus'[j].seq < bus'[i].seq
  <2> SUFFICES ASSUME NEW i \in 1..n, bus'[i].seq \in DOMAIN examined, examined[bus'[i].seq] = 2
               PROVE  \E j \in 1..n : j > i /\ bus'[j].seq < bus'[i].seq
    BY <1>1
  <2>1. i \in 1..Len(bus) /\ bus'[i] = bus[i] BY <1>10
  <2>2. \E j \in 1..Len(bus) : Lower(j, i) BY <2>1 DEF CursorInv
  <2>3. QED BY <1>2, <1>4, <2>1, <2>2 DEF Lower
<1>13. \A j \in 1..n : bus'[j].seq <= cursor' =>
         bus'[j].seq \in DOMAIN examined' \/ \E i \in 1..n : i < j /\ bus'[j].seq < bus'[i].seq
  <2> SUFFICES ASSUME NEW j \in 1..n, bus'[j].seq <= cursor
               PROVE  bus'[j].seq \in DOMAIN examined
                      \/ \E i \in 1..n : i < j /\ bus'[j].seq < bus'[i].seq
    BY <1>1
  <2>1. CASE j \in 1..Len(bus)
    <3>1. bus'[j] = bus[j] BY <1>2, <2>1
    <3>2. bus[j].seq \in DOMAIN examined \/ \E i \in 1..Len(bus) : Behind(i, j)
      BY <2>1, <3>1 DEF CursorInv
    <3>3. QED BY <1>2, <1>4, <3>1, <3>2 DEF Behind
  <2>2. CASE j = n
    <3>1. e.seq <= cursor /\ cursor # 0 BY <1>1, <1>2, <1>5, <2>2
    <3>2. PICK i \in 1..Len(bus) : bus[i].seq = cursor BY <3>1 DEF CursorInv
    <3>3. bus[i].seq # e.seq /\ bus[i].seq \in Nat BY <1>1, <1>6, <3>2
    <3>4. e.seq < bus[i].seq BY <1>1, <1>5, <3>1, <3>2, <3>3
    <3>5. i < n BY <1>1 DEF n
    <3>6. QED BY <1>2, <1>4, <2>2, <3>4, <3>5
  <2>3. QED BY <1>3, <2>1, <2>2
<1>14. QED BY <1>2, <1>8, <1>9, <1>11, <1>12, <1>13, Zenon DEF CursorInv, Lower, Behind

\* An event is taken twice only when the first time it stood behind a lower one, which
\* ended the batch; the next batch ends elsewhere, above it.
LEMMA StepCursor ==
    ASSUME Types, BusInv, CursorInv, StepStarts, BusSame
    PROVE  CursorInv'
<1> DEFINE batch == PollBus(cursor)
           b == 1..Len(bus)
<1>1. bus' = bus /\ cursor' = CursorAfter(batch, cursor) /\ examined' = Count(examined, batch)
  BY DEF StepStarts, BusSame
<1>2. \A i \in b : bus[i].seq \in Nat /\ bus[i].seq > 0 BY BusBounds
<1>3. cursor \in Nat /\ Len(bus) \in Nat BY DEF Types
<1>4. CASE /\ CursorAfter(batch, cursor) = cursor
           /\ DOMAIN Count(examined, batch) = DOMAIN examined
           /\ \A n \in DOMAIN examined : Count(examined, batch)[n] = examined[n]
  <2> HIDE DEF batch
  <2>1. cursor' = cursor /\ DOMAIN examined' = DOMAIN examined
        /\ \A n \in DOMAIN examined : examined'[n] = examined[n]
    BY <1>1, <1>4
  <2>2. \A n \in DOMAIN examined' : examined'[n] \in {1, 2} /\ \E i \in b : bus[i].seq = n
    BY <2>1 DEF CursorInv
  <2>3. \A i \in b : bus[i].seq \in DOMAIN examined' /\ bus[i].seq > cursor' =>
          examined'[bus[i].seq] = 1 /\ \E j \in b : Lower(j, i) /\ bus[j].seq <= cursor'
    BY <2>1 DEF CursorInv
  <2>4. \A i \in b : bus[i].seq \in DOMAIN examined' /\ examined'[bus[i].seq] = 2 =>
          \E j \in b : Lower(j, i)
    BY <2>1 DEF CursorInv
  <2>5. cursor' = 0 \/ \E i \in b : bus[i].seq = cursor' BY <2>1 DEF CursorInv
  <2>6. \A j \in b : bus[j].seq <= cursor' =>
          bus[j].seq \in DOMAIN examined' \/ \E i \in b : Behind(i, j)
    BY <2>1 DEF CursorInv
  <2>7. QED BY <1>1, <2>2, <2>3, <2>4, <2>5, <2>6, Zenon DEF CursorInv, Lower, Behind
<1>5. CASE \E l \in Reached(Len(bus), cursor) :
             /\ CursorAfter(batch, cursor) = bus[l].seq
             /\ DOMAIN Count(examined, batch)
                  = DOMAIN examined \cup {bus[i].seq : i \in Reached(l, cursor)}
             /\ \A i \in b : bus[i].seq \in DOMAIN Count(examined, batch) =>
                  Count(examined, batch)[bus[i].seq] = Before(bus[i].seq) + Took(l, i)
  <2> HIDE DEF batch
  <2>1. PICK l \in Reached(Len(bus), cursor) :
             /\ cursor' = bus[l].seq
             /\ DOMAIN examined' = DOMAIN examined \cup {bus[i].seq : i \in Reached(l, cursor)}
             /\ \A i \in b : bus[i].seq \in DOMAIN examined' =>
                  examined'[bus[i].seq] = Before(bus[i].seq) + Took(l, i)
    BY <1>1, <1>5
  <2> DEFINE R == Reached(l, cursor)
             c == bus[l].seq
  <2>2. l \in b /\ c > cursor /\ c \in Nat BY <1>2, <2>1 DEF Reached
  <2>3. ASSUME NEW i \in R PROVE i \in b /\ i <= l /\ bus[i].seq > cursor
    BY <1>3, <2>2, <2>3 DEF Reached
  <2>4. ASSUME NEW i \in b, i <= l, bus[i].seq > cursor PROVE i \in R
    BY <2>2, <2>4 DEF Reached
  <2> HIDE DEF R, b, c
  <2>5. ASSUME NEW i \in b, bus[i].seq \in DOMAIN examined, bus[i].seq > cursor
        PROVE  /\ examined[bus[i].seq] = 1
               /\ \E j \in b : Lower(j, i) /\ bus[j].seq <= cursor
    BY <2>5 DEF CursorInv, b
  <2>6. ASSUME NEW i \in b, bus[i].seq \in DOMAIN examined'
        PROVE  \/ /\ i \in R /\ bus[i].seq \notin DOMAIN examined
                  /\ examined'[bus[i].seq] = 1
               \/ /\ i \in R /\ bus[i].seq \in DOMAIN examined
                  /\ examined'[bus[i].seq] = 2
                  /\ \E j \in b : Lower(j, i) /\ bus[j].seq <= cursor
               \/ /\ i \notin R /\ bus[i].seq \in DOMAIN examined
                  /\ examined'[bus[i].seq] = examined[bus[i].seq]
    <3>1. examined'[bus[i].seq] = Before(bus[i].seq) + Took(l, i) BY <2>1, <2>6
    <3>2. CASE i \in R
      <4>1. Took(l, i) = 1 BY <3>2 DEF Took, R
      <4>2. CASE bus[i].seq \in DOMAIN examined
        <5>1. bus[i].seq > cursor BY <2>3, <3>2
        <5>2. examined[bus[i].seq] = 1 /\ \E j \in b : Lower(j, i) /\ bus[j].seq <= cursor
          BY <2>5, <4>2, <5>1
        <5>3. Before(bus[i].seq) = 1 BY <4>2, <5>2 DEF Before
        <5>4. examined'[bus[i].seq] = 2 BY <3>1, <4>1, <5>3
        <5>5. QED BY <3>2, <4>2, <5>2, <5>4
      <4>3. CASE bus[i].seq \notin DOMAIN examined
        <5>1. Before(bus[i].seq) = 0 BY <4>3 DEF Before
        <5>2. examined'[bus[i].seq] = 1 BY <3>1, <4>1, <5>1
        <5>3. QED BY <3>2, <4>3, <5>2
      <4>4. QED BY <4>2, <4>3
    <3>3. CASE i \notin R
      <4>1. Took(l, i) = 0 BY <3>3 DEF Took, R
      <4>2. bus[i].seq \in DOMAIN examined
        <5>1. SUFFICES ASSUME bus[i].seq \in {bus[k].seq : k \in R} PROVE FALSE BY <2>1, <2>6 DEF R
        <5>2. PICK k \in R : bus[k].seq = bus[i].seq BY <5>1
        <5>3. k = i BY <2>3, <5>2 DEF BusInv, b
        <5>4. QED BY <3>3, <5>3
      <4>3. examined[bus[i].seq] \in {1, 2} BY <4>2 DEF CursorInv
      <4>4. Before(bus[i].seq) = examined[bus[i].seq] BY <4>2 DEF Before
      <4>5. examined'[bus[i].seq] = examined[bus[i].seq] BY <3>1, <4>1, <4>3, <4>4
      <4>6. QED BY <3>3, <4>2, <4>5
    <3>4. QED BY <3>2, <3>3
  <2>7. cursor' = 0 \/ \E i \in b : bus[i].seq = cursor' BY <2>1, <2>2 DEF c
  <2>8. ASSUME NEW n \in DOMAIN examined'
        PROVE  examined'[n] \in {1, 2} /\ \E i \in b : bus[i].seq = n
    <3>1. n \in DOMAIN examined \/ n \in {bus[i].seq : i \in R} BY <2>1, <2>8 DEF R
    <3>2. \E i \in b : bus[i].seq = n
      <4>1. CASE n \in DOMAIN examined BY <4>1 DEF CursorInv, b
      <4>2. CASE n \in {bus[i].seq : i \in R} BY <2>3, <4>2
      <4>3. QED BY <3>1, <4>1, <4>2
    <3>3. PICK i \in b : bus[i].seq = n BY <3>2
    <3>4. bus[i].seq \in DOMAIN examined => examined[bus[i].seq] \in {1, 2} BY DEF CursorInv
    <3>5. examined'[bus[i].seq] \in {1, 2} BY <2>6, <2>8, <3>3, <3>4
    <3>6. QED BY <3>2, <3>3, <3>5
  <2>9. ASSUME NEW i \in b, bus[i].seq \in DOMAIN examined', bus[i].seq > cursor'
        PROVE  examined'[bus[i].seq] = 1 /\ \E j \in b : Lower(j, i) /\ bus[j].seq <= cursor'
    <3>1. bus[i].seq > c /\ cursor' = c /\ bus[i].seq \in Nat BY <1>2, <2>1, <2>9 DEF c, b
    <3>2. bus[i].seq > cursor BY <1>3, <2>2, <3>1
    <3>3. CASE i \in R
      <4>1. i \in b /\ i <= l BY <2>3, <3>3
      <4>2. i # l /\ i \in Nat /\ l \in Nat BY <2>2, <3>1, <4>1 DEF c, b
      <4>3. Lower(l, i)
        <5>1. l > i BY <4>1, <4>2
        <5>2. bus[l].seq < bus[i].seq BY <2>2, <3>1 DEF c
        <5>3. QED BY <5>1, <5>2 DEF Lower
      <4>4. bus[l].seq <= cursor' BY <2>2, <3>1 DEF c
      <4>5. ASSUME bus[i].seq \in DOMAIN examined PROVE FALSE
        <5>1. PICK j \in b : Lower(j, i) /\ bus[j].seq <= cursor BY <2>5, <3>2, <4>5
        <5>2. j = l BY <2>2, <4>3, <5>1 DEF BusInv, b
        <5>3. c <= cursor BY <5>1, <5>2 DEF c
        <5>4. QED BY <1>3, <2>2, <5>3
      <4>6. examined'[bus[i].seq] = 1 BY <2>6, <2>9, <4>5
      <4>7. QED BY <2>2, <4>3, <4>4, <4>6
    <3>4. CASE i \notin R
      <4>1. bus[i].seq \in DOMAIN examined /\ examined'[bus[i].seq] = examined[bus[i].seq]
        BY <2>6, <2>9, <3>4
      <4>2. examined[bus[i].seq] = 1 BY <2>5, <3>2, <4>1
      <4>3. PICK j \in b : Lower(j, i) /\ bus[j].seq <= cursor BY <2>5, <3>2, <4>1
      <4>4. bus[j].seq \in Nat BY <1>2, <4>3 DEF b
      <4>5. bus[j].seq <= cursor' BY <1>3, <2>2, <3>1, <4>3, <4>4
      <4>6. QED BY <4>1, <4>2, <4>3, <4>5
    <3>5. QED BY <3>3, <3>4
  <2>10. ASSUME NEW i \in b, bus[i].seq \in DOMAIN examined', examined'[bus[i].seq] = 2
         PROVE  \E j \in b : Lower(j, i)
    <3>1. CASE bus[i].seq \in DOMAIN examined /\ examined[bus[i].seq] = 2
      BY <3>1 DEF CursorInv, b
    <3>2. QED BY <2>6, <2>10, <3>1
  <2>11. ASSUME NEW j \in b, bus[j].seq <= cursor'
         PROVE  bus[j].seq \in DOMAIN examined' \/ \E i \in b : Behind(i, j)
    <3>1. bus[j].seq \in Nat /\ bus[j].seq <= c BY <1>2, <2>1, <2>11 DEF c, b
    <3>2. CASE bus[j].seq <= cursor BY <2>1, <3>2 DEF CursorInv, b
    <3>3. CASE bus[j].seq > cursor /\ j <= l
      <4>1. j \in R BY <2>4, <3>3
      <4>2. bus[j].seq \in {bus[i].seq : i \in R} BY <4>1
      <4>3. QED BY <2>1, <4>2 DEF R
    <3>4. CASE j > l
      <4>1. bus[j].seq # c
        <5>1. j \in Nat /\ l \in Nat BY <2>2 DEF b
        <5>2. j # l BY <3>4, <5>1
        <5>3. QED BY <2>2, <5>2 DEF BusInv, b, c
      <4>2. bus[j].seq < bus[l].seq BY <2>2, <3>1, <4>1 DEF c
      <4>3. Behind(l, j) BY <2>2, <3>4, <4>2 DEF Behind, b
      <4>4. QED BY <2>2, <4>3
    <3>5. j \in Nat /\ l \in Nat BY <2>2 DEF b
    <3>6. bus[j].seq <= cursor \/ (bus[j].seq > cursor /\ j <= l) \/ j > l
      BY <1>3, <3>1, <3>5
    <3>7. QED BY <3>2, <3>3, <3>4, <3>6
  <2>12. QED BY <1>1, <2>7, <2>8, <2>9, <2>10, <2>11, Zenon DEF CursorInv, Lower, Behind, b
<1>6. QED BY <1>4, <1>5, BatchCounts

LEMMA StepBus == Types /\ BusInv /\ CursorInv /\ [Next]_vars => BusInv' /\ CursorInv'
<1> SUFFICES ASSUME Types, BusInv, CursorInv, [Next]_vars PROVE BusInv' /\ CursorInv' OBVIOUS
<1>1. CASE BusSame /\ TakenSame
  <2>1. bus' = bus /\ taken' = taken /\ held' = held BY <1>1 DEF BusSame
  <2>2. cursor' = cursor /\ examined' = examined BY <1>1 DEF TakenSame
  <2>3. BusInv' BY <2>1 DEF BusInv, Lower
  <2>4. CursorInv' BY <2>1, <2>2 DEF CursorInv, Lower, Behind
  <2>5. QED BY <2>3, <2>4
<1>2. CASE StepStarts /\ BusSame
  <2>1. BusInv' BY <1>2 DEF BusSame, BusInv, Lower
  <2>2. QED BY <1>2, <2>1, StepCursor
<1>3. CASE UNCHANGED bus /\ TakenSame
           /\ \E t \in Threads, type, key \in {Head(server.todo).type, Head(server.todo).key, "action", "none"} :
                Take(t, type, key)
  <2>1. BusInv' BY <1>3, TakeBus
  <2>2. CursorInv' BY <1>3 DEF TakenSame, CursorInv, Lower, Behind
  <2>3. QED BY <2>1, <2>2
<1>4. CASE (\E t \in Threads : AppendHeld(t)) /\ UNCHANGED taken /\ TakenSame
  BY <1>4, AppendBus, AppendCursor
<1>5. QED BY <1>1, <1>2, <1>3, <1>4, BusStep, RestartBus

LEMMA InitBus == Init => BusInv /\ CursorInv
<1> SUFFICES ASSUME Init PROVE BusInv /\ CursorInv OBVIOUS
<1>1. bus = <<>> /\ Len(<<>>) = 0 BY DEF Init
<1>2. 1..Len(bus) = {} BY <1>1
<1>3. \A t \in Threads : held[t] = NoEvent BY DEF Init, Threads
<1>4. cursor = 0 /\ DOMAIN examined = {} BY DEF Init
<1>5. QED BY <1>2, <1>3, <1>4 DEF BusInv, CursorInv, Threads

LEMMA TakenOnce == CursorInv => EventsTakenOnce
<1> SUFFICES ASSUME CursorInv PROVE EventsTakenOnce OBVIOUS
<1>1. SkippedOnlyIfReordered BY DEF CursorInv, SkippedOnlyIfReordered
<1>2. ASSUME NEW n \in DOMAIN examined
      PROVE  examined[n] <= 2
             /\ (examined[n] = 2 => \E i, j \in 1..Len(bus) : bus[i].seq = n /\ Behind(i, j))
  <2>1. PICK i \in 1..Len(bus) : bus[i].seq = n BY DEF CursorInv
  <2>2. examined[n] \in {1, 2} BY DEF CursorInv
  <2>3. examined[n] <= 2 BY <2>2
  <2>4. ASSUME examined[n] = 2 PROVE \E j \in 1..Len(bus) : Behind(i, j)
    <3>1. PICK j \in 1..Len(bus) : Lower(j, i) BY <2>1, <2>4 DEF CursorInv
    <3>2. i < j BY <3>1 DEF Lower
    <3>3. QED BY <3>1, <3>2 DEF Lower, Behind
  <2>5. QED BY <2>1, <2>3, <2>4
<1>3. RepeatsOnlyReordered BY <1>2 DEF RepeatsOnlyReordered
<1>4. QED BY <1>1, <1>3 DEF EventsTakenOnce

\* For batches and numbers of events of any size: the manager passes over an event, or
\* takes one twice, only where the two threads appended out of order.
THEOREM EventsAreTakenOnce == Spec => []EventsTakenOnce
<1>1. (Types /\ BusInv /\ CursorInv) /\ [Next]_vars => (Types /\ BusInv /\ CursorInv)'
  BY StepTypes, StepBus
<1>2. QED BY <1>1, InitTypes, InitBus, TakenOnce, PTL DEF Spec

-----------------------------------------------------------------------------
(* Types, and the numbers that fit them.                                   *)

ArmedSoon == \A m \in Macros : armed[m] <= MaxNow + m.every

LEMMA StepArmedSoon == ASSUME Types, ArmedInv, ArmedSoon, [Next]_vars PROVE ArmedSoon'
<1>1. MaxNow \in Nat /\ \A m \in Macros : m.every \in Nat /\ MaxNow + m.every \in Nat
  BY TriggerAssumption
<1>2. CASE armed' = armed BY <1>2 DEF ArmedSoon
<1>3. CASE armed' = [m \in Macros |-> None] BY <1>1, <1>3 DEF ArmedSoon, None
<1>4. CASE server.at \in Due /\ \E m \in Macros : armed' = Armed(m)
  <2>1. PICK m \in Macros : armed' = [armed EXCEPT ![m] = server.mark + m.every] BY <1>4 DEF Armed
  <2>2. server.mark <= now /\ server.mark \in Nat /\ now \in Nat /\ now <= MaxNow
    BY <1>1, <1>4 DEF ArmedInv, Types, ServerType, Due
  <2>3. armed'[m] = server.mark + m.every /\ \A d \in Macros : d # m => armed'[d] = armed[d]
    BY <2>1 DEF Types
  <2>4. armed'[m] <= MaxNow + m.every BY <1>1, <2>2, <2>3
  <2>5. QED BY <2>3, <2>4 DEF ArmedSoon
<1>5. armed' = armed \/ armed' = [m \in Macros |-> None]
      \/ (server.at \in Due /\ \E m \in Macros : armed' = Armed(m))
  <2>1. CASE Arm \/ DueRunEnds
    <3>1. server.at \in Due /\ server.todo # <<>> /\ server.todo \in Seq(Timed)
      BY <2>1 DEF Arm, DueRunEnds, Types, ServerType, Due
    <3>2. Head(server.todo) \in Macros BY <3>1, TailType DEF Timed
    <3>3. armed' = armed \/ armed' = Armed(Head(server.todo)) BY <2>1 DEF Arm, DueRunEnds, Rearmed
    <3>4. QED BY <3>1, <3>2, <3>3
  <2>2. CASE Quiet BY <2>2 DEF Quiet
  <2>3. CASE DueStarts \/ FireDue BY <2>3 DEF DueStarts, FireDue
  <2>4. QED BY <2>1, <2>2, <2>3, FireQuiet, PollsQuiet, OthersQuiet DEF Next, Handler
<1>6. QED BY <1>2, <1>3, <1>4, <1>5

LEMMA TypesFit == Types /\ BusInv /\ CursorInv /\ ArmedSoon => TypeOK
<1> SUFFICES ASSUME Types, BusInv, CursorInv, ArmedSoon PROVE TypeOK OBVIOUS
<1>1. active \subseteq Notes /\ poller.seen \subseteq Notes /\ enabled \subseteq Macros
      /\ Len(ring.events) <= Capacity
  BY DEF Types
<1>2. \A i, j \in 1..Len(bus) : i # j => bus[i].seq # bus[j].seq BY DEF BusInv
<1>3. \A i \in 1..Len(bus) : bus[i].seq \in 1..taken BY DEF BusInv
<1>4. cursor \in 0..taken
  <2>1. taken \in Nat BY DEF Types
  <2>2. cursor = 0 \/ cursor \in 1..taken BY <1>3 DEF CursorInv
  <2>3. QED BY <2>1, <2>2
<1>5. server.at \in {"idle", "ui", "notes", "match", "run", "due", "duerun"} BY DEF Types, ServerType
<1>6. ASSUME NEW m \in Macros PROVE armed[m] \in 0..(MaxNow + m.every)
  <2>1. armed[m] \in Nat /\ MaxNow \in Nat /\ m.every \in Nat BY TriggerAssumption DEF Types
  <2>2. QED BY <2>1 DEF ArmedSoon
<1>7. QED BY <1>1, <1>2, <1>3, <1>4, <1>5, <1>6 DEF TypeOK

\* The numbers on the bus are different and were given out, and no cursor passes them.
THEOREM NumbersFit == Spec => []TypeOK
<1> DEFINE Inv == Types /\ BusInv /\ CursorInv /\ ArmedInv /\ ScheduleKeepsInterval /\ ArmedSoon
<1>1. Init => Inv
  <2> SUFFICES ASSUME Init PROVE ArmedInv /\ ScheduleKeepsInterval /\ ArmedSoon BY InitTypes, InitBus
  <2>1. \A m \in Macros : fires[m] = <<>> /\ armed[m] = 0 /\ MaxNow + m.every \in Nat
    BY TriggerAssumption DEF Init, None
  <2>2. Len(<<>>) = 0 OBVIOUS
  <2>3. ArmedInv BY <2>1, <2>2 DEF Init, Idle, ArmedInv, Timed
  <2>4. ScheduleKeepsInterval BY <2>1, <2>2 DEF ScheduleKeepsInterval
  <2>5. ArmedSoon BY <2>1 DEF ArmedSoon
  <2>6. QED BY <2>3, <2>4, <2>5
<1>2. Inv /\ [Next]_vars => Inv' BY StepTypes, StepBus, StepArmed, StepArmedSoon
<1>3. Inv => TypeOK BY TypesFit
<1>4. QED BY <1>1, <1>2, <1>3, PTL DEF Spec
=============================================================================
