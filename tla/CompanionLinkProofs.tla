------------------------ MODULE CompanionLinkProofs ------------------------
(***************************************************************************)
(* Theorems about CompanionLink, for any calls, connections, deaths of the  *)
(* companion, changes of the screen and engagements of STOP: whose answers   *)
(* arrive, how often the companion performs an input, that a refusal and STOP *)
(* are final, and which tree a node action finds.                           *)
(*                                                                         *)
(* The steps are first brought down to what they do to single fields: on the  *)
(* host a request is sent or ends, and connections only lose what they hold   *)
(* meanwhile (Less); on the phone one connection takes, refuses or answers a   *)
(* request.  The invariants are about that alone.                            *)
(***************************************************************************)
EXTENDS CompanionLink, FiniteSetTheorems, TLAPS

Stages == Requesting \cup Ended \cup {"idle", "adb"}
Sighting == [gen : Int, tree : Int, life : Int]
CallRecord ==
    [kind : Kinds \cup {"none"}, stage : Stages, waits : BOOLEAN, conn : ConnIds \cup {0},
     reused : BOOLEAN, gen : Int, chosen : Sighting, verdict : Codes]
AnswerRecord == [rid : Rids, code : Codes, flag : BOOLEAN, seen : Sighting]
ConnRecord ==
    [up : BOOLEAN, inbox : Seq(Rids), doing : Rids \cup {Nobody}, mark : Int,
     outbox : Seq(AnswerRecord)]

Shape ==
    /\ call \in [Calls -> CallRecord] /\ conns \in [ConnIds -> ConnRecord]
    /\ lock \in Calls \cup {NoCall} /\ cached \in ConnIds \cup {0}
    /\ poisoned \in BOOLEAN /\ stopped \in BOOLEAN /\ running \in BOOLEAN
    /\ seen \in Sighting /\ tree \in Int /\ origin \in Int /\ life \in Int
    /\ ran \in [Calls -> [companion : Nat, adb : Nat]] /\ born \subseteq Calls

-----------------------------------------------------------------------------
(* Connections.                                                            *)

\* What a connection may lose: all it has to do, what is being done, all that it
\* sends back.
Less(x, y) ==
    /\ x.inbox \in {y.inbox, <<>>} /\ x.outbox \in {y.outbox, <<>>}
    /\ x.doing \in {y.doing, Nobody}
    /\ IF x.doing = Nobody THEN x.mark \in {y.mark, 0} ELSE x.mark = y.mark
    /\ x.doing = Nobody /\ y.doing # Nobody => x.mark = 0
    /\ x.up => y.up

LEMMA NobodyIsNone == Nobody \notin Rids
BY DEF Nobody, Rids, Requesting

LEMMA ClosedRecord == Closed \in ConnRecord
<1>1. <<>> \in Seq(Rids) /\ <<>> \in Seq(AnswerRecord) OBVIOUS
<1>2. QED BY <1>1 DEF Closed, ConnRecord

LEMMA RidType == ASSUME Shape, NEW c \in Calls, call[c].stage \in Requesting PROVE Rid(c) \in Rids
BY DEF Rid, Rids

LEMMA UnseenType == Unseen \in Sighting
BY DEF Unseen, Sighting

\* Closing a connection.
LEMMA HangLess ==
    ASSUME NEW cs \in [ConnIds -> ConnRecord], NEW k \in ConnIds \cup {0}
    PROVE  /\ Hang(cs, k) \in [ConnIds -> ConnRecord]
           /\ \A j \in ConnIds : Less(Hang(cs, k)[j], cs[j]) /\ (j # k => Hang(cs, k)[j] = cs[j])
<1>1. CASE k = 0
  <2>1. Hang(cs, k) = cs BY <1>1 DEF Hang
  <2>2. QED BY <1>1, <2>1 DEF Less
<1>2. CASE k \in ConnIds
  <2> DEFINE inbox == IF \E n \in DOMAIN cs[k].inbox : PutsIn(cs[k].inbox[n])
                      THEN cs[k].inbox ELSE <<>>
             doing == IF PutsIn(cs[k].doing) THEN cs[k].doing ELSE Nobody
             mark == IF PutsIn(cs[k].doing) THEN cs[k].mark ELSE 0
             new == [Closed EXCEPT !.inbox = inbox, !.doing = doing, !.mark = mark]
  <2>1. k # 0 BY <1>2, LinkConstants DEF ConnIds
  <2>2. Hang(cs, k) = [cs EXCEPT ![k] = new] BY <2>1 DEF Hang
  <2>3. cs[k] \in ConnRecord BY <1>2
  <2>4. /\ inbox \in {cs[k].inbox, <<>>}
        /\ \/ doing = cs[k].doing /\ mark = cs[k].mark
           \/ doing = Nobody /\ mark = 0
    OBVIOUS
  <2>5. inbox \in Seq(Rids) /\ doing \in Rids \cup {Nobody} /\ mark \in Int
    <3>1. <<>> \in Seq(Rids) OBVIOUS
    <3>2. QED BY <2>3, <2>4, <3>1 DEF ConnRecord
  <2> HIDE DEF inbox, doing, mark
  <2>6. new.up = FALSE /\ new.outbox = <<>> /\ new.inbox = inbox /\ new.doing = doing /\ new.mark = mark
    BY DEF Closed
  <2>7. new \in ConnRecord BY <2>5, ClosedRecord DEF ConnRecord
  <2> HIDE DEF new
  <2>8. Less(new, cs[k]) BY <2>3, <2>4, <2>6 DEF Less
  <2>9. QED BY <1>2, <2>1, <2>2, <2>7, <2>8 DEF Less
<1>3. QED BY <1>1, <1>2

-----------------------------------------------------------------------------
(* The host.                                                               *)

\* Where a request ends up.
Ends(c, code, flag, stage) ==
    /\ call[c].stage = "check" => stage = AfterCheck(code, flag)
    /\ call[c].stage = "scan" => stage = AfterScan(call[c].kind, code = "ok")
    /\ call[c].stage = "companion" => stage = AfterCompanion(call[c].kind, code)

\* The request of c ends.
Ending(c, code, flag, what) ==
    /\ call' \in [Calls -> CallRecord]
    /\ \A d \in Calls : d # c => call'[d] = call[d]
    /\ call'[c].kind = call[c].kind /\ call'[c].chosen = call[c].chosen
    /\ ~call'[c].waits /\ call'[c].conn = 0
    /\ call'[c].verdict = (IF call[c].stage = "companion" THEN code ELSE call[c].verdict)
    /\ Ends(c, code, flag, call'[c].stage)
    /\ seen' \in Sighting /\ seen' \in {seen, what} /\ (what = Unseen => seen' = seen)
    /\ lock' = NoCall

LEMMA AfterTypes ==
    ASSUME NEW kind, NEW code, NEW flag, NEW up
    PROVE  /\ AfterCheck(code, flag) \in {"scan", "refused"}
           /\ AfterScan(kind, up) \in {"companion", "adb", "failed"}
           /\ AfterCompanion(kind, code) \in {"done", "refused", "adb", "failed"}
BY DEF AfterCheck, AfterScan, AfterCompanion

LEMMA FinishEnds ==
    ASSUME Shape, NEW c \in Calls, call[c].stage \in Requesting,
           NEW code \in Codes, NEW flag \in BOOLEAN, NEW what \in Sighting,
           Finish(c, code, flag, what)
    PROVE  Ending(c, code, flag, what)
<1> DEFINE stage == CASE call[c].stage = "check" -> AfterCheck(code, flag)
                      [] call[c].stage = "scan" -> AfterScan(call[c].kind, code = "ok")
                      [] OTHER -> AfterCompanion(call[c].kind, code)
           verdict == IF call[c].stage = "companion" THEN code ELSE call[c].verdict
<1>1. call' = [call EXCEPT ![c].waits = FALSE, ![c].conn = 0, ![c].reused = FALSE,
                           ![c].verdict = verdict, ![c].stage = stage]
  BY DEF Finish
<1>2. Ends(c, code, flag, stage) BY DEF Ends, Requesting
<1>3. stage \in Stages
  BY AfterTypes DEF Stages, Requesting, Ended
<1>4. call \in [Calls -> CallRecord] BY DEF Shape
<1>5. verdict \in Codes BY <1>4 DEF CallRecord
<1>6. seen' \in Sighting /\ seen' \in {seen, what} /\ (what = Unseen => seen' = seen) /\ lock' = NoCall
  BY DEF Finish, Shape
<1> HIDE DEF stage, verdict
<1>7. 0 \in ConnIds \cup {0} OBVIOUS
<1>8. /\ call' \in [Calls -> CallRecord]
      /\ \A d \in Calls : d # c => call'[d] = call[d]
  <2> DEFINE new == [call[c] EXCEPT !.waits = FALSE, !.conn = 0, !.reused = FALSE,
                                    !.verdict = verdict, !.stage = stage]
  <2>1. call[c] \in CallRecord BY <1>4
  <2>2. new \in CallRecord BY <1>3, <1>5, <1>7, <2>1 DEF CallRecord
  <2>3. call' = [call EXCEPT ![c] = new] BY <1>1, <1>4
  <2> HIDE DEF new
  <2>4. QED BY <1>4, <2>2, <2>3
<1>9. /\ call'[c].kind = call[c].kind /\ call'[c].chosen = call[c].chosen
      /\ ~call'[c].waits /\ call'[c].conn = 0 /\ call'[c].verdict = verdict
      /\ call'[c].stage = stage
  BY <1>1, <1>4 DEF CallRecord
<1>10. QED BY <1>2, <1>6, <1>8, <1>9 DEF Ending, verdict

\* The request of c is sent on connection k of cs.
Sending(c, k, cs) ==
    /\ call' \in [Calls -> CallRecord] /\ conns' \in [ConnIds -> ConnRecord]
    /\ \A d \in Calls : d # c => call'[d] = call[d]
    /\ call'[c].kind = call[c].kind /\ call'[c].chosen = call[c].chosen
    /\ call'[c].stage = call[c].stage /\ call'[c].verdict = call[c].verdict
    /\ call'[c].waits /\ call'[c].conn = k
    /\ \A j \in ConnIds : j # k => conns'[j] = cs[j]
    /\ \/ conns'[k] = cs[k]
       \/ /\ cs[k].up \/ running
          /\ conns'[k].inbox = Append(cs[k].inbox, Rid(c))
          /\ conns'[k].doing = cs[k].doing /\ conns'[k].mark = cs[k].mark
          /\ conns'[k].outbox = cs[k].outbox
    /\ lock' = c /\ seen' = seen

LEMMA SendOnSends ==
    ASSUME Shape, NEW c \in Calls, call[c].stage \in Requesting,
           NEW cs \in [ConnIds -> ConnRecord], NEW k \in ConnIds, NEW reused \in BOOLEAN,
           SendOn(c, k, reused, cs)
    PROVE  Sending(c, k, cs)
<1> DEFINE gen == IF call[c].stage = "companion" THEN seen.gen ELSE 0
<1>1. call' = [call EXCEPT ![c].waits = TRUE, ![c].conn = k, ![c].reused = reused, ![c].gen = gen]
  BY DEF SendOn
<1>2. gen \in Int BY DEF Shape, Sighting
<1> HIDE DEF gen
<1>3. call \in [Calls -> CallRecord] BY DEF Shape
<1>4. /\ call' \in [Calls -> CallRecord]
      /\ \A d \in Calls : d # c => call'[d] = call[d]
      /\ call'[c].kind = call[c].kind /\ call'[c].chosen = call[c].chosen
      /\ call'[c].stage = call[c].stage /\ call'[c].verdict = call[c].verdict
      /\ call'[c].waits /\ call'[c].conn = k
  <2> DEFINE new == [call[c] EXCEPT !.waits = TRUE, !.conn = k, !.reused = reused, !.gen = gen]
  <2>1. call[c] \in CallRecord BY <1>3
  <2>2. new \in CallRecord BY <1>2, <2>1 DEF CallRecord
  <2>3. call' = [call EXCEPT ![c] = new] BY <1>1, <1>3
  <2>4. /\ new.kind = call[c].kind /\ new.chosen = call[c].chosen
        /\ new.stage = call[c].stage /\ new.verdict = call[c].verdict
        /\ new.waits /\ new.conn = k
    BY <2>1 DEF CallRecord
  <2> HIDE DEF new
  <2>5. QED BY <1>3, <2>2, <2>3, <2>4
<1>5. lock' = c /\ seen' = seen BY DEF SendOn
<1>6. CASE ~cs[k].up
  <2>1. conns' = cs BY <1>6 DEF SendOn
  <2>2. QED BY <1>4, <1>5, <1>6, <2>1 DEF Sending
<1>7. CASE cs[k].up
  <2>1. conns' = [cs EXCEPT ![k].inbox = Append(cs[k].inbox, Rid(c))] BY <1>7 DEF SendOn
  <2>2. Rid(c) \in Rids BY RidType
  <2>3. cs[k] \in ConnRecord /\ Append(cs[k].inbox, Rid(c)) \in Seq(Rids) BY <2>2 DEF ConnRecord
  <2>4. conns' \in [ConnIds -> ConnRecord] BY <2>1, <2>3 DEF ConnRecord
  <2>5. /\ \A j \in ConnIds : j # k => conns'[j] = cs[j]
        /\ conns'[k].inbox = Append(cs[k].inbox, Rid(c))
        /\ conns'[k].doing = cs[k].doing /\ conns'[k].mark = cs[k].mark
        /\ conns'[k].outbox = cs[k].outbox
    BY <2>1, <2>3 DEF ConnRecord
  <2>6. QED BY <1>4, <1>5, <1>7, <2>4, <2>5 DEF Sending
<1>8. QED BY <1>6, <1>7

LEMMA ConnectSends ==
    ASSUME Shape, NEW c \in Calls, call[c].stage \in Requesting,
           NEW cs \in [ConnIds -> ConnRecord], Connect(c, cs)
    PROVE  \/ \E k \in ConnIds : cs[k] = Closed /\ Sending(c, k, cs)
           \/ Ending(c, "exception", FALSE, Unseen) /\ conns' = cs
<1>1. CASE running
  <2>1. PICK k \in ConnIds : /\ cs[k] = Closed
                             /\ SendOn(c, k, FALSE, [cs EXCEPT ![k].up = TRUE])
    BY <1>1 DEF Connect
  <2> DEFINE new == [cs EXCEPT ![k].up = TRUE]
  <2>2. cs[k] \in ConnRecord OBVIOUS
  <2>3. new \in [ConnIds -> ConnRecord] BY <2>2 DEF ConnRecord
  <2>4. /\ new[k].inbox = cs[k].inbox /\ new[k].doing = cs[k].doing /\ new[k].mark = cs[k].mark
        /\ new[k].outbox = cs[k].outbox /\ new[k].up
        /\ \A j \in ConnIds : j # k => new[j] = cs[j]
    BY <2>2 DEF ConnRecord
  <2>5. SendOn(c, k, FALSE, new) BY <2>1
  <2> HIDE DEF new
  <2>6. Sending(c, k, new) BY <2>3, <2>5, SendOnSends
  <2>7. conns' = [new EXCEPT ![k].inbox = Append(new[k].inbox, Rid(c))]
    BY <2>4, <2>5 DEF SendOn
  <2>8. /\ conns'[k].inbox = Append(cs[k].inbox, Rid(c))
        /\ conns'[k].doing = cs[k].doing /\ conns'[k].mark = cs[k].mark
        /\ conns'[k].outbox = cs[k].outbox
    BY <2>3, <2>4, <2>7 DEF ConnRecord
  <2>9. Sending(c, k, cs) BY <1>1, <2>4, <2>6, <2>8 DEF Sending
  <2>10. QED BY <2>1, <2>9
<1>2. CASE ~running
  <2>1. Finish(c, "exception", FALSE, Unseen) /\ conns' = cs BY <1>2 DEF Connect
  <2>2. Ending(c, "exception", FALSE, Unseen)
    BY <2>1, UnseenType, FinishEnds DEF Codes
  <2>3. QED BY <2>1, <2>2
<1>3. QED BY <1>1, <1>2

-----------------------------------------------------------------------------
(* Whose answers arrive.                                                    *)

Quiet(x) == x.inbox = <<>> /\ x.doing = Nobody /\ x.outbox = <<>>
\* All that is under way on a connection is r, in one place.
Only(x, r) ==
    \/ Quiet(x)
    \/ x.inbox = <<r>> /\ x.doing = Nobody /\ x.outbox = <<>>
    \/ x.inbox = <<>> /\ x.doing = r /\ x.outbox = <<>>
    \/ /\ x.inbox = <<>> /\ x.doing = Nobody
       /\ Len(x.outbox) = 1 /\ x.outbox[1].rid = r

\* One call at a time waits, on the connection that is kept or on a new one, and
\* as long as that can be read there is nothing on it but this call's request; one
\* that is kept for the next call is quiet.
LineInv ==
    /\ cached = 0 => ~poisoned
    /\ lock = NoCall /\ cached # 0 /\ ~poisoned => Quiet(conns[cached])
    /\ \A c \in Calls : call[c].waits <=> lock = c
    /\ \A c \in Calls : call[c].waits =>
        /\ call[c].conn \in ConnIds /\ call[c].stage \in Requesting
        /\ cached \in {0, call[c].conn}
        /\ ~Unreadable(call[c].conn) => Only(conns[call[c].conn], Rid(c))

LEMMA ConnIdNotZero == ASSUME NEW k \in ConnIds PROVE k # 0
BY LinkConstants DEF ConnIds

LEMMA CallNotNobody == ASSUME NEW c \in Calls PROVE c # NoCall
BY LinkConstants

LEMMA LessQuiet ==
    ASSUME NEW x \in ConnRecord, NEW y \in ConnRecord, Less(x, y)
    PROVE  /\ Quiet(y) => Quiet(x)
           /\ \A r : Only(y, r) => Only(x, r)
BY DEF Less, Quiet, Only, ConnRecord

\* What the steps of a request do.
Kept == UNCHANGED <<cached, poisoned>>
Dropped == cached' = 0 /\ poisoned' = FALSE
Shrunk(cs) == cs \in [ConnIds -> ConnRecord] /\ \A k \in ConnIds : Less(cs[k], conns[k])

LEMMA StartEffect ==
    ASSUME Shape, LineInv, NEW c \in Calls, StartRequest(c)
    PROVE  /\ UNCHANGED <<screen, ran, born>> /\ call[c].stage \in Requesting
           /\ ~call[c].waits /\ lock = NoCall
           /\ \/ cached \in ConnIds /\ Kept /\ Sending(c, cached, conns)
              \/ \E cs : /\ Shrunk(cs) /\ Dropped
                         /\ \/ \E k \in ConnIds : cs[k] = Closed /\ Sending(c, k, cs)
                            \/ Ending(c, "exception", FALSE, Unseen) /\ conns' = cs
<1>1. /\ UNCHANGED <<screen, ran, born>> /\ call[c].stage \in Requesting
      /\ ~call[c].waits /\ lock = NoCall
  BY DEF StartRequest
<1>2. cached \in ConnIds \cup {0} /\ conns \in [ConnIds -> ConnRecord] BY DEF Shape
<1>3. CASE cached # 0 /\ SendOn(c, cached, TRUE, conns) /\ UNCHANGED <<cached, fresh, poisoned>>
  BY <1>1, <1>2, <1>3, SendOnSends DEF Kept
<1>4. CASE /\ cached' = 0 /\ fresh' = FALSE /\ poisoned' = FALSE
           /\ Connect(c, Hang(conns, cached))
  <2>1. Shrunk(Hang(conns, cached)) BY <1>2, HangLess DEF Shrunk
  <2>2. Hang(conns, cached) \in [ConnIds -> ConnRecord] BY <2>1 DEF Shrunk
  <2>3. \/ \E k \in ConnIds : /\ Hang(conns, cached)[k] = Closed
                              /\ Sending(c, k, Hang(conns, cached))
        \/ Ending(c, "exception", FALSE, Unseen) /\ conns' = Hang(conns, cached)
    BY <1>1, <1>4, <2>2, ConnectSends
  <2>4. QED BY <1>1, <1>4, <2>1, <2>3 DEF Dropped
<1>5. QED BY <1>3, <1>4 DEF StartRequest

LEMMA ReadNothingEffect ==
    ASSUME Shape, LineInv, NEW c \in Calls, ReadNothing(c)
    PROVE  /\ UNCHANGED <<screen, ran, born>> /\ call[c].stage \in Requesting /\ call[c].waits
           /\ \E cs : /\ Shrunk(cs) /\ Dropped
                      /\ \/ ReadOnly(c) /\ \E k \in ConnIds : cs[k] = Closed /\ Sending(c, k, cs)
                         \/ Ending(c, "exception", FALSE, Unseen) /\ conns' = cs
                         \/ Ending(c, "timeout", FALSE, Unseen) /\ conns' = cs
<1> DEFINE k == call[c].conn
<1>1. /\ UNCHANGED <<screen, ran, born>> /\ call[c].waits /\ Dropped
      /\ IF MayResend(c) THEN Connect(c, Hang(conns, k))
         ELSE Finish(c, "timeout", FALSE, Unseen) /\ conns' = Hang(conns, k)
  BY DEF ReadNothing, Dropped
<1>2. call[c].stage \in Requesting /\ k \in ConnIds BY <1>1 DEF LineInv
<1>3. Shrunk(Hang(conns, k)) BY <1>2, HangLess DEF Shrunk, Shape
<1>4. Hang(conns, k) \in [ConnIds -> ConnRecord] BY <1>3 DEF Shrunk
<1>5. CASE MayResend(c)
  <2>1. \/ \E j \in ConnIds : Hang(conns, k)[j] = Closed /\ Sending(c, j, Hang(conns, k))
        \/ Ending(c, "exception", FALSE, Unseen) /\ conns' = Hang(conns, k)
    BY <1>1, <1>2, <1>4, <1>5, ConnectSends
  <2>2. ReadOnly(c) BY <1>5 DEF MayResend
  <2>3. QED BY <1>1, <1>2, <1>3, <2>1, <2>2
<1>6. CASE ~MayResend(c)
  <2>1. Ending(c, "timeout", FALSE, Unseen)
    BY <1>1, <1>2, <1>6, UnseenType, FinishEnds DEF Codes
  <2>2. QED BY <1>1, <1>2, <1>3, <1>6, <2>1
<1>7. QED BY <1>5, <1>6

LEMMA TimeOutEffect ==
    ASSUME Shape, LineInv, NEW c \in Calls, TimeOut(c)
    PROVE  /\ UNCHANGED <<screen, ran, born>> /\ call[c].stage \in Requesting /\ call[c].waits
           /\ Ending(c, "exception", FALSE, Unseen) /\ Shrunk(conns')
           /\ cached' = cached /\ poisoned' = (poisoned \/ call[c].conn = cached)
<1>1. /\ UNCHANGED <<screen, ran, born, cached>> /\ call[c].waits
      /\ Finish(c, "exception", FALSE, Unseen)
      /\ poisoned' = (poisoned \/ call[c].conn = cached)
      /\ conns' \in {conns, Hang(conns, call[c].conn)}
  BY DEF TimeOut, Poisons
<1>2. call[c].stage \in Requesting /\ call[c].conn \in ConnIds BY <1>1 DEF LineInv
<1>3. Ending(c, "exception", FALSE, Unseen)
  BY <1>1, <1>2, UnseenType, FinishEnds DEF Codes
<1>4. \A k \in ConnIds : Less(conns[k], conns[k]) BY DEF Less
<1>5. Shrunk(conns') BY <1>1, <1>2, <1>4, HangLess DEF Shrunk, Shape
<1>6. QED BY <1>1, <1>2, <1>3, <1>5

\* The answer is the only thing on its connection.
LEMMA ReadOwnEffect ==
    ASSUME Shape, LineInv, NEW c \in Calls, ReadOwn(c)
    PROVE  /\ UNCHANGED <<screen, ran, born>> /\ call[c].stage \in Requesting /\ call[c].waits
           /\ Shrunk(conns')
           /\ call[c].conn \in ConnIds /\ cached' = call[c].conn /\ poisoned' = poisoned
           /\ Quiet(conns'[call[c].conn])
           /\ \E n \in DOMAIN conns[call[c].conn].outbox :
                LET a == conns[call[c].conn].outbox[n]
                IN  /\ a \in AnswerRecord /\ a.rid = Rid(c)
                    /\ Ending(c, a.code, a.flag, a.seen)
<1> DEFINE k == call[c].conn
<1>1. /\ UNCHANGED <<screen, ran, born, poisoned>> /\ call[c].waits /\ cached' = k
      /\ ~Unreadable(k)
  BY DEF ReadOwn
<1>2. call[c].stage \in Requesting /\ k \in ConnIds /\ Only(conns[k], Rid(c))
  BY <1>1 DEF LineInv
<1>3. PICK n \in OwnLines(c) :
        /\ Finish(c, conns[k].outbox[n].code, conns[k].outbox[n].flag, conns[k].outbox[n].seen)
        /\ conns' = [conns EXCEPT ![k].outbox = SubSeq(@, n + 1, Len(@))]
  BY DEF ReadOwn
<1>4. conns[k] \in ConnRecord BY <1>2 DEF Shape
<1>5. n \in DOMAIN conns[k].outbox /\ conns[k].outbox[n].rid = Rid(c) BY DEF OwnLines
<1>6. conns[k].outbox \in Seq(AnswerRecord) /\ conns[k].outbox[n] \in AnswerRecord
  BY <1>4, <1>5 DEF ConnRecord
<1>7. conns[k].outbox # <<>> BY <1>5, <1>6
<1>8. /\ conns[k].inbox = <<>> /\ conns[k].doing = Nobody /\ Len(conns[k].outbox) = 1
  BY <1>2, <1>7 DEF Only, Quiet
<1>9. SubSeq(conns[k].outbox, n + 1, Len(conns[k].outbox)) = <<>>
  <2>1. n = 1 BY <1>5, <1>6, <1>8
  <2>2. QED BY <1>6, <1>8, <2>1
<1>10. conns' = [conns EXCEPT ![k].outbox = <<>>] BY <1>3, <1>9, <1>2 DEF Shape
<1>11. <<>> \in Seq(AnswerRecord) OBVIOUS
<1>12. conns' \in [ConnIds -> ConnRecord] /\ Quiet(conns'[k])
  BY <1>2, <1>4, <1>8, <1>10, <1>11 DEF Shape, ConnRecord, Quiet
<1>13. \A j \in ConnIds : Less(conns'[j], conns[j])
  <2>1. \A j \in ConnIds : j # k => conns'[j] = conns[j] BY <1>2, <1>10 DEF Shape
  <2>2. /\ conns'[k].inbox = conns[k].inbox /\ conns'[k].doing = conns[k].doing
        /\ conns'[k].mark = conns[k].mark /\ conns'[k].outbox = <<>> /\ conns'[k].up = conns[k].up
    BY <1>2, <1>4, <1>10 DEF Shape, ConnRecord
  <2>3. QED BY <2>1, <2>2 DEF Less
<1>14. Ending(c, conns[k].outbox[n].code, conns[k].outbox[n].flag, conns[k].outbox[n].seen)
  BY <1>2, <1>3, <1>6, FinishEnds DEF AnswerRecord
<1>15. QED BY <1>1, <1>2, <1>5, <1>6, <1>12, <1>13, <1>14 DEF Shrunk

\* The other steps of a call: its beginning, the ping cache, ADB.
Moving(c) ==
    /\ call' \in [Calls -> CallRecord]
    /\ \A d \in Calls : d # c => call'[d] = call[d]
    /\ call'[c].waits = call[c].waits /\ call'[c].conn = call[c].conn
    /\ call'[c].verdict = call[c].verdict

LEMMA BeginEffect ==
    ASSUME Shape, NEW c \in Calls, NEW kind \in Kinds, Begin(c, kind)
    PROVE  /\ Moving(c) /\ call[c].stage = "idle"
           /\ call'[c].stage = (IF Acts(kind) THEN "check" ELSE "scan") /\ call'[c].kind = kind
           /\ call'[c].chosen = (IF kind = "node" THEN seen ELSE Unseen)
           /\ kind = "node" => seen # Unseen
           /\ born' = (IF stopped THEN born \cup {c} ELSE born)
           /\ UNCHANGED <<lock, cached, fresh, poisoned, alive, seen, conns, screen, ran>>
<1> DEFINE stage == IF Acts(kind) THEN "check" ELSE "scan"
           chosen == IF kind = "node" THEN seen ELSE Unseen
           new == [call[c] EXCEPT !.stage = stage, !.kind = kind, !.chosen = chosen]
<1>1. call[c] \in CallRecord /\ call \in [Calls -> CallRecord] BY DEF Shape
<1>2. stage \in Stages /\ chosen \in Sighting BY UnseenType DEF Stages, Requesting, Shape
<1> HIDE DEF stage, chosen
<1>3. new \in CallRecord BY <1>1, <1>2 DEF CallRecord
<1>4. /\ new.stage = stage /\ new.kind = kind /\ new.chosen = chosen
      /\ new.waits = call[c].waits /\ new.conn = call[c].conn /\ new.verdict = call[c].verdict
  BY <1>1 DEF CallRecord
<1>5. call' = [call EXCEPT ![c] = new] BY <1>1 DEF Begin, stage, chosen
<1> HIDE DEF new
<1>6. /\ Moving(c) /\ call'[c].stage = stage /\ call'[c].kind = kind /\ call'[c].chosen = chosen
  BY <1>1, <1>3, <1>4, <1>5 DEF Moving
<1>7. QED BY <1>6 DEF Begin, stage, chosen

\* c goes to another stage.
Stepping(c) ==
    /\ Moving(c) /\ call'[c].kind = call[c].kind /\ call'[c].chosen = call[c].chosen

LEMMA StageStep ==
    ASSUME Shape, NEW c \in Calls, NEW stage \in Stages, call' = [call EXCEPT ![c].stage = stage]
    PROVE  Stepping(c) /\ call'[c].stage = stage
<1> DEFINE new == [call[c] EXCEPT !.stage = stage]
<1>1. call[c] \in CallRecord /\ call \in [Calls -> CallRecord] BY DEF Shape
<1>2. new \in CallRecord BY <1>1 DEF CallRecord
<1>3. /\ new.stage = stage /\ new.kind = call[c].kind /\ new.chosen = call[c].chosen
      /\ new.waits = call[c].waits /\ new.conn = call[c].conn /\ new.verdict = call[c].verdict
  BY <1>1 DEF CallRecord
<1>4. call' = [call EXCEPT ![c] = new] BY <1>1
<1> HIDE DEF new
<1>5. QED BY <1>1, <1>2, <1>3, <1>4 DEF Moving, Stepping

LEMMA CacheEffect ==
    ASSUME Shape, NEW c \in Calls, ScanFromCache(c)
    PROVE  /\ Stepping(c) /\ call[c].stage = "scan" /\ ~call[c].waits
           /\ call'[c].stage \in {"companion", "adb", "failed"}
           /\ UNCHANGED <<lock, cached, fresh, poisoned, alive, seen, conns, screen, ran, born>>
<1>1. AfterScan(call[c].kind, alive = "yes") \in {"companion", "adb", "failed"} BY AfterTypes
<1>2. AfterScan(call[c].kind, alive = "yes") \in Stages
  BY <1>1 DEF Stages, Requesting, Ended
<1>3. QED BY <1>1, <1>2, StageStep DEF ScanFromCache

LEMMA AdbEffect ==
    ASSUME Shape, NEW c \in Calls, AdbCall(c)
    PROVE  /\ Stepping(c) /\ call[c].stage = "adb" /\ call'[c].stage = "done"
           /\ ran' \in [Calls -> [companion : Nat, adb : Nat]]
           /\ \A d \in Calls : ran'[d].companion = ran[d].companion
           /\ \A d \in Calls : d # c \/ ~Acts(call[c].kind) => ran'[d].adb = ran[d].adb
           /\ UNCHANGED <<lock, cached, fresh, poisoned, alive, seen, conns, screen, born>>
<1>1. "done" \in Stages BY DEF Stages, Ended
<1>2. /\ call[c].stage = "adb" /\ call' = [call EXCEPT ![c].stage = "done"]
      /\ ran' = IF Acts(call[c].kind) THEN [ran EXCEPT ![c].adb = @ + 1] ELSE ran
      /\ UNCHANGED <<lock, cached, fresh, poisoned, alive, seen, conns, screen, born>>
  BY DEF AdbCall
<1>3. Stepping(c) /\ call'[c].stage = "done" BY <1>1, <1>2, StageStep
<1>4. ran \in [Calls -> [companion : Nat, adb : Nat]] BY DEF Shape
<1>5. QED BY <1>2, <1>3, <1>4

-----------------------------------------------------------------------------
(* The phone.                                                              *)

\* What goes back on x: at most this answer.
Says(x, y, rid, code, flag, what) ==
    \/ x.outbox = y.outbox
    \/ /\ x.outbox = Append(y.outbox, [rid |-> rid, code |-> code, flag |-> flag, seen |-> what])
       /\ [rid |-> rid, code |-> code, flag |-> flag, seen |-> what] \in AnswerRecord

\* The steps of a connection's thread: it takes a line, refuses it, is underway,
\* or answers.
Takes(x, y) ==
    /\ y.doing = Nobody /\ y.inbox # <<>>
    /\ x.doing = Head(y.inbox) /\ x.inbox = Tail(y.inbox)
    /\ x.outbox = y.outbox /\ x.mark = y.mark
Refuses(x, y) ==
    /\ y.doing = Nobody /\ y.inbox # <<>> /\ Head(y.inbox).stage = "companion" /\ stopped
    /\ x.doing = Nobody /\ x.inbox = Tail(y.inbox) /\ x.mark = 0
    /\ Says(x, y, Head(y.inbox), "stopped", TRUE, Unseen)
Marks(x, y) ==
    /\ y.doing \in Rids /\ y.mark = 0 /\ x.mark = Generation
    /\ x.doing = y.doing /\ x.inbox = y.inbox /\ x.outbox = y.outbox
Answering(x, y, code, flag, what) ==
    /\ y.doing \in Rids /\ x.doing = Nobody /\ x.mark = 0 /\ x.inbox = y.inbox
    /\ Says(x, y, y.doing, code, flag, what)

\* Only connection k changes, and on it the line that is open or closed.
OnlyConn(k) ==
    /\ conns' \in [ConnIds -> ConnRecord]
    /\ \A j \in ConnIds : j # k => conns'[j] = conns[j]
    /\ conns'[k].up => conns[k].up
    /\ UNCHANGED <<host, screen, born>>

LEMMA ReplyRecord ==
    ASSUME Shape, NEW k \in ConnIds, NEW r \in Rids, NEW code \in Codes, NEW flag \in BOOLEAN,
           NEW what \in Sighting
    PROVE  LET x == Reply(k, r, code, flag, what)
           IN  /\ x \in ConnRecord /\ x.doing = Nobody /\ x.mark = 0
               /\ x.inbox = conns[k].inbox /\ x.up = conns[k].up
               /\ Says(x, conns[k], r, code, flag, what)
<1> DEFINE a == [rid |-> r, code |-> code, flag |-> flag, seen |-> what]
           outbox == IF conns[k].up THEN Append(conns[k].outbox, a) ELSE conns[k].outbox
           x == [conns[k] EXCEPT !.doing = Nobody, !.mark = 0, !.outbox = outbox]
<1>1. conns[k] \in ConnRecord BY DEF Shape
<1>2. a \in AnswerRecord BY DEF AnswerRecord
<1>3. Reply(k, r, code, flag, what) = x BY <1>1 DEF Reply, ConnRecord
<1> HIDE DEF a
<1>4. outbox \in Seq(AnswerRecord) BY <1>1, <1>2 DEF ConnRecord
<1>5. outbox = conns[k].outbox \/ outbox = Append(conns[k].outbox, a) OBVIOUS
<1> HIDE DEF outbox
<1>6. x \in ConnRecord
  <2>1. Nobody \in Rids \cup {Nobody} /\ 0 \in Int OBVIOUS
  <2>2. QED BY <1>1, <1>4, <2>1 DEF ConnRecord
<1>7. /\ x.doing = Nobody /\ x.mark = 0 /\ x.outbox = outbox
      /\ x.inbox = conns[k].inbox /\ x.up = conns[k].up
  BY <1>1 DEF ConnRecord
<1> HIDE DEF x
<1>8. Says(x, conns[k], r, code, flag, what) BY <1>2, <1>5, <1>7 DEF Says, a
<1>9. QED BY <1>3, <1>6, <1>7, <1>8

LEMMA DispatchEffect ==
    ASSUME Shape, NEW k \in ConnIds, Dispatch(k)
    PROVE  /\ OnlyConn(k) /\ ran' = ran
           /\ Takes(conns'[k], conns[k]) \/ Refuses(conns'[k], conns[k])
<1> DEFINE r == Head(conns[k].inbox)
           x == IF Blocked(r) THEN Reply(k, r, "stopped", TRUE, Unseen)
                ELSE [conns[k] EXCEPT !.doing = r]
           y == [x EXCEPT !.inbox = Tail(conns[k].inbox)]
<1>1. conns[k] \in ConnRecord /\ conns \in [ConnIds -> ConnRecord] BY DEF Shape
<1>2. conns[k].doing = Nobody /\ conns[k].inbox # <<>> /\ UNCHANGED <<host, screen, ran, born>>
  BY DEF Dispatch
<1>3. r \in Rids /\ Tail(conns[k].inbox) \in Seq(Rids) BY <1>1, <1>2 DEF ConnRecord
<1>4. "stopped" \in Codes BY DEF Codes
<1>5. x \in ConnRecord /\ x.inbox = conns[k].inbox /\ x.up = conns[k].up
  <2>1. CASE Blocked(r) BY <1>3, <1>4, <2>1, ReplyRecord, UnseenType
  <2>2. CASE ~Blocked(r) BY <1>1, <1>3, <2>2 DEF ConnRecord
  <2>3. QED BY <2>1, <2>2
<1>6. /\ Blocked(r) => /\ x.doing = Nobody /\ x.mark = 0
                       /\ Says(x, conns[k], r, "stopped", TRUE, Unseen)
      /\ ~Blocked(r) => x.doing = r /\ x.outbox = conns[k].outbox /\ x.mark = conns[k].mark
  <2>1. CASE Blocked(r) BY <1>3, <1>4, <2>1, ReplyRecord, UnseenType
  <2>2. CASE ~Blocked(r) BY <1>1, <1>3, <2>2 DEF ConnRecord
  <2>3. QED BY <2>1, <2>2
<1>7. conns' = [conns EXCEPT ![k] = y]
  <2>1. conns' = [conns EXCEPT ![k] = [x EXCEPT !.inbox = Tail(@)]] BY DEF Dispatch
  <2> HIDE DEF x
  <2>2. QED BY <1>1, <1>5, <2>1 DEF ConnRecord
<1> HIDE DEF x, r
<1>8. /\ y \in ConnRecord /\ y.inbox = Tail(conns[k].inbox) /\ y.up = conns[k].up
      /\ y.doing = x.doing /\ y.mark = x.mark /\ y.outbox = x.outbox
  BY <1>3, <1>5 DEF ConnRecord
<1> HIDE DEF y
<1>9. conns'[k] = y /\ OnlyConn(k)
  BY <1>1, <1>2, <1>7, <1>8 DEF OnlyConn
<1>10. CASE Blocked(r)
  <2>1. Refuses(y, conns[k]) BY <1>2, <1>6, <1>8, <1>10 DEF Refuses, Says, Blocked, r
  <2>2. QED BY <1>2, <1>9, <2>1
<1>11. CASE ~Blocked(r)
  <2>1. Takes(y, conns[k]) BY <1>2, <1>6, <1>8, <1>11 DEF Takes, r
  <2>2. QED BY <1>2, <1>9, <2>1
<1>12. QED BY <1>10, <1>11

\* The ways to answer, and what each knows of the request.
Informing(k) ==
    /\ conns[k].doing.stage \in {"check", "scan"} /\ ran' = ran
    /\ Answering(conns'[k], conns[k], "ok", stopped, Unseen)
Observing(k) ==
    /\ Handles(k, {"look"}) /\ conns[k].mark # 0 /\ ran' = ran
    /\ Answering(conns'[k], conns[k], "ok", FALSE, Observed(k))
Outdated(k) ==
    /\ Handles(k, {"text", "node"}) /\ ran' = ran
    /\ Answering(conns'[k], conns[k], "stale", FALSE, Unseen)
Performing(k) ==
    /\ Acting(k)
    /\ \E code \in {"ok", "rejected"} : Answering(conns'[k], conns[k], code, FALSE, Unseen)
    /\ ran' \in {ran, [ran EXCEPT ![conns[k].doing.call].companion = @ + 1]}

LEMMA DoingType ==
    ASSUME Shape, NEW k \in ConnIds, conns[k].doing.stage \in Requesting
    PROVE  /\ conns[k].doing \in Rids /\ conns[k].doing.call \in Calls
           /\ conns[k].doing = [call |-> conns[k].doing.call, stage |-> conns[k].doing.stage]
<1>1. conns[k].doing \in Rids \cup {Nobody} BY DEF Shape, ConnRecord
<1>2. Nobody.stage \notin Requesting BY DEF Nobody, Requesting
<1>3. QED BY <1>1, <1>2 DEF Rids

\* An answer on connection k.
LEMMA AnswerEffect ==
    ASSUME Shape, NEW k \in ConnIds, conns[k].doing.stage \in Requesting,
           NEW code \in Codes, NEW flag \in BOOLEAN, NEW what \in Sighting,
           conns' = [conns EXCEPT ![k] = Reply(k, conns[k].doing, code, flag, what)],
           UNCHANGED <<host, screen, born>>
    PROVE  OnlyConn(k) /\ Answering(conns'[k], conns[k], code, flag, what)
<1> DEFINE x == Reply(k, conns[k].doing, code, flag, what)
<1>1. conns \in [ConnIds -> ConnRecord] BY DEF Shape
<1>2. conns[k].doing \in Rids BY DoingType
<1>3. /\ x \in ConnRecord /\ x.doing = Nobody /\ x.mark = 0
      /\ x.inbox = conns[k].inbox /\ x.up = conns[k].up
      /\ Says(x, conns[k], conns[k].doing, code, flag, what)
  BY <1>2, ReplyRecord
<1> HIDE DEF x
<1>4. conns' = [conns EXCEPT ![k] = x] BY DEF x
<1>5. QED BY <1>1, <1>2, <1>3, <1>4 DEF OnlyConn, Answering

LEMMA MarkEffect ==
    ASSUME Shape, NEW k \in ConnIds, conns[k].doing.stage \in Requesting, conns[k].mark = 0,
           conns' = [conns EXCEPT ![k].mark = Generation],
           UNCHANGED <<host, screen, born>>
    PROVE  OnlyConn(k) /\ Marks(conns'[k], conns[k])
<1>1. conns \in [ConnIds -> ConnRecord] /\ conns[k] \in ConnRecord BY DEF Shape
<1>2. conns[k].doing \in Rids BY DoingType
<1>3. Generation \in Int BY DEF Shape, Generation
<1>4. /\ conns' \in [ConnIds -> ConnRecord]
      /\ \A j \in ConnIds : j # k => conns'[j] = conns[j]
      /\ conns'[k].mark = Generation /\ conns'[k].doing = conns[k].doing
      /\ conns'[k].inbox = conns[k].inbox /\ conns'[k].outbox = conns[k].outbox
      /\ conns'[k].up = conns[k].up
  BY <1>1, <1>3 DEF ConnRecord
<1>5. QED BY <1>2, <1>4 DEF OnlyConn, Marks

LEMMA PhoneEffect ==
    ASSUME Shape, NEW k \in ConnIds, PhoneStep(k)
    PROVE  /\ OnlyConn(k)
           /\ \/ /\ ran' = ran
                 /\ \/ Less(conns'[k], conns[k])
                    \/ Takes(conns'[k], conns[k]) \/ Refuses(conns'[k], conns[k])
                    \/ Marks(conns'[k], conns[k])
              \/ Informing(k) \/ Observing(k) \/ Outdated(k) \/ Performing(k)
<1> USE DEF Codes, Requesting
<1>1. CASE Dispatch(k) BY <1>1, DispatchEffect
<1>2. CASE Inform(k)
  <2>1. /\ conns[k].doing.stage \in {"check", "scan"} /\ UNCHANGED <<host, screen, ran, born>>
        /\ conns' = [conns EXCEPT ![k] = Reply(k, conns[k].doing, "ok", stopped, Unseen)]
    BY <1>2 DEF Inform
  <2>2. stopped \in BOOLEAN BY DEF Shape
  <2>3. OnlyConn(k) /\ Answering(conns'[k], conns[k], "ok", stopped, Unseen)
    BY <2>1, <2>2, UnseenType, AnswerEffect
  <2>4. QED BY <2>1, <2>3 DEF Informing
<1>3. CASE Observe(k)
  <2>1. Handles(k, {"look"}) /\ UNCHANGED <<host, screen, ran, born>> BY <1>3 DEF Observe
  <2>2. CASE conns[k].mark = 0
    <3>1. conns' = [conns EXCEPT ![k].mark = Generation]
      BY <1>3, <2>2 DEF Observe, Shape
    <3>2. QED BY <2>1, <2>2, <3>1, MarkEffect DEF Handles
  <2>3. CASE conns[k].mark # 0
    <3>1. conns' = [conns EXCEPT ![k] = Reply(k, conns[k].doing, "ok", FALSE, Observed(k))]
      BY <1>3, <2>3 DEF Observe
    <3>2. Observed(k) \in Sighting
      <4>1. conns[k].mark \in Int BY DEF Shape, ConnRecord
      <4>2. QED BY <4>1 DEF Observed, Sighting, Shape
    <3>3. OnlyConn(k) /\ Answering(conns'[k], conns[k], "ok", FALSE, Observed(k))
      BY <2>1, <3>1, <3>2, AnswerEffect DEF Handles
    <3>4. QED BY <2>1, <2>3, <3>3 DEF Observing
  <2>4. QED BY <2>2, <2>3
<1>4. CASE Verify(k)
  <2>1. /\ Handles(k, {"text", "node"}) /\ UNCHANGED <<host, screen, ran, born>>
        /\ conns[k].mark = 0
    BY <1>4 DEF Verify
  <2>2. CASE StaleFor(conns[k].doing.call)
    <3>1. conns' = [conns EXCEPT ![k] = Reply(k, conns[k].doing, "stale", FALSE, Unseen)]
      BY <1>4, <2>2 DEF Verify
    <3>2. OnlyConn(k) /\ Answering(conns'[k], conns[k], "stale", FALSE, Unseen)
      BY <2>1, <3>1, UnseenType, AnswerEffect DEF Handles
    <3>3. QED BY <2>1, <3>2 DEF Outdated
  <2>3. CASE ~StaleFor(conns[k].doing.call)
    <3>1. conns' = [conns EXCEPT ![k].mark = Generation]
      BY <1>4, <2>3 DEF Verify, Shape
    <3>2. QED BY <2>1, <3>1, MarkEffect DEF Handles
  <2>4. QED BY <2>2, <2>3
<1>5. CASE Perform(k)
  <2>1. Acting(k) /\ UNCHANGED <<host, screen, born>> BY <1>5 DEF Perform
  <2>2. PICK code \in {"ok", "rejected"} :
          /\ conns' = [conns EXCEPT ![k] = Reply(k, conns[k].doing, code, FALSE, Unseen)]
          /\ ran' \in {ran, [ran EXCEPT ![conns[k].doing.call].companion = @ + 1]}
    BY <1>5 DEF Perform
  <2>3. OnlyConn(k) /\ Answering(conns'[k], conns[k], code, FALSE, Unseen)
    BY <2>1, <2>2, UnseenType, AnswerEffect DEF Acting, Handles
  <2>4. QED BY <2>1, <2>2, <2>3 DEF Performing
<1>6. CASE IdleClose(k)
  <2>1. conns' = [conns EXCEPT ![k].up = FALSE] /\ UNCHANGED <<host, screen, ran, born>>
    BY <1>6 DEF IdleClose
  <2>2. conns \in [ConnIds -> ConnRecord] /\ conns[k] \in ConnRecord BY DEF Shape
  <2>3. /\ conns' \in [ConnIds -> ConnRecord]
        /\ \A j \in ConnIds : j # k => conns'[j] = conns[j]
        /\ conns'[k].mark = conns[k].mark /\ conns'[k].doing = conns[k].doing
        /\ conns'[k].inbox = conns[k].inbox /\ conns'[k].outbox = conns[k].outbox
        /\ conns'[k].up = FALSE
    BY <2>1, <2>2 DEF ConnRecord
  <2>4. OnlyConn(k) BY <2>1, <2>3 DEF OnlyConn
  <2>5. Less(conns'[k], conns[k]) BY <2>3 DEF Less
  <2>6. QED BY <2>1, <2>4, <2>5
<1>7. QED BY <1>1, <1>2, <1>3, <1>4, <1>5, <1>6 DEF PhoneStep

-----------------------------------------------------------------------------
(* The companion dies.                                                      *)

ActingFor(c) == {k \in ConnIds : Acting(k) /\ conns[k].doing.call = c}

LEMMA DiesEffect ==
    ASSUME Shape, CompanionDies
    PROVE  /\ Shrunk(conns') /\ running' = FALSE
           /\ \A k \in ConnIds : /\ ~conns'[k].up /\ conns'[k].inbox = <<>>
                                 /\ conns'[k].doing = Nobody /\ conns'[k].mark = 0
           /\ ran' \in [Calls -> [companion : Nat, adb : Nat]]
           /\ \A c \in Calls :
                /\ ran'[c].adb = ran[c].adb
                /\ ActingFor(c) = {} => ran'[c].companion = ran[c].companion
                /\ (\E k \in ConnIds : ActingFor(c) \subseteq {k}) =>
                        ran'[c].companion <= ran[c].companion + 1
           /\ UNCHANGED <<host, stopped, tree, life, origin, stops, born>>
<1>1. /\ running' = FALSE /\ UNCHANGED <<host, stopped, tree, life, origin, stops, born>>
      /\ conns' = [k \in ConnIds |-> [Closed EXCEPT !.outbox = conns[k].outbox]]
  BY DEF CompanionDies
<1>2. PICK done \in SUBSET {k \in ConnIds : Acting(k)} :
        ran' = [c \in Calls |-> [ran[c] EXCEPT !.companion =
                    @ + Cardinality({k \in done : conns[k].doing.call = c})]]
  BY DEF CompanionDies
<1>3. ASSUME NEW k \in ConnIds
      PROVE  /\ conns'[k] \in ConnRecord /\ Less(conns'[k], conns[k]) /\ ~conns'[k].up
             /\ conns'[k].inbox = <<>> /\ conns'[k].doing = Nobody /\ conns'[k].mark = 0
  <2> DEFINE x == [Closed EXCEPT !.outbox = conns[k].outbox]
  <2>1. conns'[k] = x BY <1>1
  <2>2. conns[k] \in ConnRecord BY DEF Shape
  <2>3. x \in ConnRecord BY <2>2, ClosedRecord DEF ConnRecord
  <2>4. /\ ~x.up /\ x.inbox = <<>> /\ x.doing = Nobody /\ x.mark = 0
        /\ x.outbox = conns[k].outbox
    BY DEF Closed
  <2> HIDE DEF x
  <2>5. Less(x, conns[k]) BY <2>4 DEF Less
  <2>6. QED BY <2>1, <2>3, <2>4, <2>5
<1>4. Shrunk(conns') BY <1>1, <1>3 DEF Shrunk
<1>5. ASSUME NEW c \in Calls
      PROVE  /\ ran'[c] \in [companion : Nat, adb : Nat] /\ ran'[c].adb = ran[c].adb
             /\ ActingFor(c) = {} => ran'[c].companion = ran[c].companion
             /\ (\E k \in ConnIds : ActingFor(c) \subseteq {k}) =>
                    ran'[c].companion <= ran[c].companion + 1
  <2> DEFINE S == {k \in done : conns[k].doing.call = c}
  <2>1. IsFiniteSet(ConnIds) BY LinkConstants, FS_Interval DEF ConnIds
  <2>2. S \subseteq ActingFor(c) /\ S \subseteq ConnIds BY DEF ActingFor
  <2>3. IsFiniteSet(S) /\ Cardinality(S) \in Nat
    BY <2>1, <2>2, FS_Subset, FS_CardinalityType
  <2>4. ran[c] \in [companion : Nat, adb : Nat] BY DEF Shape
  <2>5. ran'[c] = [ran[c] EXCEPT !.companion = ran[c].companion + Cardinality(S)]
    BY <1>2
  <2>6. S = {} => Cardinality(S) = 0 BY FS_EmptySet
  <2>7. ASSUME NEW k \in ConnIds, ActingFor(c) \subseteq {k} PROVE Cardinality(S) <= 1
    <3>1. S = {} \/ S = {k} BY <2>2, <2>7
    <3>2. Cardinality({k}) = 1 BY FS_Singleton
    <3>3. CASE S = {} BY <2>6, <3>3
    <3>4. CASE S = {k}
      <4> HIDE DEF S
      <4>1. Cardinality(S) = 1 BY <3>2, <3>4
      <4>2. QED BY <4>1
    <3>5. QED BY <3>1, <3>3, <3>4
  <2>8. ActingFor(c) = {} => Cardinality(S) = 0 BY <2>2, <2>6
  <2> HIDE DEF S
  <2> DEFINE n == Cardinality(S)
  <2>9. n \in Nat BY <2>3
  <2>10. ran'[c] = [ran[c] EXCEPT !.companion = ran[c].companion + n] BY <2>5
  <2>11. (ActingFor(c) = {} => n = 0) /\ ((\E k \in ConnIds : ActingFor(c) \subseteq {k}) => n <= 1)
    BY <2>7, <2>8
  <2> HIDE DEF n
  <2>12. ran'[c] \in [companion : Nat, adb : Nat] /\ ran'[c].adb = ran[c].adb
         /\ ran'[c].companion = ran[c].companion + n /\ ran[c].companion \in Nat
    BY <2>4, <2>9, <2>10
  <2>13. QED BY <2>9, <2>11, <2>12
<1>6. ran' \in [Calls -> [companion : Nat, adb : Nat]] BY <1>2, <1>5
<1>7. QED BY <1>1, <1>3, <1>4, <1>5, <1>6

-----------------------------------------------------------------------------
(* Shape is kept.                                                          *)

\* The four ways of a request to go on, together.
Asks(c) == StartRequest(c) \/ ReadNothing(c) \/ TimeOut(c) \/ ReadOwn(c)

\* What a request's end says: nothing, or what an answer to it says.
Heard(c, code, flag, what) ==
    \/ code \in {"exception", "timeout"} /\ flag = FALSE /\ what = Unseen
    \/ \E k \in ConnIds : \E n \in DOMAIN conns[k].outbox :
         LET a == conns[k].outbox[n]
         IN  a.rid = Rid(c) /\ a.code = code /\ a.flag = flag /\ a.seen = what

LEMMA AskEffect ==
    ASSUME Shape, LineInv, NEW c \in Calls, Asks(c)
    PROVE  /\ UNCHANGED <<screen, ran, born>> /\ call[c].stage \in Requesting
           /\ \E cs : /\ Shrunk(cs)
                      /\ \/ /\ ~call[c].waits \/ ReadOnly(c)
                            /\ \E k \in ConnIds : Sending(c, k, cs)
                         \/ /\ conns' = cs
                            /\ \E code \in Codes, flag \in BOOLEAN, what \in Sighting :
                                Heard(c, code, flag, what) /\ Ending(c, code, flag, what)
<1> USE UnseenType DEF Codes
<1>1. CASE StartRequest(c)
  <2>1. \A k \in ConnIds : Less(conns[k], conns[k]) BY DEF Less
  <2>2. Shrunk(conns) BY <2>1 DEF Shrunk, Shape
  <2>3. QED BY <1>1, <2>2, StartEffect DEF Heard
<1>2. CASE ReadNothing(c) BY <1>2, ReadNothingEffect DEF Heard
<1>3. CASE TimeOut(c) BY <1>3, TimeOutEffect DEF Heard
<1>4. CASE ReadOwn(c)
  <2>1. PICK n \in DOMAIN conns[call[c].conn].outbox :
          LET a == conns[call[c].conn].outbox[n]
          IN  /\ a \in AnswerRecord /\ a.rid = Rid(c)
              /\ Ending(c, a.code, a.flag, a.seen)
    BY <1>4, ReadOwnEffect
  <2> DEFINE a == conns[call[c].conn].outbox[n]
  <2>2. a.code \in Codes /\ a.flag \in BOOLEAN /\ a.seen \in Sighting
    BY <2>1 DEF AnswerRecord
  <2>3. /\ UNCHANGED <<screen, ran, born>> /\ call[c].stage \in Requesting
        /\ Shrunk(conns') /\ call[c].conn \in ConnIds
    BY <1>4, ReadOwnEffect
  <2>4. Heard(c, a.code, a.flag, a.seen) BY <2>1, <2>3 DEF Heard
  <2>5. QED BY <2>1, <2>2, <2>3, <2>4
<1>5. QED BY <1>1, <1>2, <1>3, <1>4 DEF Asks

\* The environment's steps.
Quietly ==
    ConnGrowsOld \/ PingExpires \/ TreeChanges \/ (\E flag \in BOOLEAN : SetStopped(flag)) \/ CompanionStarts

LEMMA NextCases ==
    ASSUME [Next]_vars
    PROVE  \/ \E c \in Calls, kind \in Kinds : Begin(c, kind)
           \/ \E c \in Calls : Asks(c)
           \/ \E c \in Calls : ScanFromCache(c)
           \/ \E c \in Calls : AdbCall(c)
           \/ \E k \in ConnIds : PhoneStep(k)
           \/ CompanionDies \/ Quietly \/ UNCHANGED vars
BY DEF Next, HostStep, Asks, Quietly

LEMMA StepShape == ASSUME Shape, LineInv, [Next]_vars PROVE Shape'
<1>1. ASSUME NEW c \in Calls, NEW kind \in Kinds, Begin(c, kind) PROVE Shape'
  BY <1>1, BeginEffect DEF Shape, Moving, screen
<1>2. ASSUME NEW c \in Calls, Asks(c) PROVE Shape'
  <2>1. UNCHANGED <<screen, ran, born>> BY <1>2, AskEffect
  <2>2. call' \in [Calls -> CallRecord] /\ conns' \in [ConnIds -> ConnRecord] /\ seen' \in Sighting
        /\ lock' \in Calls \cup {NoCall}
    BY <1>2, AskEffect DEF Sending, Ending, Shrunk, Shape
  <2>3. cached' \in ConnIds \cup {0} /\ poisoned' \in BOOLEAN
    BY <1>2, StartEffect, ReadNothingEffect, TimeOutEffect, ReadOwnEffect DEF Asks, Shape, Kept, Dropped
  <2>4. QED BY <2>1, <2>2, <2>3 DEF Shape, screen
<1>3. ASSUME NEW c \in Calls, ScanFromCache(c) PROVE Shape'
  BY <1>3, CacheEffect DEF Shape, Stepping, Moving, screen
<1>4. ASSUME NEW c \in Calls, AdbCall(c) PROVE Shape'
  BY <1>4, AdbEffect DEF Shape, Stepping, Moving, screen
<1>5. ASSUME NEW k \in ConnIds, PhoneStep(k) PROVE Shape'
  <2>1. OnlyConn(k) BY <1>5, PhoneEffect
  <2>2. ran' \in [Calls -> [companion : Nat, adb : Nat]]
    <3>1. ran' = ran \/ ran' = [ran EXCEPT ![conns[k].doing.call].companion = @ + 1]
      BY <1>5, PhoneEffect DEF Informing, Observing, Outdated, Performing
    <3>2. ran \in [Calls -> [companion : Nat, adb : Nat]] BY DEF Shape
    <3>3. QED BY <3>1, <3>2
  <2>3. QED BY <2>1, <2>2 DEF Shape, OnlyConn, host, screen
<1>6. CASE CompanionDies
  BY <1>6, DiesEffect DEF Shape, Shrunk, host
<1>7. CASE Quietly
  <2>1. UNCHANGED <<call, conns, lock, cached, poisoned, seen, ran, life>> \/ CompanionStarts
    BY <1>7 DEF Quietly, ConnGrowsOld, PingExpires, TreeChanges, SetStopped, host, screen
  <2>2. CASE CompanionStarts BY <2>2 DEF CompanionStarts, Shape, host
  <2>3. CASE UNCHANGED <<call, conns, lock, cached, poisoned, seen, ran, life>>
    <3>1. /\ stopped' \in BOOLEAN /\ running' \in BOOLEAN /\ tree' \in Int /\ origin' \in Int
          /\ born' \subseteq Calls
      <4>1. CASE TreeChanges BY <4>1 DEF TreeChanges, Shape
      <4>2. ASSUME NEW flag \in BOOLEAN, SetStopped(flag)
            PROVE  /\ stopped' \in BOOLEAN /\ UNCHANGED <<running, tree, origin>>
                   /\ born' \subseteq born
        BY <4>2 DEF SetStopped
      <4>3. CASE ConnGrowsOld \/ PingExpires \/ CompanionStarts
        BY <4>3 DEF ConnGrowsOld, PingExpires, CompanionStarts, Shape, host, screen
      <4>4. QED BY <1>7, <4>1, <4>2, <4>3 DEF Quietly, Shape
    <3>2. QED BY <2>3, <3>1 DEF Shape
  <2>4. QED BY <2>1, <2>2, <2>3
<1>8. CASE UNCHANGED vars BY <1>8 DEF vars, host, screen, Shape
<1>9. QED BY <1>1, <1>2, <1>3, <1>4, <1>5, <1>6, <1>7, <1>8, NextCases

-----------------------------------------------------------------------------
(* LineInv is kept.                                                        *)

LEMMA WaitingHoldsLock ==
    ASSUME Shape, LineInv, NEW c \in Calls
    PROVE  /\ lock = NoCall => ~call[c].waits
           /\ \A d \in Calls : call[c].waits /\ call[d].waits => d = c
BY CallNotNobody DEF LineInv

\* Nothing but this answer is sent back.
LEMMA OneAnswer ==
    ASSUME NEW x, NEW y, NEW r, NEW code, NEW flag, NEW what,
           y.outbox = <<>>, Says(x, y, r, code, flag, what)
    PROVE  x.outbox = <<>> \/ (Len(x.outbox) = 1 /\ x.outbox[1].rid = r)
<1> DEFINE a == [rid |-> r, code |-> code, flag |-> flag, seen |-> what]
<1>1. CASE x.outbox = y.outbox BY <1>1
<1>2. CASE x.outbox = Append(y.outbox, a)
  <2>1. a.rid = r OBVIOUS
  <2> HIDE DEF a
  <2>2. Append(<<>>, a) = <<a>> OBVIOUS
  <2>3. x.outbox = <<a>> BY <1>2, <2>2
  <2>4. QED BY <2>1, <2>3
<1>3. QED BY <1>1, <1>2 DEF Says

\* Whatever the phone does with a quiet connection, or one with a single request,
\* it stays such a connection.
LEMMA PhoneOnly ==
    ASSUME Shape, NEW k \in ConnIds, PhoneStep(k)
    PROVE  /\ Quiet(conns[k]) => Quiet(conns'[k])
           /\ \A r \in Rids : Only(conns[k], r) => Only(conns'[k], r)
<1> DEFINE x == conns'[k]
           y == conns[k]
<1>1. y \in ConnRecord BY DEF Shape
<1>2. x \in ConnRecord BY PhoneEffect DEF OnlyConn
<1>3. Nobody \notin Rids BY NobodyIsNone
<1>4. CASE Less(x, y) BY <1>1, <1>2, <1>4, LessQuiet
<1>5. CASE Takes(x, y)
  <2>1. ~Quiet(y) BY <1>5 DEF Takes, Quiet
  <2>2. ASSUME NEW r \in Rids, Only(y, r) PROVE Only(x, r)
    <3>1. y.inbox = <<r>> /\ y.outbox = <<>> BY <1>5, <2>2, <1>3 DEF Takes, Only, Quiet
    <3>2. x.doing = r /\ x.inbox = <<>> /\ x.outbox = <<>> BY <1>5, <3>1 DEF Takes
    <3>3. QED BY <3>2 DEF Only
  <2>3. QED BY <2>1, <2>2
<1>6. CASE Refuses(x, y)
  <2>1. ~Quiet(y) BY <1>6 DEF Refuses, Quiet
  <2>2. ASSUME NEW r \in Rids, Only(y, r) PROVE Only(x, r)
    <3>1. y.inbox = <<r>> /\ y.outbox = <<>> BY <1>6, <2>2, <1>3 DEF Refuses, Only, Quiet
    <3>2. Head(y.inbox) = r /\ Tail(y.inbox) = <<>> BY <3>1
    <3>3. x.doing = Nobody /\ x.inbox = <<>> /\ Says(x, y, r, "stopped", TRUE, Unseen)
      BY <1>6, <3>1, <3>2 DEF Refuses
    <3> HIDE DEF x, y
    <3>4. x.outbox = <<>> \/ (Len(x.outbox) = 1 /\ x.outbox[1].rid = r)
      BY <3>1, <3>3, OneAnswer
    <3>5. QED BY <3>3, <3>4 DEF Only, Quiet
  <2>3. QED BY <2>1, <2>2
<1>7. CASE Marks(x, y) BY <1>7 DEF Marks, Only, Quiet
<1>8. ASSUME NEW code, NEW flag, NEW what, Answering(x, y, code, flag, what)
      PROVE  ~Quiet(y) /\ \A r \in Rids : Only(y, r) => Only(x, r)
  <2>1. ~Quiet(y) BY <1>3, <1>8 DEF Answering, Quiet
  <2>2. ASSUME NEW r \in Rids, Only(y, r) PROVE Only(x, r)
    <3>1. y.doing = r /\ y.inbox = <<>> /\ y.outbox = <<>>
      BY <1>3, <1>8, <2>2 DEF Answering, Only, Quiet
    <3>2. x.doing = Nobody /\ x.inbox = <<>> /\ Says(x, y, r, code, flag, what)
      BY <1>8, <3>1 DEF Answering
    <3>3. x.outbox = <<>> \/ (Len(x.outbox) = 1 /\ x.outbox[1].rid = r)
      BY <3>1, <3>2, OneAnswer
    <3>4. QED BY <3>2, <3>3 DEF Only, Quiet
  <2>3. QED BY <2>1, <2>2
<1>9. QED
  BY <1>4, <1>5, <1>6, <1>7, <1>8, PhoneEffect
     DEF Informing, Observing, Outdated, Performing

\* No call waits any more, and what is kept is readable only if it is quiet.
LEMMA EndedLine ==
    ASSUME Shape, LineInv, NEW c \in Calls, NEW code, NEW flag, NEW what,
           Ending(c, code, flag, what), call[c].waits \/ lock = NoCall,
           cached' = 0 => ~poisoned',
           cached' # 0 /\ ~poisoned' => Quiet(conns'[cached'])
    PROVE  LineInv'
<1>1. \A d \in Calls : ~call'[d].waits
  BY WaitingHoldsLock DEF Ending
<1>2. lock' = NoCall BY DEF Ending
<1>3. QED BY <1>1, <1>2, CallNotNobody DEF LineInv

\* One call waits, on a connection that has its request alone.
LEMMA SentLine ==
    ASSUME Shape, LineInv, NEW c \in Calls, NEW cs, NEW k \in ConnIds, Sending(c, k, cs),
           cs \in [ConnIds -> ConnRecord],
           call[c].waits \/ lock = NoCall, call[c].stage \in Requesting,
           cached' = 0 => ~poisoned', cached' \in {0, k},
           ~(Unreadable(k)') => Quiet(cs[k])
    PROVE  LineInv'
<1>1. \A d \in Calls : call'[d].waits <=> d = c
  BY WaitingHoldsLock DEF Sending
<1>2. lock' = c /\ c # NoCall BY CallNotNobody DEF Sending
<1>3. call'[c].conn = k /\ call'[c].stage = call[c].stage BY DEF Sending
<1>4. Rid(c)' = Rid(c) BY <1>3 DEF Rid
<1>5. ASSUME ~(Unreadable(k)') PROVE Only(conns'[k], Rid(c))
  <2>1. cs[k] \in ConnRecord /\ Quiet(cs[k]) BY <1>5
  <2>2. Append(<<>>, Rid(c)) = <<Rid(c)>> OBVIOUS
  <2>3. QED BY <2>1, <2>2 DEF Sending, Only, Quiet
<1>6. QED BY <1>1, <1>2, <1>3, <1>4, <1>5 DEF LineInv, Unreadable

LEMMA AskLine == ASSUME Shape, LineInv, NEW c \in Calls, Asks(c) PROVE LineInv'
<1>1. Quiet(Closed) BY DEF Quiet, Closed
<1>2. CASE StartRequest(c)
  <2>1. call[c].stage \in Requesting /\ lock = NoCall BY <1>2, StartEffect
  <2>2. CASE cached \in ConnIds /\ Kept /\ Sending(c, cached, conns)
    <3>1. cached # 0 BY <2>2, ConnIdNotZero
    <3>2. ~(Unreadable(cached)') => Quiet(conns[cached])
      BY <2>1, <2>2, <3>1 DEF Unreadable, Kept, LineInv
    <3>3. cached' = cached /\ poisoned' = poisoned BY <2>2 DEF Kept
    <3>4. conns \in [ConnIds -> ConnRecord] BY DEF Shape
    <3>5. QED BY <2>1, <2>2, <3>1, <3>2, <3>3, <3>4, SentLine
  <2>3. ASSUME NEW cs, Shrunk(cs), Dropped, NEW k \in ConnIds, cs[k] = Closed, Sending(c, k, cs)
        PROVE  LineInv'
    BY <1>1, <2>1, <2>3, SentLine DEF Dropped, Shrunk
  <2>4. ASSUME Dropped, Ending(c, "exception", FALSE, Unseen) PROVE LineInv'
    BY <2>1, <2>4, EndedLine DEF Dropped
  <2>5. QED BY <1>2, <2>2, <2>3, <2>4, StartEffect
<1>3. CASE ReadNothing(c)
  <2>1. call[c].stage \in Requesting /\ call[c].waits BY <1>3, ReadNothingEffect
  <2>2. ASSUME NEW cs, Shrunk(cs), Dropped, NEW k \in ConnIds, cs[k] = Closed, Sending(c, k, cs)
        PROVE  LineInv'
    BY <1>1, <2>1, <2>2, SentLine DEF Dropped, Shrunk
  <2>3. ASSUME Dropped, NEW code, Ending(c, code, FALSE, Unseen) PROVE LineInv'
    BY <2>1, <2>3, EndedLine DEF Dropped
  <2>4. QED BY <1>3, <2>2, <2>3, ReadNothingEffect
<1>4. CASE TimeOut(c)
  <2>1. call[c].waits /\ Ending(c, "exception", FALSE, Unseen) /\ cached' = cached
        /\ poisoned' = (poisoned \/ call[c].conn = cached)
    BY <1>4, TimeOutEffect
  <2>2. cached \in {0, call[c].conn} /\ call[c].conn # 0
    BY <2>1, ConnIdNotZero DEF LineInv
  <2>3. cached = 0 => ~poisoned BY DEF LineInv
  <2>4. CASE cached = 0
    <3>1. cached' = 0 /\ ~poisoned' BY <2>1, <2>2, <2>3, <2>4
    <3>2. QED BY <2>1, <3>1, EndedLine
  <2>5. CASE cached # 0
    <3>1. cached' # 0 /\ poisoned' BY <2>1, <2>2, <2>5
    <3>2. QED BY <2>1, <3>1, EndedLine
  <2>6. QED BY <2>4, <2>5
<1>5. CASE ReadOwn(c)
  <2>1. /\ call[c].waits /\ cached' = call[c].conn /\ call[c].conn \in ConnIds
        /\ Quiet(conns'[call[c].conn])
        /\ \E code, flag, what : Ending(c, code, flag, what)
    BY <1>5, ReadOwnEffect
  <2>2. QED BY <2>1, ConnIdNotZero, EndedLine
<1>6. QED BY <1>2, <1>3, <1>4, <1>5 DEF Asks

\* A step of a call that does not wait.
LEMMA MoveLine ==
    ASSUME Shape, LineInv, NEW c \in Calls, Moving(c), ~call[c].waits,
           UNCHANGED <<lock, cached, poisoned, conns>>
    PROVE  LineInv'
<1>1. \A d \in Calls : call'[d].waits = call[d].waits BY DEF Moving
<1>2. \A d \in Calls : call[d].waits => call'[d] = call[d] BY DEF Moving
<1>3. \A d \in Calls : call[d].waits => Rid(d)' = Rid(d) BY <1>2 DEF Rid
<1>4. QED BY <1>1, <1>2, <1>3 DEF LineInv, Unreadable

LEMMA StepLine == ASSUME Shape, LineInv, [Next]_vars PROVE LineInv'
<1>1. ASSUME NEW c \in Calls, NEW kind \in Kinds, Begin(c, kind) PROVE LineInv'
  <2>1. Moving(c) /\ call[c].stage = "idle" /\ UNCHANGED <<lock, cached, poisoned, conns>>
    BY <1>1, BeginEffect
  <2>2. ~call[c].waits BY <2>1 DEF LineInv, Requesting
  <2>3. QED BY <2>1, <2>2, MoveLine
<1>2. ASSUME NEW c \in Calls, ScanFromCache(c) PROVE LineInv'
  BY <1>2, CacheEffect, MoveLine DEF Stepping
<1>3. ASSUME NEW c \in Calls, AdbCall(c) PROVE LineInv'
  <2>1. Moving(c) /\ call[c].stage = "adb" /\ UNCHANGED <<lock, cached, poisoned, conns>>
    BY <1>3, AdbEffect DEF Stepping
  <2>2. ~call[c].waits BY <2>1 DEF LineInv, Requesting
  <2>3. QED BY <2>1, <2>2, MoveLine
<1>4. ASSUME NEW k \in ConnIds, PhoneStep(k) PROVE LineInv'
  <2>1. OnlyConn(k) BY <1>4, PhoneEffect
  <2>2. UNCHANGED <<lock, cached, poisoned, call>> BY <2>1 DEF OnlyConn, host
  <2>3. \A j \in ConnIds : Quiet(conns[j]) => Quiet(conns'[j])
    BY <1>4, <2>1, PhoneOnly DEF OnlyConn
  <2>4. \A j \in ConnIds, r \in Rids : Only(conns[j], r) => Only(conns'[j], r)
    BY <1>4, <2>1, PhoneOnly DEF OnlyConn
  <2>5. \A c \in Calls : call[c].waits => Rid(c) \in Rids /\ Rid(c)' = Rid(c)
    BY <2>2, RidType DEF LineInv, Rid
  <2>6. cached # 0 => cached \in ConnIds BY DEF Shape
  <2>7. QED BY <2>2, <2>3, <2>4, <2>5, <2>6 DEF LineInv, Unreadable
<1>5. CASE CompanionDies
  <2>1. Shrunk(conns') /\ UNCHANGED <<lock, cached, poisoned, call>>
    BY <1>5, DiesEffect DEF host
  <2>2. \A j \in ConnIds : conns[j] \in ConnRecord /\ conns'[j] \in ConnRecord /\ Less(conns'[j], conns[j])
    BY <2>1 DEF Shrunk, Shape
  <2>3. \A j \in ConnIds : Quiet(conns[j]) => Quiet(conns'[j]) BY <2>2, LessQuiet
  <2>4. \A j \in ConnIds : \A r : Only(conns[j], r) => Only(conns'[j], r) BY <2>2, LessQuiet
  <2>5. \A c \in Calls : Rid(c)' = Rid(c) BY <2>1 DEF Rid
  <2>6. cached # 0 => cached \in ConnIds BY DEF Shape
  <2>7. QED BY <2>1, <2>3, <2>4, <2>5, <2>6 DEF LineInv, Unreadable
<1>6. CASE Quietly \/ UNCHANGED vars
  <2>1. UNCHANGED <<lock, cached, poisoned, call, conns>>
    BY <1>6 DEF Quietly, ConnGrowsOld, PingExpires, TreeChanges, SetStopped, CompanionStarts,
                host, vars
  <2>2. \A c \in Calls : Rid(c)' = Rid(c) BY <2>1 DEF Rid
  <2>3. QED BY <2>1, <2>2 DEF LineInv, Unreadable
<1>7. QED BY <1>1, <1>2, <1>3, <1>4, <1>5, <1>6, AskLine, NextCases

LEMMA InitLink == Init => Shape /\ LineInv
<1> SUFFICES ASSUME Init PROVE Shape /\ LineInv OBVIOUS
<1>1. \A c \in Calls : ~call[c].waits BY DEF Init
<1>2. call \in [Calls -> CallRecord]
  BY UnseenType DEF Init, CallRecord, Stages, Codes
<1>3. conns \in [ConnIds -> ConnRecord] BY ClosedRecord DEF Init
<1>4. ran \in [Calls -> [companion : Nat, adb : Nat]] BY DEF Init
<1>5. Shape
  <2>1. lock \in Calls \cup {NoCall} /\ cached \in ConnIds \cup {0} BY DEF Init
  <2>2. poisoned \in BOOLEAN /\ stopped \in BOOLEAN /\ running \in BOOLEAN BY DEF Init
  <2>3. seen \in Sighting /\ tree \in Int /\ origin \in Int /\ life \in Int /\ born \subseteq Calls
    BY UnseenType DEF Init
  <2>4. QED BY <1>2, <1>3, <1>4, <2>1, <2>2, <2>3 DEF Shape
<1>6. LineInv BY <1>1, CallNotNobody DEF Init, LineInv
<1>7. QED BY <1>5, <1>6

THEOREM LineInvariant == Spec => [](Shape /\ LineInv)
<1>1. (Shape /\ LineInv) /\ [Next]_vars => (Shape /\ LineInv)'
  BY StepShape, StepLine
<1>2. QED BY <1>1, InitLink, PTL DEF Spec

\* Whatever times out, dies or comes late: as long as the kept connection can be
\* read, no line on it answers another request than the one that waits.
THEOREM AnswersAreOwn == Spec => []OnlyOwnAnswersArrive
<1>1. Shape /\ LineInv => OnlyOwnAnswersArrive
  <2> SUFFICES ASSUME Shape, LineInv, NEW c \in Calls, call[c].waits,
                      ~Unreadable(call[c].conn), NEW n \in DOMAIN conns[call[c].conn].outbox
               PROVE  conns[call[c].conn].outbox[n].rid = Rid(c)
    BY DEF OnlyOwnAnswersArrive
  <2>1. call[c].conn \in ConnIds /\ Only(conns[call[c].conn], Rid(c)) BY DEF LineInv
  <2>2. conns[call[c].conn].outbox \in Seq(AnswerRecord) BY <2>1 DEF Shape, ConnRecord
  <2>3. conns[call[c].conn].outbox # <<>> BY <2>2
  <2>4. Len(conns[call[c].conn].outbox) = 1 /\ conns[call[c].conn].outbox[1].rid = Rid(c)
    BY <2>1, <2>3 DEF Only, Quiet
  <2>5. n = 1 BY <2>2, <2>4
  <2>6. QED BY <2>4, <2>5
<1>2. QED BY <1>1, LineInvariant, PTL

-----------------------------------------------------------------------------
(* The tree a node action finds.                                            *)

\* What an observation says is true of the time it was made: its generation was
\* no newer than its tree, counted from where its process started.
Real(s) ==
    \/ s = Unseen
    \/ /\ s.gen >= 1 /\ s.life <= life
       /\ s.life = life => s.tree <= tree /\ s.gen <= s.tree - origin + 1

\* The generation a handler took is one the running process has had, and a dead
\* process holds nothing.
Sound(x) ==
    /\ \A n \in DOMAIN x.outbox : Real(x.outbox[n].seen)
    /\ x.doing = Nobody => x.mark = 0
    /\ x.mark # 0 => x.mark \in 1..Generation
    /\ ~running => ~x.up /\ x.inbox = <<>> /\ x.doing = Nobody

TreeInv ==
    /\ origin <= tree /\ Real(seen)
    /\ \A c \in Calls : Real(call[c].chosen) /\ (call[c].kind = "node" => call[c].chosen # Unseen)
    /\ \A k \in ConnIds : Sound(conns[k])

LEMMA LessSound ==
    ASSUME NEW x \in ConnRecord, NEW y \in ConnRecord, Less(x, y), Sound(y)
    PROVE  Sound(x)
<1>1. \A n \in DOMAIN x.outbox : Real(x.outbox[n].seen)
  <2>1. x.outbox = y.outbox \/ x.outbox = <<>> BY DEF Less
  <2>2. QED BY <2>1 DEF Sound
<1>2. x.doing = Nobody => x.mark = 0 BY DEF Less, Sound
<1>3. x.mark # 0 => x.mark \in 1..Generation BY DEF Less, Sound
<1>4. ~running => ~x.up /\ x.inbox = <<>> /\ x.doing = Nobody BY DEF Less, Sound
<1>5. QED BY <1>1, <1>2, <1>3, <1>4 DEF Sound

\* An answer whose observation is real keeps a connection sound.
LEMMA SaysReal ==
    ASSUME NEW x \in ConnRecord, NEW y \in ConnRecord, NEW r, NEW code, NEW flag, NEW what,
           Says(x, y, r, code, flag, what), Real(what), Sound(y)
    PROVE  \A n \in DOMAIN x.outbox : Real(x.outbox[n].seen)
<1> DEFINE a == [rid |-> r, code |-> code, flag |-> flag, seen |-> what]
<1>1. y.outbox \in Seq(AnswerRecord) BY DEF ConnRecord
<1>2. CASE x.outbox = y.outbox BY <1>2 DEF Sound
<1>3. CASE x.outbox = Append(y.outbox, a)
  <2>1. Real(a.seen) OBVIOUS
  <2> HIDE DEF a
  <2>2. ASSUME NEW n \in DOMAIN x.outbox PROVE x.outbox[n] = a \/ (n \in DOMAIN y.outbox /\ x.outbox[n] = y.outbox[n])
    BY <1>1, <1>3
  <2>3. QED BY <2>1, <2>2 DEF Sound
<1>4. QED BY <1>2, <1>3 DEF Says

LEMMA PhoneSound ==
    ASSUME Shape, TreeInv, NEW k \in ConnIds, PhoneStep(k)
    PROVE  Sound(conns'[k])
<1> DEFINE x == conns'[k]
           y == conns[k]
<1>1. y \in ConnRecord /\ Sound(y) BY DEF Shape, TreeInv
<1>2. x \in ConnRecord /\ (x.up => y.up) BY PhoneEffect DEF OnlyConn
<1>3. tree \in Int /\ origin \in Int /\ life \in Int /\ running \in BOOLEAN /\ origin <= tree
  BY DEF Shape, TreeInv
<1>4. Nobody \notin Rids BY NobodyIsNone
<1>5. CASE Less(x, y) BY <1>1, <1>2, <1>5, LessSound
<1>6. CASE Takes(x, y)
  <2>1. y.mark = 0 /\ x.mark = 0 /\ running BY <1>1, <1>6 DEF Takes, Sound
  <2>2. x.outbox = y.outbox BY <1>6 DEF Takes
  <2>3. QED BY <1>1, <2>1, <2>2 DEF Sound
<1>7. CASE Refuses(x, y)
  <2>1. x.mark = 0 /\ running BY <1>1, <1>7 DEF Refuses, Sound
  <2>2. \A n \in DOMAIN x.outbox : Real(x.outbox[n].seen)
    BY <1>1, <1>2, <1>7, SaysReal DEF Refuses, Real
  <2>3. QED BY <2>1, <2>2 DEF Sound
<1>8. CASE Marks(x, y)
  <2>1. y.doing # Nobody /\ x.doing # Nobody BY <1>4, <1>8 DEF Marks
  <2>2. running BY <1>1, <2>1 DEF Sound
  <2>3. x.mark \in 1..Generation BY <1>3, <1>8 DEF Marks, Generation
  <2>4. x.outbox = y.outbox BY <1>8 DEF Marks
  <2>5. QED BY <1>1, <2>1, <2>2, <2>3, <2>4 DEF Sound
<1>9. ASSUME NEW code, NEW flag, NEW what, Answering(x, y, code, flag, what), Real(what)
      PROVE  Sound(x)
  <2>1. x.mark = 0 /\ running BY <1>1, <1>4, <1>9 DEF Answering, Sound
  <2>2. \A n \in DOMAIN x.outbox : Real(x.outbox[n].seen)
    BY <1>1, <1>2, <1>9, SaysReal DEF Answering
  <2>3. QED BY <2>1, <2>2 DEF Sound
<1>10. Real(Unseen) BY DEF Real
<1>11. CASE Observing(k)
  <2>1. y.mark # 0 /\ Answering(x, y, "ok", FALSE, Observed(k)) BY <1>11 DEF Observing
  <2>2. y.mark \in 1..Generation /\ Generation = tree - origin + 1
    BY <1>1, <2>1 DEF Sound, Generation
  <2>3. Real(Observed(k)) BY <1>3, <2>2 DEF Real, Observed
  <2>4. QED BY <1>9, <2>1, <2>3
<1>12. QED
  BY <1>5, <1>6, <1>7, <1>8, <1>9, <1>10, <1>11, PhoneEffect DEF Informing, Outdated, Performing

LEMMA AskTree == ASSUME Shape, LineInv, TreeInv, NEW c \in Calls, Asks(c) PROVE TreeInv'
<1>1. UNCHANGED <<screen, ran, born>> BY AskEffect
<1>2. UNCHANGED <<running, tree, life, origin>> BY <1>1 DEF screen
<1>3. PICK cs : /\ Shrunk(cs)
                /\ \/ \E k \in ConnIds : Sending(c, k, cs)
                   \/ /\ conns' = cs
                      /\ \E code \in Codes, flag \in BOOLEAN, what \in Sighting :
                            Heard(c, code, flag, what) /\ Ending(c, code, flag, what)
  BY AskEffect
<1>4. \A k \in ConnIds : cs[k] \in ConnRecord /\ conns[k] \in ConnRecord /\ Less(cs[k], conns[k])
  BY <1>3 DEF Shrunk, Shape
<1>5. \A k \in ConnIds : Sound(cs[k]) BY <1>4, LessSound DEF TreeInv
<1>6. \A s : Real(s)' <=> Real(s) BY <1>2 DEF Real
<1>7. \A k \in ConnIds : Sound(conns'[k])
  <2>1. ASSUME NEW k \in ConnIds, Sending(c, k, cs), NEW j \in ConnIds PROVE Sound(conns'[j])
    <3>1. CASE j # k \/ conns'[k] = cs[k] BY <1>5, <2>1, <3>1 DEF Sending
    <3>2. CASE j = k /\ conns'[k] # cs[k]
      <4>1. /\ cs[k].up \/ running
            /\ conns'[k].doing = cs[k].doing /\ conns'[k].mark = cs[k].mark
            /\ conns'[k].outbox = cs[k].outbox
        BY <2>1, <3>2 DEF Sending
      <4>2. running BY <1>5, <4>1 DEF Sound
      <4>3. QED BY <1>5, <3>2, <4>1, <4>2 DEF Sound
    <3>3. QED BY <3>1, <3>2
  <2>2. QED BY <1>3, <1>5, <2>1
<1>8. \A k \in ConnIds : Sound(conns[k])' BY <1>2, <1>6, <1>7 DEF Sound, Generation
<1>9. \A d \in Calls : call'[d].kind = call[d].kind /\ call'[d].chosen = call[d].chosen
  BY <1>3 DEF Sending, Ending
<1>10. Real(seen')
  <2>1. ASSUME NEW code \in Codes, NEW flag \in BOOLEAN, NEW what \in Sighting,
               Heard(c, code, flag, what) PROVE Real(what)
    BY <2>1 DEF Heard, Real, TreeInv, Sound
  <2>2. QED BY <1>3, <2>1 DEF Sending, Ending, TreeInv
<1>11. QED BY <1>2, <1>6, <1>8, <1>9, <1>10 DEF TreeInv

\* Steps that leave the phone's screen and connections alone.
LEMMA SameTree ==
    ASSUME TreeInv, UNCHANGED <<running, tree, life, origin, seen, conns>>,
           \A c \in Calls : /\ call'[c].kind = "node" => call'[c].chosen # Unseen
                            /\ call'[c].chosen \in {Unseen, seen, call[c].chosen}
    PROVE  TreeInv'
<1>1. Real(Unseen) BY DEF Real
<1>2. \A s : Real(s)' <=> Real(s) BY DEF Real
<1>3. \A c \in Calls : Real(call'[c].chosen) BY <1>1 DEF TreeInv
<1>4. \A k \in ConnIds : Sound(conns[k])' BY <1>2 DEF TreeInv, Sound, Generation
<1>5. QED BY <1>2, <1>3, <1>4 DEF TreeInv

LEMMA StepTree == ASSUME Shape, LineInv, TreeInv, [Next]_vars PROVE TreeInv'
<1>1. ASSUME NEW c \in Calls, NEW kind \in Kinds, Begin(c, kind) PROVE TreeInv'
  <2>1. /\ Moving(c) /\ call'[c].kind = kind
        /\ call'[c].chosen = (IF kind = "node" THEN seen ELSE Unseen)
        /\ kind = "node" => seen # Unseen
        /\ UNCHANGED <<running, tree, life, origin, seen, conns>>
    BY <1>1, BeginEffect DEF screen
  <2>2. \A d \in Calls : /\ call'[d].kind = "node" => call'[d].chosen # Unseen
                         /\ call'[d].chosen \in {Unseen, seen, call[d].chosen}
    BY <2>1 DEF Moving, TreeInv
  <2>3. QED BY <2>1, <2>2, SameTree
<1>2. ASSUME NEW c \in Calls, ScanFromCache(c) \/ AdbCall(c) PROVE TreeInv'
  <2>1. Stepping(c) /\ UNCHANGED <<running, tree, life, origin, seen, conns>>
    BY <1>2, CacheEffect, AdbEffect DEF screen
  <2>2. \A d \in Calls : call'[d].kind = call[d].kind /\ call'[d].chosen = call[d].chosen
    BY <2>1 DEF Stepping, Moving
  <2>3. QED BY <2>1, <2>2, SameTree DEF TreeInv
<1>3. ASSUME NEW k \in ConnIds, PhoneStep(k) PROVE TreeInv'
  <2>1. OnlyConn(k) /\ Sound(conns'[k]) BY <1>3, PhoneEffect, PhoneSound
  <2>2. UNCHANGED <<running, tree, life, origin, seen, call>> BY <2>1 DEF OnlyConn, host, screen
  <2>3. \A s : Real(s)' <=> Real(s) BY <2>2 DEF Real
  <2>4. \A j \in ConnIds : Sound(conns'[j]) BY <2>1 DEF OnlyConn, TreeInv
  <2>5. \A j \in ConnIds : Sound(conns[j])' BY <2>2, <2>3, <2>4 DEF Sound, Generation
  <2>6. QED BY <2>2, <2>3, <2>5 DEF TreeInv
<1>4. CASE CompanionDies
  <2>1. /\ Shrunk(conns') /\ UNCHANGED <<tree, life, origin, seen, call>>
        /\ \A k \in ConnIds : /\ ~conns'[k].up /\ conns'[k].inbox = <<>>
                              /\ conns'[k].doing = Nobody /\ conns'[k].mark = 0
    BY <1>4, DiesEffect DEF host
  <2>2. \A s : Real(s)' <=> Real(s) BY <2>1 DEF Real
  <2>3. ASSUME NEW k \in ConnIds PROVE Sound(conns[k])'
    <3>1. conns'[k].outbox \in {conns[k].outbox, <<>>} BY <2>1 DEF Shrunk, Less
    <3>2. \A n \in DOMAIN conns'[k].outbox : Real(conns'[k].outbox[n].seen)
      BY <3>1 DEF TreeInv, Sound
    <3>3. QED BY <2>1, <2>2, <3>2 DEF Sound
  <2>4. QED BY <2>1, <2>2, <2>3 DEF TreeInv
<1>5. CASE TreeChanges
  <2>1. tree' = tree + 1 /\ UNCHANGED <<running, life, origin, seen, call, conns>>
    BY <1>5 DEF TreeChanges, host
  <2>2. tree \in Int /\ origin \in Int /\ origin <= tree BY DEF Shape, TreeInv
  <2>3. ASSUME NEW s \in Sighting, Real(s) PROVE Real(s)'
    BY <2>1, <2>2, <2>3 DEF Real, Sighting
  <2>4. \A c \in Calls : call[c].chosen \in Sighting BY DEF Shape, CallRecord
  <2>5. ASSUME NEW k \in ConnIds PROVE Sound(conns[k])'
    <3>1. conns[k].outbox \in Seq(AnswerRecord) /\ conns[k].mark \in Int
      BY DEF Shape, ConnRecord
    <3>2. \A n \in DOMAIN conns[k].outbox : conns[k].outbox[n].seen \in Sighting
      <4>1. \A n \in DOMAIN conns[k].outbox : conns[k].outbox[n] \in AnswerRecord
        BY <3>1
      <4>2. QED BY <4>1 DEF AnswerRecord
    <3>3. Sound(conns[k]) BY DEF TreeInv
    <3>4. conns[k].mark \in 1..Generation => conns[k].mark \in 1..(Generation')
      BY <2>1, <2>2, <3>1 DEF Generation
    <3>5. QED BY <2>1, <2>3, <3>2, <3>3, <3>4 DEF Sound
  <2>6. seen \in Sighting BY DEF Shape
  <2>7. QED BY <2>1, <2>2, <2>3, <2>4, <2>5, <2>6 DEF TreeInv
<1>6. CASE CompanionStarts
  <2>1. /\ ~running /\ running' /\ life' = life + 1 /\ origin' = tree
        /\ UNCHANGED <<tree, seen, call, conns>>
    BY <1>6 DEF CompanionStarts, host
  <2>2. tree \in Int /\ life \in Int BY DEF Shape
  <2>3. ASSUME NEW s \in Sighting, Real(s) PROVE Real(s)'
    BY <2>1, <2>2, <2>3 DEF Real, Sighting
  <2>4. \A c \in Calls : call[c].chosen \in Sighting BY DEF Shape, CallRecord
  <2>5. ASSUME NEW k \in ConnIds PROVE Sound(conns[k])'
    <3>1. conns[k].outbox \in Seq(AnswerRecord) BY DEF Shape, ConnRecord
    <3>2. \A n \in DOMAIN conns[k].outbox : conns[k].outbox[n].seen \in Sighting
      <4>1. \A n \in DOMAIN conns[k].outbox : conns[k].outbox[n] \in AnswerRecord
        BY <3>1
      <4>2. QED BY <4>1 DEF AnswerRecord
    <3>3. Sound(conns[k]) /\ conns[k].mark = 0 BY <2>1 DEF TreeInv, Sound
    <3>4. QED BY <2>1, <2>3, <3>2, <3>3 DEF Sound
  <2>6. seen \in Sighting BY DEF Shape
  <2>7. QED BY <2>1, <2>2, <2>3, <2>4, <2>5, <2>6 DEF TreeInv
<1>7. CASE ConnGrowsOld \/ PingExpires \/ (\E flag \in BOOLEAN : SetStopped(flag)) \/ UNCHANGED vars
  <2>1. UNCHANGED <<running, tree, life, origin, seen, conns, call>>
    BY <1>7 DEF ConnGrowsOld, PingExpires, SetStopped, vars, host, screen
  <2>2. QED BY <2>1, SameTree DEF TreeInv
<1>8. QED BY <1>1, <1>2, <1>3, <1>4, <1>5, <1>6, <1>7, AskTree, NextCases DEF Quietly

LEMMA InitTree == Init => TreeInv
<1> SUFFICES ASSUME Init PROVE TreeInv OBVIOUS
<1>1. Real(Unseen) BY DEF Real
<1>2. \A k \in ConnIds : Sound(conns[k]) BY DEF Init, Sound, Closed
<1>3. \A c \in Calls : call[c].chosen = Unseen /\ call[c].kind = "none" BY DEF Init
<1>4. QED BY <1>1, <1>2, <1>3 DEF Init, TreeInv

THEOREM TreeInvariant == Spec => [](Shape /\ LineInv /\ TreeInv)
<1>1. (Shape /\ LineInv /\ TreeInv) /\ [Next]_vars => (Shape /\ LineInv /\ TreeInv)'
  BY StepShape, StepLine, StepTree
<1>2. QED BY <1>1, InitLink, InitTree, PTL DEF Spec

\* The generation is taken in one step alone, the check of the request's own.
LEMMA TakesGeneration ==
    ASSUME Shape, LineInv, [Next]_vars, NEW k \in ConnIds, Handles(k, {"node"}), conns[k].mark = 0,
           conns'[k].mark # 0
    PROVE  ~StaleFor(conns[k].doing.call) /\ UNCHANGED <<call, tree, life, origin>>
<1>1. conns[k].doing.stage = "companion" /\ call[conns[k].doing.call].kind = "node"
  BY DEF Handles
<1>2. conns[k].doing \in Rids
  <2>1. conns[k].doing.stage \in Requesting BY <1>1 DEF Requesting
  <2>2. QED BY <2>1, DoingType
<1>3. conns \in [ConnIds -> ConnRecord] /\ conns[k] \in ConnRecord BY DEF Shape
<1>4. ~Less(conns'[k], conns[k]) BY DEF Less
<1>5. ASSUME NEW c \in Calls, Asks(c) PROVE FALSE
  <2>1. PICK cs : Shrunk(cs) /\ (conns' = cs \/ \E j \in ConnIds : Sending(c, j, cs))
    BY <1>5, AskEffect
  <2>2. cs[k].mark \in {0, conns[k].mark} BY <2>1 DEF Shrunk, Less
  <2>3. conns'[k].mark = cs[k].mark BY <2>1 DEF Sending
  <2>4. QED BY <2>2, <2>3
<1>6. conns' # conns OBVIOUS
<1>7. ~CompanionDies BY DiesEffect
<1>8. PICK j \in ConnIds : PhoneStep(j)
  BY <1>5, <1>6, <1>7, NextCases, BeginEffect, CacheEffect, AdbEffect
     DEF Quietly, ConnGrowsOld, PingExpires, TreeChanges, SetStopped, CompanionStarts, vars
<1>9. j = k BY <1>8, PhoneEffect DEF OnlyConn
<1>10. Verify(k)
  <2>1. ~Dispatch(k) BY <1>2, NobodyIsNone DEF Dispatch
  <2>2. ~Inform(k) BY <1>1 DEF Inform
  <2>3. ~Observe(k) BY <1>1 DEF Observe, Handles
  <2>4. ~Perform(k) BY <1>1 DEF Perform, Acting, Handles
  <2>5. ~IdleClose(k) BY <1>2, NobodyIsNone DEF IdleClose
  <2>6. QED BY <1>8, <1>9, <2>1, <2>2, <2>3, <2>4, <2>5 DEF PhoneStep
<1>11. UNCHANGED <<call, tree, life, origin>> BY <1>10 DEF Verify, host, screen
<1>12. ASSUME StaleFor(conns[k].doing.call) PROVE FALSE
  <2>1. conns' = [conns EXCEPT ![k] = Reply(k, conns[k].doing, "stale", FALSE, Unseen)]
    BY <1>10, <1>12 DEF Verify
  <2>2. Reply(k, conns[k].doing, "stale", FALSE, Unseen).mark = 0
    BY <1>2, ReplyRecord, UnseenType DEF Codes
  <2>3. QED BY <1>3, <2>1, <2>2
<1>13. QED BY <1>11, <1>12

\* A tree no newer than now and as old as it can be with this generation is now's.
LEMMA TightAge ==
    ASSUME NEW g \in Int, NEW a \in Int, NEW b \in Int, NEW o \in Int,
           g >= 1, a <= b, g <= a - o + 1, g = 0 \/ g = b - o + 1
    PROVE  a = b
OBVIOUS

\* Whatever the screen does and however often the companion is killed: a node
\* action that passes the check of its generation finds the tree its node was
\* chosen from, unless another observation has renewed the generation meanwhile.
THEOREM NodesAreActedOnAsSeen == Spec => NodeActsOnTreeSeen
<1> DEFINE Lasts ==
      \A k \in ConnIds :
        LET c == conns[k].doing.call
        IN /\ Handles(k, {"node"}) /\ conns[k].mark = 0 /\ conns'[k].mark # 0
           /\ call[c].gen = call[c].chosen.gen /\ call[c].chosen.life = life
           => call[c].chosen.tree = tree
<1>1. Shape /\ LineInv /\ TreeInv /\ [Next]_vars => [Lasts]_vars
  <2> SUFFICES ASSUME Shape, LineInv, TreeInv, [Next]_vars, NEW k \in ConnIds,
                      Handles(k, {"node"}), conns[k].mark = 0, conns'[k].mark # 0,
                      call[conns[k].doing.call].gen = call[conns[k].doing.call].chosen.gen,
                      call[conns[k].doing.call].chosen.life = life
               PROVE  call[conns[k].doing.call].chosen.tree = tree
    OBVIOUS
  <2> DEFINE c == conns[k].doing.call
  <2>1. conns[k].doing.stage \in Requesting BY DEF Handles, Requesting
  <2>2. c \in Calls BY <2>1, DoingType
  <2>3. call[c].kind = "node" BY DEF Handles
  <2>4. Real(call[c].chosen) /\ call[c].chosen # Unseen BY <2>2, <2>3 DEF TreeInv
  <2>5. call[c].gen = 0 \/ call[c].gen = Generation BY TakesGeneration DEF StaleFor
  <2>6. call[c].chosen \in Sighting BY <2>2 DEF Shape, CallRecord
  <2>7. /\ call[c].chosen.gen >= 1 /\ call[c].chosen.tree <= tree
        /\ call[c].chosen.gen <= call[c].chosen.tree - origin + 1
    BY <2>4 DEF Real
  <2>8. /\ tree \in Int /\ origin \in Int
        /\ call[c].chosen.gen \in Int /\ call[c].chosen.tree \in Int
    BY <2>6 DEF Shape, Sighting
  <2>9. call[c].chosen.gen = 0 \/ call[c].chosen.gen = tree - origin + 1
    BY <2>5 DEF Generation
  <2>10. QED BY <2>7, <2>8, <2>9, TightAge
<1>2. QED BY <1>1, TreeInvariant, PTL DEF Spec, NodeActsOnTreeSeen

-----------------------------------------------------------------------------
(* How often the companion performs an input.                               *)

Input(c) == [call |-> c, stage |-> "companion"]
\* Connection x has request r still to do, in one place; x has sent answers to r.
Holds(x, r) == x.doing = r \/ \E n \in DOMAIN x.inbox : x.inbox[n] = r
Once(x, r) ==
    /\ \A m, n \in DOMAIN x.inbox : x.inbox[m] = r /\ x.inbox[n] = r => m = n
    /\ x.doing = r => \A n \in DOMAIN x.inbox : x.inbox[n] # r
Answered(x, r) == \E n \in DOMAIN x.outbox : x.outbox[n].rid = r
Refusals == {"stopped", "stale"}
Refused(x, r) == \E n \in DOMAIN x.outbox : x.outbox[n].rid = r /\ x.outbox[n].code \in Refusals

Unsent(c) == call[c].stage \in {"idle", "check", "scan"} \/ (call[c].stage = "companion" /\ ~call[c].waits)

\* The input of c is a token: it is with the host, or under way in one place, or
\* done; an answer comes after it, and a refusal instead of it.
InputOnce(c) ==
    /\ \A k \in ConnIds : Once(conns[k], Input(c))
    /\ ran[c].companion <= 1
    /\ Unsent(c) => /\ ran[c].companion = 0
                    /\ \A k \in ConnIds : ~Holds(conns[k], Input(c)) /\ ~Answered(conns[k], Input(c))
    /\ \A k \in ConnIds : Holds(conns[k], Input(c)) =>
        /\ ran[c].companion = 0
        /\ \A j \in ConnIds : ~Answered(conns[j], Input(c)) /\ (Holds(conns[j], Input(c)) => j = k)
    /\ \A k \in ConnIds : Refused(conns[k], Input(c)) => ran[c].companion = 0
    /\ call[c].verdict \in Refusals =>
        /\ call[c].stage = "refused" /\ ran[c].companion = 0
        /\ \A k \in ConnIds : ~Holds(conns[k], Input(c))

TokenInv ==
    \A c \in Calls :
        /\ ran[c].adb # 0 => call[c].stage = "done"
        /\ call[c].stage = "idle" => call[c].kind = "none"
        /\ ~Acts(call[c].kind) => ran[c].companion = 0 /\ ran[c].adb = 0
        /\ Acts(call[c].kind) => InputOnce(c)

\* As far as r goes, nothing comes to connection x.
Fewer(x, y, r) ==
    /\ Holds(x, r) => Holds(y, r)
    /\ Once(y, r) => Once(x, r)
    /\ Answered(x, r) => Answered(y, r)
    /\ Refused(x, r) => Refused(y, r)

LEMMA SameFewer == ASSUME NEW y, NEW r PROVE Fewer(y, y, r)
BY DEF Fewer

LEMMA LessFewer ==
    ASSUME NEW x \in ConnRecord, NEW y \in ConnRecord, Less(x, y), NEW r \in Rids
    PROVE  Fewer(x, y, r)
<1>1. x.inbox = y.inbox \/ x.inbox = <<>> BY DEF Less
<1>2. x.outbox = y.outbox \/ x.outbox = <<>> BY DEF Less
<1>3. x.doing = y.doing \/ x.doing = Nobody BY DEF Less
<1>4. r # Nobody BY NobodyIsNone
<1>5. DOMAIN <<>> = {} OBVIOUS
<1>6. Holds(x, r) => Holds(y, r) BY <1>1, <1>3, <1>4, <1>5 DEF Holds
<1>7. Once(y, r) => Once(x, r) BY <1>1, <1>3, <1>4, <1>5 DEF Once
<1>8. Answered(x, r) => Answered(y, r) BY <1>2, <1>5 DEF Answered
<1>9. Refused(x, r) => Refused(y, r) BY <1>2, <1>5 DEF Refused
<1>10. QED BY <1>6, <1>7, <1>8, <1>9 DEF Fewer

\* The head of a queue goes into the hands of the thread.
LEMMA TakesFewer ==
    ASSUME NEW x \in ConnRecord, NEW y \in ConnRecord, NEW r \in Rids,
           y.inbox # <<>>, x.inbox = Tail(y.inbox), x.outbox = y.outbox,
           y.doing = Nobody, x.doing = Head(y.inbox)
    PROVE  Fewer(x, y, r)
<1>1. y.inbox \in Seq(Rids) BY DEF ConnRecord
<1>2. /\ Head(y.inbox) = y.inbox[1] /\ 1 \in DOMAIN y.inbox
      /\ \A n \in DOMAIN x.inbox : n + 1 \in DOMAIN y.inbox /\ x.inbox[n] = y.inbox[n + 1]
      /\ \A n \in DOMAIN x.inbox : n \in Nat \ {0}
  BY <1>1
<1>3. r # Nobody BY NobodyIsNone
<1>4. Holds(x, r) => Holds(y, r) BY <1>2 DEF Holds
<1>5. ASSUME Once(y, r) PROVE Once(x, r)
  <2>1. ASSUME NEW m \in DOMAIN x.inbox, NEW n \in DOMAIN x.inbox, x.inbox[m] = r, x.inbox[n] = r
        PROVE  m = n
    <3>1. m + 1 = n + 1 BY <1>2, <1>5, <2>1 DEF Once
    <3>2. QED BY <1>2, <3>1
  <2>2. ASSUME x.doing = r, NEW n \in DOMAIN x.inbox, x.inbox[n] = r PROVE FALSE
    <3>1. n + 1 = 1 BY <1>2, <1>5, <2>2 DEF Once
    <3>2. QED BY <1>2, <3>1
  <2>3. QED BY <2>1, <2>2 DEF Once
<1>6. QED BY <1>4, <1>5 DEF Fewer, Answered, Refused

\* The head of a queue is thrown out: nothing is left of it if it was there once.
LEMMA DropsFewer ==
    ASSUME NEW x \in ConnRecord, NEW y \in ConnRecord, NEW r \in Rids,
           y.inbox # <<>>, x.inbox = Tail(y.inbox), y.doing = Nobody, x.doing = Nobody
    PROVE  /\ Holds(x, r) => Holds(y, r)
           /\ Once(y, r) => Once(x, r)
           /\ Holds(y, Head(y.inbox))
           /\ Once(y, Head(y.inbox)) => ~Holds(x, Head(y.inbox))
<1>1. y.inbox \in Seq(Rids) BY DEF ConnRecord
<1>2. /\ Head(y.inbox) = y.inbox[1] /\ 1 \in DOMAIN y.inbox /\ Head(y.inbox) \in Rids
      /\ \A n \in DOMAIN x.inbox : n + 1 \in DOMAIN y.inbox /\ x.inbox[n] = y.inbox[n + 1]
      /\ \A n \in DOMAIN x.inbox : n \in Nat \ {0}
  BY <1>1
<1>3. r # Nobody /\ Head(y.inbox) # Nobody BY <1>2, NobodyIsNone
<1>4. Holds(x, r) => Holds(y, r) BY <1>2, <1>3 DEF Holds
<1>5. ASSUME Once(y, r) PROVE Once(x, r)
  <2>1. ASSUME NEW m \in DOMAIN x.inbox, NEW n \in DOMAIN x.inbox, x.inbox[m] = r, x.inbox[n] = r
        PROVE  m = n
    <3>1. m + 1 = n + 1 BY <1>2, <1>5, <2>1 DEF Once
    <3>2. QED BY <1>2, <3>1
  <2>2. QED BY <1>3, <2>1 DEF Once
<1>6. Holds(y, Head(y.inbox)) BY <1>2 DEF Holds
<1>7. ASSUME Once(y, Head(y.inbox)), Holds(x, Head(y.inbox)) PROVE FALSE
  <2>1. PICK n \in DOMAIN x.inbox : x.inbox[n] = Head(y.inbox) BY <1>3, <1>7 DEF Holds
  <2>2. n + 1 = 1 BY <1>2, <1>7, <2>1 DEF Once
  <2>3. QED BY <1>2, <2>2
<1>8. QED BY <1>4, <1>5, <1>6, <1>7

\* An answer to r says nothing of the others, and is a refusal if its code is one.
LEMMA SaysFewer ==
    ASSUME NEW x \in ConnRecord, NEW y \in ConnRecord, NEW r, NEW code, NEW flag, NEW what,
           Says(x, y, r, code, flag, what), NEW o \in Rids
    PROVE  /\ o # r => (Answered(x, o) => Answered(y, o)) /\ (Refused(x, o) => Refused(y, o))
           /\ Refused(x, o) => Refused(y, o) \/ code \in Refusals
<1> DEFINE a == [rid |-> r, code |-> code, flag |-> flag, seen |-> what]
<1>1. y.outbox \in Seq(AnswerRecord) BY DEF ConnRecord
<1>2. CASE x.outbox = y.outbox BY <1>2 DEF Answered, Refused
<1>3. CASE x.outbox = Append(y.outbox, a)
  <2>1. a.rid = r /\ a.code = code OBVIOUS
  <2> HIDE DEF a
  <2>2. ASSUME NEW n \in DOMAIN x.outbox
        PROVE  x.outbox[n] = a \/ (n \in DOMAIN y.outbox /\ x.outbox[n] = y.outbox[n])
    BY <1>1, <1>3
  <2>3. QED BY <2>1, <2>2 DEF Answered, Refused
<1>4. QED BY <1>2, <1>3 DEF Says

\* What is done is held no longer, if it was there once.
LEMMA AnsweringFewer ==
    ASSUME NEW x \in ConnRecord, NEW y \in ConnRecord, NEW code, NEW flag, NEW what,
           Answering(x, y, code, flag, what), NEW r \in Rids
    PROVE  /\ Holds(x, r) => Holds(y, r)
           /\ Once(y, r) => Once(x, r)
           /\ r # y.doing => Fewer(x, y, r)
           /\ Holds(y, y.doing)
           /\ Once(y, y.doing) => ~Holds(x, y.doing)
           /\ Refused(x, r) => Refused(y, r) \/ code \in Refusals
<1>1. y.doing \in Rids /\ x.doing = Nobody /\ x.inbox = y.inbox /\ Says(x, y, y.doing, code, flag, what)
  BY DEF Answering
<1>2. r # Nobody /\ y.doing # Nobody BY <1>1, NobodyIsNone
<1>3. (Holds(x, r) => Holds(y, r)) /\ (Once(y, r) => Once(x, r)) BY <1>1, <1>2 DEF Holds, Once
<1>4. Holds(y, y.doing) /\ (Once(y, y.doing) => ~Holds(x, y.doing)) BY <1>1, <1>2 DEF Holds, Once
<1>5. Refused(x, r) => Refused(y, r) \/ code \in Refusals BY <1>1, SaysFewer
<1>6. r # y.doing => (Answered(x, r) => Answered(y, r)) /\ (Refused(x, r) => Refused(y, r))
  BY <1>1, SaysFewer
<1>7. QED BY <1>3, <1>4, <1>5, <1>6 DEF Fewer

\* Sending a request adds it, once.
LEMMA SendingFewer ==
    ASSUME Shape, NEW c \in Calls, NEW k \in ConnIds, NEW cs \in [ConnIds -> ConnRecord],
           Sending(c, k, cs), call[c].stage \in Requesting, NEW j \in ConnIds, NEW r \in Rids
    PROVE  /\ j # k \/ r # Rid(c) => Fewer(conns'[j], cs[j], r)
           /\ Answered(conns'[j], r) => Answered(cs[j], r)
           /\ Refused(conns'[j], r) => Refused(cs[j], r)
           /\ ~Holds(cs[j], r) => Once(conns'[j], r)
<1>1. cs[j] \in ConnRecord /\ Rid(c) \in Rids BY RidType
<1>2. r # Nobody BY NobodyIsNone
<1>3. CASE conns'[j] = cs[j] BY <1>3, SameFewer DEF Holds, Once
<1>4. CASE conns'[j] # cs[j]
  <2>1. /\ j = k /\ conns'[j].inbox = Append(cs[j].inbox, Rid(c))
        /\ conns'[j].doing = cs[j].doing /\ conns'[j].outbox = cs[j].outbox
    BY <1>4 DEF Sending
  <2>2. cs[j].inbox \in Seq(Rids) BY <1>1 DEF ConnRecord
  <2> DEFINE inbox == cs[j].inbox
             last == Len(inbox) + 1
  <2>3. /\ \A n \in DOMAIN inbox : n \in DOMAIN conns'[j].inbox /\ conns'[j].inbox[n] = inbox[n]
        /\ \A n \in DOMAIN conns'[j].inbox : n = last \/ n \in DOMAIN inbox
        /\ conns'[j].inbox[last] = Rid(c)
    BY <2>1, <2>2
  <2> HIDE DEF inbox, last
  <2>4. (Answered(conns'[j], r) => Answered(cs[j], r)) /\ (Refused(conns'[j], r) => Refused(cs[j], r))
    BY <2>1 DEF Answered, Refused
  <2>5. ASSUME r # Rid(c) PROVE Fewer(conns'[j], cs[j], r)
    <3>1. \A n \in DOMAIN conns'[j].inbox : conns'[j].inbox[n] = r => n \in DOMAIN inbox /\ inbox[n] = r
      BY <2>3, <2>5
    <3>2. Holds(conns'[j], r) => Holds(cs[j], r) BY <2>1, <3>1 DEF Holds, inbox
    <3>3. Once(cs[j], r) => Once(conns'[j], r) BY <2>1, <3>1 DEF Once, inbox
    <3>4. QED BY <2>4, <3>2, <3>3 DEF Fewer
  <2>6. ASSUME ~Holds(cs[j], r) PROVE Once(conns'[j], r)
    <3>1. \A n \in DOMAIN conns'[j].inbox : conns'[j].inbox[n] = r => n = last
      BY <2>3, <2>6 DEF Holds, inbox
    <3>2. QED BY <2>1, <2>6, <3>1 DEF Once, Holds
  <2>7. QED BY <2>1, <2>4, <2>5, <2>6
<1>5. QED BY <1>3, <1>4

LEMMA InputType == ASSUME NEW c \in Calls PROVE Input(c) \in Rids
BY DEF Input, Rids, Requesting

\* Nothing happens to the input of c.
LEMMA InputRests ==
    ASSUME NEW c \in Calls, InputOnce(c), Unsent(c)' => Unsent(c),
           ran'[c].companion = ran[c].companion,
           \A k \in ConnIds : Fewer(conns'[k], conns[k], Input(c)),
           call'[c].verdict \in Refusals =>
              call[c].verdict \in Refusals /\ call'[c].stage = call[c].stage
    PROVE  InputOnce(c)'
<1>1. \A k \in ConnIds : Once(conns'[k], Input(c)) BY DEF InputOnce, Fewer
<1>2. ran'[c].companion <= 1 BY DEF InputOnce
<1>3. Unsent(c)' => /\ ran'[c].companion = 0
                    /\ \A k \in ConnIds : ~Holds(conns'[k], Input(c)) /\ ~Answered(conns'[k], Input(c))
  BY DEF InputOnce, Fewer
<1>4. ASSUME NEW k \in ConnIds, Holds(conns'[k], Input(c))
      PROVE  /\ ran'[c].companion = 0
             /\ \A j \in ConnIds : ~Answered(conns'[j], Input(c)) /\ (Holds(conns'[j], Input(c)) => j = k)
  BY <1>4 DEF InputOnce, Fewer
<1>5. \A k \in ConnIds : Refused(conns'[k], Input(c)) => ran'[c].companion = 0
  BY DEF InputOnce, Fewer
<1>6. call'[c].verdict \in Refusals =>
        /\ call'[c].stage = "refused" /\ ran'[c].companion = 0
        /\ \A k \in ConnIds : ~Holds(conns'[k], Input(c))
  BY DEF InputOnce, Fewer
<1>7. QED BY <1>1, <1>2, <1>3, <1>4, <1>5, <1>6 DEF InputOnce

LEMMA MovesToken ==
    ASSUME Shape, TokenInv, NEW c \in Calls, Moving(c), conns' = conns,
           \A d \in Calls : ran'[d].companion = ran[d].companion,
           \A d \in Calls : d # c => ran'[d].adb = ran[d].adb,
           Unsent(c)' => Unsent(c), call[c].verdict \notin Refusals \/ ~Acts(call[c].kind),
           Acts(call'[c].kind) => Acts(call[c].kind),
           call'[c].stage # "idle",
           ran'[c].adb # 0 => call'[c].stage = "done",
           ~Acts(call'[c].kind) => ran[c].companion = 0 /\ ran'[c].adb = 0
    PROVE  TokenInv'
<1>1. \A k \in ConnIds : \A r : Fewer(conns'[k], conns[k], r) BY SameFewer
<1>2. ASSUME NEW d \in Calls, d # c
      PROVE  /\ call'[d] = call[d] /\ (Unsent(d)' => Unsent(d))
             /\ ran'[d].adb = ran[d].adb /\ ran'[d].companion = ran[d].companion
  BY <1>2 DEF Moving, Unsent
<1>3. ASSUME NEW d \in Calls, Acts(call'[d].kind) PROVE InputOnce(d)'
  <2>1. CASE d # c
    <3>1. InputOnce(d) BY <1>2, <1>3, <2>1 DEF TokenInv
    <3>2. QED BY <1>1, <1>2, <2>1, <3>1, InputRests
  <2>2. CASE d = c
    <3>1. InputOnce(c) /\ call'[c].verdict \notin Refusals BY <1>3, <2>2 DEF TokenInv, Moving
    <3>2. QED BY <1>1, <2>2, <3>1, InputRests
  <2>3. QED BY <2>1, <2>2
<1>4. QED BY <1>2, <1>3 DEF TokenInv

LEMMA AskToken == ASSUME Shape, LineInv, TokenInv, NEW c \in Calls, Asks(c) PROVE TokenInv'
<1>1. ran' = ran /\ call[c].stage \in Requesting BY AskEffect
<1>2. call[c].stage \notin {"idle", "done", "refused"} BY <1>1 DEF Requesting
<1>3. ASSUME NEW cs, Shrunk(cs), ~call[c].waits \/ ReadOnly(c), NEW k \in ConnIds, Sending(c, k, cs)
      PROVE  TokenInv'
  <2>1. \A d \in Calls : /\ call'[d].kind = call[d].kind /\ call'[d].stage = call[d].stage
                         /\ call'[d].verdict = call[d].verdict
    BY <1>3 DEF Sending
  <2>2. \A d \in Calls : Unsent(d)' => Unsent(d)
    <3>1. ASSUME NEW d \in Calls, d # c PROVE call'[d] = call[d] BY <1>3, <3>1 DEF Sending
    <3>2. call'[c].waits /\ call'[c].stage = call[c].stage BY <1>3 DEF Sending
    <3>3. QED BY <3>1, <3>2 DEF Unsent
  <2>3. cs \in [ConnIds -> ConnRecord] BY <1>3 DEF Shrunk
  <2>4. ASSUME NEW d \in Calls, NEW j \in ConnIds PROVE Fewer(cs[j], conns[j], Input(d))
    BY <1>3, InputType, LessFewer DEF Shrunk, Shape
  <2>5. ASSUME NEW d \in Calls, Acts(call[d].kind) PROVE InputOnce(d)'
    <3>1. InputOnce(d) /\ Input(d) \in Rids BY <2>5, InputType DEF TokenInv
    <3>2. CASE Input(d) # Rid(c)
      <4>1. \A j \in ConnIds : Fewer(conns'[j], cs[j], Input(d))
        BY <1>1, <1>3, <2>3, <3>1, <3>2, SendingFewer
      <4>2. \A j \in ConnIds : Fewer(conns'[j], conns[j], Input(d)) BY <2>4, <4>1 DEF Fewer
      <4>3. QED BY <1>1, <2>1, <2>2, <3>1, <4>2, InputRests
    <3>3. CASE Input(d) = Rid(c)
      <4>1. d = c /\ call[c].stage = "companion" BY <3>3 DEF Input, Rid
      <4>2. ~call[c].waits BY <1>3, <2>5, <4>1 DEF ReadOnly
      <4>3. Unsent(c) /\ call'[c].verdict \notin Refusals /\ ~(Unsent(c)')
        <5>1. Unsent(c) BY <4>1, <4>2 DEF Unsent
        <5>2. call[c].verdict \notin Refusals BY <1>2, <3>1, <4>1 DEF InputOnce
        <5>3. call'[c].waits /\ call'[c].stage = "companion" BY <1>3, <4>1 DEF Sending
        <5>4. QED BY <2>1, <5>1, <5>2, <5>3 DEF Unsent
      <4>4. /\ ran[c].companion = 0
            /\ \A j \in ConnIds : ~Holds(conns[j], Input(c)) /\ ~Answered(conns[j], Input(c))
        BY <3>1, <4>1, <4>3 DEF InputOnce
      <4>5. \A j \in ConnIds : ~Holds(cs[j], Input(c)) /\ ~Answered(cs[j], Input(c)) BY <2>4, <4>4 DEF Fewer
      <4>6. ASSUME NEW j \in ConnIds
            PROVE  /\ Once(conns'[j], Input(c)) /\ ~Answered(conns'[j], Input(c))
                   /\ j # k => ~Holds(conns'[j], Input(c))
        <5>1. Input(c) \in Rids BY InputType
        <5>2. QED BY <1>1, <1>3, <2>3, <4>5, <5>1, SendingFewer DEF Fewer
      <4>7. \A j \in ConnIds : ~Refused(conns'[j], Input(c)) BY <4>6 DEF Refused, Answered
      <4>8. ran'[c].companion = 0 BY <1>1, <4>4
      <4>9. QED BY <4>1, <4>3, <4>6, <4>7, <4>8 DEF InputOnce
    <3>4. QED BY <3>2, <3>3
  <2>6. QED BY <1>1, <2>1, <2>5 DEF TokenInv
<1>4. ASSUME Shrunk(conns'), NEW code \in Codes, NEW flag \in BOOLEAN, NEW what \in Sighting,
             Heard(c, code, flag, what), Ending(c, code, flag, what)
      PROVE  TokenInv'
  <2>1. ASSUME NEW d \in Calls, NEW j \in ConnIds PROVE Fewer(conns'[j], conns[j], Input(d))
    BY <1>4, InputType, LessFewer DEF Shrunk, Shape
  <2>2. \A d \in Calls : d # c => call'[d] = call[d] BY <1>4 DEF Ending
  <2>3. /\ call'[c].kind = call[c].kind /\ call'[c].stage # "idle"
        /\ call[c].stage = "check" => call'[c].stage \in {"scan", "refused"}
        /\ call[c].stage = "scan" => call'[c].stage \in {"companion", "adb", "failed"}
        /\ call[c].stage = "companion" => call'[c].stage \in {"done", "refused", "adb", "failed"}
        /\ call[c].stage = "companion" /\ code \in Refusals => call'[c].stage = "refused"
        /\ call'[c].verdict = (IF call[c].stage = "companion" THEN code ELSE call[c].verdict)
    <3>1. Ends(c, code, flag, call'[c].stage) BY <1>4 DEF Ending
    <3>2. code \in Refusals => AfterCompanion(call[c].kind, code) = "refused"
      BY DEF Refusals, AfterCompanion, NoFallback
    <3>3. /\ call[c].stage = "check" => call'[c].stage \in {"scan", "refused"}
          /\ call[c].stage = "scan" => call'[c].stage \in {"companion", "adb", "failed"}
          /\ call[c].stage = "companion" => call'[c].stage \in {"done", "refused", "adb", "failed"}
      BY <3>1, AfterTypes DEF Ends
    <3>4. QED BY <1>1, <1>4, <3>1, <3>2, <3>3 DEF Ending, Ends, Requesting
  <2>4. Unsent(c)' => Unsent(c) BY <1>1, <2>3 DEF Unsent, Requesting
  <2>5. \A d \in Calls : Unsent(d)' => Unsent(d) BY <2>2, <2>4 DEF Unsent
  <2>6. ASSUME NEW d \in Calls, Acts(call[d].kind) PROVE InputOnce(d)'
    <3>1. InputOnce(d) BY <2>6 DEF TokenInv
    <3>2. CASE d # c BY <1>1, <2>1, <2>2, <2>5, <3>1, <3>2, InputRests
    <3>3. CASE d = c /\ ~(call[c].stage = "companion" /\ code \in Refusals)
      <4>1. call[c].verdict \notin Refusals BY <1>2, <3>1, <3>3 DEF InputOnce
      <4>2. call'[c].verdict \notin Refusals BY <2>3, <3>3, <4>1
      <4>3. QED BY <1>1, <2>1, <2>5, <3>1, <3>3, <4>2, InputRests
    <3>4. CASE d = c /\ call[c].stage = "companion" /\ code \in Refusals
      <4>1. Rid(c) = Input(c) BY <3>4 DEF Rid, Input
      <4>2. code \notin {"exception", "timeout"} BY <3>4 DEF Refusals
      <4>3. PICK j \in ConnIds : Refused(conns[j], Input(c))
        BY <1>4, <3>4, <4>1, <4>2 DEF Heard, Refused
      <4>4. ran[c].companion = 0 BY <3>1, <3>4, <4>3 DEF InputOnce
      <4>5. \A k \in ConnIds : ~Holds(conns[k], Input(c))
        BY <3>1, <3>4, <4>3 DEF InputOnce, Answered, Refused
      <4>6. call'[c].stage = "refused" BY <2>3, <3>4
      <4>7. \A k \in ConnIds : Once(conns'[k], Input(c)) /\ ~Holds(conns'[k], Input(c))
        BY <2>1, <3>1, <3>4, <4>5 DEF InputOnce, Fewer
      <4>8. ~(Unsent(c)') BY <4>6 DEF Unsent
      <4>9. ran'[c].companion = 0 BY <1>1, <4>4
      <4>10. QED BY <3>4, <4>6, <4>7, <4>8, <4>9 DEF InputOnce
    <3>5. QED BY <3>2, <3>3, <3>4
  <2>7. \A d \in Calls : call'[d].kind = call[d].kind /\ (ran'[d].adb # 0 => call'[d].stage = "done")
                         /\ (call'[d].stage = "idle" => call'[d].kind = "none")
    BY <1>1, <1>2, <2>2, <2>3 DEF TokenInv
  <2>8. QED BY <1>1, <2>6, <2>7 DEF TokenInv
<1>5. QED BY <1>3, <1>4, AskEffect

\* A step of the phone on connection k, for the input of c.
LEMMA PhoneToken == ASSUME Shape, TokenInv, NEW k \in ConnIds, PhoneStep(k) PROVE TokenInv'
<1> DEFINE x == conns'[k]
           y == conns[k]
<1>1. x \in ConnRecord /\ y \in ConnRecord BY PhoneEffect DEF OnlyConn, Shape
<1>2. /\ call' = call /\ \A j \in ConnIds : j # k => conns'[j] = conns[j]
  BY PhoneEffect DEF OnlyConn, host
<1>3. \A d \in Calls : Unsent(d)' <=> Unsent(d) BY <1>2 DEF Unsent
<1>4. \A j \in ConnIds, r \in Rids : j # k => Fewer(conns'[j], conns[j], r)
  BY <1>2, SameFewer
<1>5. ran \in [Calls -> [companion : Nat, adb : Nat]] BY DEF Shape
<1>6. SUFFICES ASSUME NEW c \in Calls
               PROVE  /\ ran'[c].adb = ran[c].adb
                      /\ ~Acts(call[c].kind) => ran'[c].companion = ran[c].companion
                      /\ Acts(call[c].kind) => InputOnce(c)'
  BY <1>2 DEF TokenInv
<1>7. Input(c) \in Rids BY InputType
\* Nothing happens to the input of c on k.
<1>8. ASSUME Fewer(x, y, Input(c)), ran'[c] = ran[c], Acts(call[c].kind) PROVE InputOnce(c)'
  <2>1. \A j \in ConnIds : Fewer(conns'[j], conns[j], Input(c)) BY <1>4, <1>7, <1>8
  <2>2. InputOnce(c) BY <1>8 DEF TokenInv
  <2>3. QED BY <1>2, <1>3, <1>8, <2>1, <2>2, InputRests
\* The input of c leaves k: it is answered, or refused without having gone in.
<1>9. ASSUME Acts(call[c].kind), Holds(y, Input(c)), ~Holds(x, Input(c)), Once(x, Input(c)),
             ran'[c].companion <= 1, Refused(x, Input(c)) => ran'[c].companion = 0
      PROVE  InputOnce(c)'
  <2>1. InputOnce(c) BY <1>9 DEF TokenInv
  <2>2. \A j \in ConnIds : /\ ~Answered(conns[j], Input(c)) /\ (Holds(conns[j], Input(c)) => j = k)
                           /\ ~Refused(conns[j], Input(c))
    BY <1>9, <2>1 DEF InputOnce, Answered, Refused
  <2>3. \A j \in ConnIds : ~Holds(conns'[j], Input(c)) BY <1>2, <1>9, <2>2
  <2>4. \A j \in ConnIds : Once(conns'[j], Input(c)) BY <1>2, <1>9, <2>1 DEF InputOnce
  <2>5. ~Unsent(c) BY <1>9, <2>1 DEF InputOnce
  <2>6. call'[c].verdict \notin Refusals BY <1>2, <1>9, <2>1 DEF InputOnce
  <2>7. \A j \in ConnIds : Refused(conns'[j], Input(c)) => ran'[c].companion = 0 BY <1>2, <1>9, <2>2
  <2>8. QED BY <1>3, <1>9, <2>3, <2>4, <2>5, <2>6, <2>7 DEF InputOnce
<1>10. Acts(call[c].kind) => Once(y, Input(c)) BY DEF TokenInv, InputOnce
<1>11. Acts(call[c].kind) /\ Holds(y, Input(c)) => ran[c].companion = 0 /\ ~Refused(y, Input(c))
  BY DEF TokenInv, InputOnce, Answered, Refused
<1>12. CASE ran' = ran /\ (Less(x, y) \/ Takes(x, y) \/ Marks(x, y))
  <2>1. Less(x, y) => Fewer(x, y, Input(c)) BY <1>1, <1>7, LessFewer
  <2>2. Takes(x, y) => Fewer(x, y, Input(c)) BY <1>1, <1>7, TakesFewer DEF Takes
  <2>3. Marks(x, y) => Fewer(x, y, Input(c)) BY DEF Marks, Fewer, Holds, Once, Answered, Refused
  <2>4. QED BY <1>8, <1>12, <2>1, <2>2, <2>3
<1>13. CASE ran' = ran /\ Refuses(x, y)
  <2>1. /\ y.doing = Nobody /\ y.inbox # <<>> /\ x.doing = Nobody /\ x.inbox = Tail(y.inbox)
        /\ Says(x, y, Head(y.inbox), "stopped", TRUE, Unseen)
    BY <1>13 DEF Refuses
  <2>2. /\ Holds(x, Input(c)) => Holds(y, Input(c))
        /\ Once(y, Input(c)) => Once(x, Input(c))
        /\ Holds(y, Head(y.inbox))
        /\ Once(y, Head(y.inbox)) => ~Holds(x, Head(y.inbox))
    BY <1>1, <1>7, <2>1, DropsFewer
  <2>3. CASE Input(c) # Head(y.inbox)
    <3>1. Fewer(x, y, Input(c)) BY <1>1, <1>7, <2>1, <2>2, <2>3, SaysFewer DEF Fewer
    <3>2. QED BY <1>8, <1>13, <3>1
  <2>4. CASE Input(c) = Head(y.inbox) BY <1>9, <1>10, <1>11, <1>13, <2>2, <2>4
  <2>5. QED BY <2>3, <2>4
<1>14. ASSUME NEW code, NEW flag, NEW what, Answering(x, y, code, flag, what),
              Input(c) # y.doing \/ ~Acts(call[c].kind), ran'[c] = ran[c]
       PROVE  /\ ran'[c].adb = ran[c].adb
              /\ ~Acts(call[c].kind) => ran'[c].companion = ran[c].companion
              /\ Acts(call[c].kind) => InputOnce(c)'
  BY <1>1, <1>7, <1>8, <1>14, AnsweringFewer
<1>15. ASSUME NEW code, NEW flag, NEW what, Answering(x, y, code, flag, what),
              Input(c) = y.doing, Acts(call[c].kind)
       PROVE  /\ Holds(y, Input(c)) /\ ~Holds(x, Input(c)) /\ Once(x, Input(c))
              /\ Refused(x, Input(c)) => code \in Refusals
  BY <1>1, <1>7, <1>10, <1>11, <1>15, AnsweringFewer
<1>16. CASE Informing(k)
  <2>1. Input(c) # y.doing BY <1>16 DEF Informing, Input
  <2>2. QED BY <1>14, <1>16, <2>1 DEF Informing
<1>17. CASE Observing(k)
  <2>1. Input(c) # y.doing \/ ~Acts(call[c].kind) BY <1>17 DEF Observing, Handles, Input, Acts
  <2>2. QED BY <1>14, <1>17, <2>1 DEF Observing
<1>18. CASE Outdated(k)
  <2>1. ran' = ran /\ Answering(x, y, "stale", FALSE, Unseen) BY <1>18 DEF Outdated
  <2>2. CASE Input(c) # y.doing \/ ~Acts(call[c].kind) BY <1>14, <2>1, <2>2
  <2>3. CASE Input(c) = y.doing /\ Acts(call[c].kind)
    <3>1. Holds(y, Input(c)) /\ ~Holds(x, Input(c)) /\ Once(x, Input(c))
      BY <1>15, <2>1, <2>3
    <3>2. ran'[c].companion = 0 BY <1>11, <2>1, <2>3, <3>1
    <3>3. InputOnce(c)' BY <1>9, <2>3, <3>1, <3>2
    <3>4. QED BY <2>1, <2>3, <3>3
  <2>4. QED BY <2>2, <2>3
<1>19. CASE Performing(k)
  <2>1. PICK code \in {"ok", "rejected"} : Answering(x, y, code, FALSE, Unseen)
    BY <1>19 DEF Performing
  <2>2. y.doing.stage = "companion" /\ Acts(call[y.doing.call].kind)
    BY <1>19 DEF Performing, Acting, Handles, Acts
  <2>3. y.doing = Input(y.doing.call) /\ y.doing.call \in Calls
    BY <2>2, DoingType DEF Input, Requesting
  <2>4. ran' = ran \/ ran' = [ran EXCEPT ![y.doing.call].companion = @ + 1]
    BY <1>19 DEF Performing
  <2>5. CASE c # y.doing.call
    <3>1. ran'[c] = ran[c] BY <1>5, <2>4, <2>5
    <3>2. Input(c) # y.doing BY <2>5 DEF Input
    <3>3. QED BY <1>14, <2>1, <3>1, <3>2
  <2>6. CASE c = y.doing.call
    <3>1. ran'[c].adb = ran[c].adb /\ ran'[c].companion \in {ran[c].companion, ran[c].companion + 1}
      BY <1>5, <2>4, <2>6
    <3>2. Input(c) = y.doing /\ Acts(call[c].kind) BY <2>2, <2>3, <2>6
    <3>3. /\ Holds(y, Input(c)) /\ ~Holds(x, Input(c)) /\ Once(x, Input(c))
          /\ ~Refused(x, Input(c))
      BY <1>15, <2>1, <3>2 DEF Refusals
    <3>4. ran'[c].companion <= 1 BY <1>11, <3>1, <3>2, <3>3
    <3>5. InputOnce(c)' BY <1>9, <3>2, <3>3, <3>4
    <3>6. QED BY <3>1, <3>2, <3>5
  <2>7. QED BY <2>5, <2>6
<1>20. QED BY <1>12, <1>13, <1>16, <1>17, <1>18, <1>19, PhoneEffect

LEMMA DiesToken == ASSUME Shape, TokenInv, CompanionDies PROVE TokenInv'
<1>1. /\ Shrunk(conns') /\ call' = call
      /\ \A k \in ConnIds : conns'[k].inbox = <<>> /\ conns'[k].doing = Nobody
      /\ ran' \in [Calls -> [companion : Nat, adb : Nat]]
  BY DiesEffect DEF host
<1>2. \A d \in Calls : Unsent(d)' <=> Unsent(d) BY <1>1 DEF Unsent
<1>3. ASSUME NEW c \in Calls, NEW k \in ConnIds
      PROVE  Fewer(conns'[k], conns[k], Input(c)) /\ ~Holds(conns'[k], Input(c))
  <2>1. Fewer(conns'[k], conns[k], Input(c)) BY <1>1, InputType, LessFewer DEF Shrunk, Shape
  <2>2. Input(c) # Nobody BY InputType, NobodyIsNone
  <2>3. DOMAIN <<>> = {} OBVIOUS
  <2>4. QED BY <1>1, <2>1, <2>2, <2>3 DEF Holds
<1>4. ASSUME NEW c \in Calls
      PROVE  \A k \in ActingFor(c) : /\ k \in ConnIds /\ Acts(call[c].kind) /\ Holds(conns[k], Input(c))
  <2> SUFFICES ASSUME NEW k \in ActingFor(c)
               PROVE  k \in ConnIds /\ Acts(call[c].kind) /\ Holds(conns[k], Input(c))
    OBVIOUS
  <2>1. k \in ConnIds /\ Acting(k) /\ conns[k].doing.call = c BY DEF ActingFor
  <2>2. conns[k].doing.stage = "companion" /\ Acts(call[c].kind) BY <2>1 DEF Acting, Handles, Acts
  <2>3. conns[k].doing = Input(c) BY <2>1, <2>2, DoingType DEF Input, Requesting
  <2>4. QED BY <2>1, <2>2, <2>3 DEF Holds
<1>5. ASSUME NEW c \in Calls, ActingFor(c) = {}
      PROVE  ran'[c].companion = ran[c].companion /\ (Acts(call[c].kind) => InputOnce(c)')
  <2>1. ran'[c].companion = ran[c].companion BY <1>5, DiesEffect
  <2>2. QED BY <1>1, <1>2, <1>3, <2>1, InputRests DEF TokenInv
<1>6. ASSUME NEW c \in Calls, NEW k \in ActingFor(c) PROVE Acts(call[c].kind) /\ InputOnce(c)'
  <2>1. k \in ConnIds /\ Acts(call[c].kind) /\ Holds(conns[k], Input(c)) BY <1>4
  <2>2. InputOnce(c) BY <2>1 DEF TokenInv
  <2>3. /\ ran[c].companion = 0
        /\ \A j \in ConnIds : ~Answered(conns[j], Input(c)) /\ (Holds(conns[j], Input(c)) => j = k)
    BY <2>1, <2>2 DEF InputOnce
  <2>4. ActingFor(c) \subseteq {k} BY <1>4, <2>3
  <2>5. ran'[c].companion <= ran[c].companion + 1 BY <2>1, <2>4, DiesEffect
  <2>6. ran'[c].companion <= 1 BY <2>3, <2>5
  <2>7. \A j \in ConnIds : ~Refused(conns[j], Input(c)) BY <2>3 DEF Refused, Answered
  <2>8. \A j \in ConnIds : /\ ~Holds(conns'[j], Input(c)) /\ ~Refused(conns'[j], Input(c))
                           /\ Once(conns'[j], Input(c))
    BY <1>3, <2>2, <2>7 DEF Fewer, InputOnce
  <2>9. ~Unsent(c) /\ call[c].verdict \notin Refusals BY <2>1, <2>2 DEF InputOnce
  <2>10. QED BY <1>1, <1>2, <2>1, <2>6, <2>8, <2>9 DEF InputOnce
<1>7. \A c \in Calls : ran'[c].adb = ran[c].adb BY DiesEffect
<1>8. QED BY <1>1, <1>5, <1>6, <1>7 DEF TokenInv

LEMMA StepToken == ASSUME Shape, LineInv, TokenInv, [Next]_vars PROVE TokenInv'
<1>1. ran \in [Calls -> [companion : Nat, adb : Nat]] BY DEF Shape
<1>2. ASSUME NEW c \in Calls, NEW kind \in Kinds, Begin(c, kind) PROVE TokenInv'
  <2>1. /\ Moving(c) /\ call[c].stage = "idle" /\ call'[c].kind = kind /\ conns' = conns /\ ran' = ran
        /\ call'[c].stage = (IF Acts(kind) THEN "check" ELSE "scan")
    BY <1>2, BeginEffect
  <2>2. Acts(call[c].kind) BY <2>1 DEF TokenInv, Acts
  <2>3. InputOnce(c) /\ Unsent(c) BY <2>1, <2>2 DEF TokenInv, Unsent
  <2>4. ran[c].companion = 0 /\ call[c].verdict \notin Refusals BY <2>1, <2>3 DEF InputOnce
  <2>5. ran[c].adb = 0 BY <2>1 DEF TokenInv
  <2>6. call'[c].stage # "idle" BY <2>1
  <2>7. QED BY <2>1, <2>2, <2>3, <2>4, <2>5, <2>6, MovesToken
<1>3. ASSUME NEW c \in Calls, ScanFromCache(c) PROVE TokenInv'
  <2>1. /\ Stepping(c) /\ call[c].stage = "scan" /\ ~call[c].waits /\ conns' = conns /\ ran' = ran
        /\ call'[c].stage \in {"companion", "adb", "failed"}
    BY <1>3, CacheEffect
  <2>2. Moving(c) /\ call'[c].kind = call[c].kind BY <2>1 DEF Stepping
  <2>3. Unsent(c) BY <2>1 DEF Unsent
  <2>4. call[c].verdict \notin Refusals \/ ~Acts(call[c].kind) BY <2>1 DEF TokenInv, InputOnce
  <2>5. ran[c].adb = 0 /\ (~Acts(call[c].kind) => ran[c].companion = 0) BY <2>1 DEF TokenInv
  <2>6. call'[c].stage # "idle" BY <2>1
  <2>7. QED BY <2>1, <2>2, <2>3, <2>4, <2>5, <2>6, MovesToken
<1>4. ASSUME NEW c \in Calls, AdbCall(c) PROVE TokenInv'
  <2>1. /\ Stepping(c) /\ call[c].stage = "adb" /\ conns' = conns /\ call'[c].stage = "done"
        /\ \A d \in Calls : ran'[d].companion = ran[d].companion
        /\ \A d \in Calls : d # c \/ ~Acts(call[c].kind) => ran'[d].adb = ran[d].adb
    BY <1>4, AdbEffect
  <2>2. Moving(c) /\ call'[c].kind = call[c].kind BY <2>1 DEF Stepping
  <2>3. ~(Unsent(c)') BY <2>1 DEF Unsent
  <2>4. call[c].verdict \notin Refusals \/ ~Acts(call[c].kind) BY <2>1 DEF TokenInv, InputOnce
  <2>5. ~Acts(call[c].kind) => ran[c].companion = 0 /\ ran'[c].adb = 0 BY <2>1 DEF TokenInv
  <2>6. QED BY <2>1, <2>2, <2>3, <2>4, <2>5, MovesToken
<1>5. CASE Quietly \/ UNCHANGED vars
  <2>1. UNCHANGED <<call, conns, ran>>
    BY <1>5 DEF Quietly, ConnGrowsOld, PingExpires, TreeChanges, SetStopped, CompanionStarts,
                host, vars
  <2>2. \A d \in Calls : Unsent(d)' <=> Unsent(d) BY <2>1 DEF Unsent
  <2>3. QED BY <2>1, <2>2 DEF TokenInv, InputOnce
<1>6. QED BY <1>2, <1>3, <1>4, <1>5, AskToken, PhoneToken, DiesToken, NextCases

LEMMA InitToken == Init => TokenInv
<1> SUFFICES ASSUME Init, NEW c \in Calls
             PROVE  /\ ran[c].adb = 0 /\ ran[c].companion = 0 /\ call[c].kind = "none"
                    /\ InputOnce(c)
  BY DEF TokenInv, Acts
<1>1. /\ ran[c].adb = 0 /\ ran[c].companion = 0 /\ call[c].kind = "none"
      /\ call[c].stage = "idle" /\ call[c].verdict = "none"
  BY DEF Init
<1>2. \A k \in ConnIds : conns[k].inbox = <<>> /\ conns[k].doing = Nobody /\ conns[k].outbox = <<>>
  BY DEF Init, Closed
<1>3. Input(c) # Nobody BY InputType, NobodyIsNone
<1>4. DOMAIN <<>> = {} OBVIOUS
<1>5. \A k \in ConnIds : /\ ~Holds(conns[k], Input(c)) /\ ~Answered(conns[k], Input(c))
                         /\ ~Refused(conns[k], Input(c)) /\ Once(conns[k], Input(c))
  BY <1>2, <1>3, <1>4 DEF Holds, Answered, Refused, Once
<1>6. QED BY <1>1, <1>5 DEF InputOnce, Refusals

THEOREM TokenInvariant == Spec => [](Shape /\ LineInv /\ TokenInv)
<1>1. (Shape /\ LineInv /\ TokenInv) /\ [Next]_vars => (Shape /\ LineInv /\ TokenInv)'
  BY StepShape, StepLine, StepToken
<1>2. QED BY <1>1, InitLink, InitToken, PTL DEF Spec

\* However often connections break, answers are lost and the companion dies in the
\* middle of it, the companion performs the input of a call at most once.
THEOREM CompanionNeverActsTwice == Spec => []CompanionActsOnce
<1>1. Shape /\ LineInv /\ TokenInv => CompanionActsOnce
  BY DEF TokenInv, InputOnce, CompanionActsOnce
<1>2. QED BY <1>1, TokenInvariant, PTL

\* A refusal that was heard came from a request that put nothing in and is not
\* under way any more, and ADB is not asked after it.
THEOREM RefusalsAreFinal == Spec => []RefusalIsFinal
<1>1. Shape /\ LineInv /\ TokenInv => RefusalIsFinal
  <2> SUFFICES ASSUME Shape, TokenInv, NEW c \in Calls, call[c].verdict \in Refusals
               PROVE  ran[c] = [companion |-> 0, adb |-> 0]
    BY DEF RefusalIsFinal, Refusals
  <2>1. ran[c].companion = 0 /\ ran[c].adb = 0 BY DEF TokenInv, InputOnce
  <2>2. ran[c] \in [companion : Nat, adb : Nat] BY DEF Shape
  <2>3. QED BY <2>1, <2>2
<1>2. QED BY <1>1, TokenInvariant, PTL

-----------------------------------------------------------------------------
(* STOP on the phone.                                                       *)

\* Connection x has something of call c: to do, under way or sent back.
About(x, c) ==
    \/ x.doing.call = c \/ \E n \in DOMAIN x.inbox : x.inbox[n].call = c
    \/ \E n \in DOMAIN x.outbox : x.outbox[n].rid.call = c
\* What x has sent back to the question of call c whether STOP is engaged.
Permits(x, c) ==
    \E n \in DOMAIN x.outbox :
        x.outbox[n].rid = [call |-> c, stage |-> "check"] /\ ~x.outbox[n].flag

\* A call made under STOP has asked, or was refused; no answer to it says that STOP
\* is off, and its input is nowhere.
StopInv ==
    /\ born # {} => stopped
    /\ \A c \in Calls : call[c].stage = "idle" => \A k \in ConnIds : ~About(conns[k], c)
    /\ \A c \in born :
        /\ call[c].stage # "idle"
        /\ \A k \in ConnIds : ~Permits(conns[k], c)
        /\ Acts(call[c].kind) => /\ call[c].stage \in {"check", "refused"}
                                 /\ ran[c].companion = 0
                                 /\ \A k \in ConnIds : ~Holds(conns[k], Input(c))

LEMMA LessAbout ==
    ASSUME NEW x \in ConnRecord, NEW y \in ConnRecord, Less(x, y), NEW c \in Calls
    PROVE  (About(x, c) => About(y, c)) /\ (Permits(x, c) => Permits(y, c))
<1>1. x.inbox = y.inbox \/ x.inbox = <<>> BY DEF Less
<1>2. x.outbox = y.outbox \/ x.outbox = <<>> BY DEF Less
<1>3. x.doing = y.doing \/ x.doing = Nobody BY DEF Less
<1>4. Nobody.call # c BY CallNotNobody DEF Nobody
<1>5. DOMAIN <<>> = {} OBVIOUS
<1>6. About(x, c) => About(y, c) BY <1>1, <1>2, <1>3, <1>4, <1>5 DEF About
<1>7. Permits(x, c) => Permits(y, c) BY <1>2, <1>5 DEF Permits
<1>8. QED BY <1>6, <1>7

\* Connection x has sent back something on call c.
Told(x, c) == \E n \in DOMAIN x.outbox : x.outbox[n].rid.call = c

\* An answer is about the call it answers, and permits only if it is one to its
\* question and says so.
LEMMA SaysAbout ==
    ASSUME NEW x \in ConnRecord, NEW y \in ConnRecord, NEW r, NEW code, NEW flag, NEW what,
           Says(x, y, r, code, flag, what), NEW c \in Calls
    PROVE  /\ r.call # c => (Told(x, c) => Told(y, c))
           /\ r.stage # "check" \/ flag = TRUE => (Permits(x, c) => Permits(y, c))
<1> DEFINE a == [rid |-> r, code |-> code, flag |-> flag, seen |-> what]
<1>1. y.outbox \in Seq(AnswerRecord) BY DEF ConnRecord
<1>2. CASE x.outbox = y.outbox BY <1>2 DEF Permits, Told
<1>3. CASE x.outbox = Append(y.outbox, a)
  <2>1. a.rid = r /\ a.flag = flag OBVIOUS
  <2> HIDE DEF a
  <2>2. ASSUME NEW n \in DOMAIN x.outbox
        PROVE  x.outbox[n] = a \/ (n \in DOMAIN y.outbox /\ x.outbox[n] = y.outbox[n])
    BY <1>1, <1>3
  <2>3. QED BY <2>1, <2>2 DEF Permits, Told
<1>4. QED BY <1>2, <1>3 DEF Says

LEMMA PhoneAbout ==
    ASSUME Shape, NEW k \in ConnIds, PhoneStep(k), NEW c \in Calls
    PROVE  /\ About(conns'[k], c) => About(conns[k], c)
           /\ stopped /\ Permits(conns'[k], c) => Permits(conns[k], c)
           /\ Holds(conns'[k], Input(c)) => Holds(conns[k], Input(c))
<1> DEFINE x == conns'[k]
           y == conns[k]
<1>1. x \in ConnRecord /\ y \in ConnRecord BY PhoneEffect DEF OnlyConn, Shape
<1>2. Nobody.call # c /\ Nobody \notin Rids BY CallNotNobody, NobodyIsNone DEF Nobody
<1>3. Input(c) \in Rids BY InputType
<1>4. CASE Less(x, y) BY <1>1, <1>3, <1>4, LessAbout, LessFewer DEF Fewer
<1>5. ASSUME y.inbox # <<>>
      PROVE  /\ Head(y.inbox) = y.inbox[1] /\ 1 \in DOMAIN y.inbox /\ Head(y.inbox) \in Rids
             /\ \A n \in DOMAIN Tail(y.inbox) : n + 1 \in DOMAIN y.inbox /\ Tail(y.inbox)[n] = y.inbox[n + 1]
  <2>1. y.inbox \in Seq(Rids) BY <1>1 DEF ConnRecord
  <2>2. QED BY <1>5, <2>1
<1>6. CASE Takes(x, y)
  <2>1. y.inbox # <<>> /\ x.inbox = Tail(y.inbox) /\ x.doing = Head(y.inbox) /\ x.outbox = y.outbox
        /\ y.doing = Nobody
    BY <1>6 DEF Takes
  <2>2. About(x, c) => About(y, c) BY <1>5, <2>1 DEF About
  <2>3. Permits(x, c) => Permits(y, c) BY <2>1 DEF Permits
  <2>4. QED BY <1>1, <1>3, <2>1, <2>2, <2>3, TakesFewer DEF Fewer
<1>7. CASE Refuses(x, y)
  <2>1. /\ y.inbox # <<>> /\ x.inbox = Tail(y.inbox) /\ x.doing = Nobody /\ y.doing = Nobody
        /\ Head(y.inbox).stage = "companion" /\ Says(x, y, Head(y.inbox), "stopped", TRUE, Unseen)
    BY <1>7 DEF Refuses
  <2>2. Head(y.inbox).stage # "check" BY <2>1
  <2>3. About(x, c) => About(y, c)
    <3>1. Head(y.inbox).call # c => (Told(x, c) => Told(y, c)) BY <1>1, <2>1, SaysAbout
    <3>2. Head(y.inbox).call = c => About(y, c) BY <1>5, <2>1 DEF About
    <3>3. \A n \in DOMAIN x.inbox : x.inbox[n].call = c => About(y, c) BY <1>5, <2>1 DEF About
    <3>4. x.doing.call # c BY <1>2, <2>1
    <3>5. QED BY <3>1, <3>2, <3>3, <3>4 DEF About, Told
  <2>4. Permits(x, c) => Permits(y, c) BY <1>1, <2>1, <2>2, SaysAbout
  <2>5. QED BY <1>1, <1>3, <2>1, <2>3, <2>4, DropsFewer
<1>8. CASE Marks(x, y) BY <1>8 DEF Marks, About, Permits, Holds
<1>9. ASSUME NEW code, NEW flag \in BOOLEAN, NEW what, Answering(x, y, code, flag, what),
             y.doing.stage = "check" => flag = stopped
      PROVE  /\ About(x, c) => About(y, c)
             /\ stopped /\ Permits(x, c) => Permits(y, c)
             /\ Holds(x, Input(c)) => Holds(y, Input(c))
  <2>1. y.doing \in Rids /\ x.doing = Nobody /\ x.inbox = y.inbox /\ Says(x, y, y.doing, code, flag, what)
    BY <1>9 DEF Answering
  <2>2. About(x, c) => About(y, c)
    <3>1. y.doing.call # c => (Told(x, c) => Told(y, c)) BY <1>1, <2>1, SaysAbout
    <3>2. QED BY <1>2, <2>1, <3>1 DEF About, Told
  <2>3. ASSUME stopped, Permits(x, c) PROVE Permits(y, c)
    <3>1. stopped = TRUE BY <2>3 DEF Shape
    <3>2. y.doing.stage # "check" \/ flag = TRUE BY <1>9, <3>1
    <3>3. Says(x, y, y.doing, code, flag, what) BY <2>1
    <3> HIDE DEF x, y
    <3>4. Permits(x, c) => Permits(y, c) BY <1>1, <3>2, <3>3, SaysAbout
    <3>5. QED BY <2>3, <3>4
  <2>4. QED BY <1>1, <1>3, <1>9, <2>2, <2>3, AnsweringFewer
<1>10. CASE Informing(k)
  <2>1. stopped \in BOOLEAN BY DEF Shape
  <2>2. QED BY <1>9, <1>10, <2>1 DEF Informing
<1>11. CASE Observing(k) \/ Outdated(k) \/ Performing(k)
  <2>1. y.doing.stage = "companion" BY <1>11 DEF Observing, Outdated, Performing, Acting, Handles
  <2>2. QED BY <1>9, <1>11, <2>1 DEF Observing, Outdated, Performing
<1>12. QED BY <1>4, <1>6, <1>7, <1>8, <1>10, <1>11, PhoneEffect

\* Only the ones that were not refused go on.
LEMMA AskStop ==
    ASSUME Shape, LineInv, TokenInv, StopInv, NEW c \in Calls, Asks(c) PROVE StopInv'
<1>1. UNCHANGED <<screen, ran, born>> /\ call[c].stage \in Requesting BY AskEffect
<1>2. call[c].stage # "idle" /\ stopped' = stopped /\ ran' = ran /\ born' = born /\ born \subseteq Calls
  BY <1>1 DEF Requesting, screen, Shape
<1>3. PICK cs : /\ Shrunk(cs)
                /\ \/ \E k \in ConnIds : Sending(c, k, cs)
                   \/ /\ conns' = cs
                      /\ \E code \in Codes, flag \in BOOLEAN, what \in Sighting :
                            Heard(c, code, flag, what) /\ Ending(c, code, flag, what)
  BY AskEffect
<1>4. ASSUME NEW d \in Calls, NEW j \in ConnIds
      PROVE  /\ About(cs[j], d) => About(conns[j], d)
             /\ Permits(cs[j], d) => Permits(conns[j], d)
             /\ Holds(cs[j], Input(d)) => Holds(conns[j], Input(d))
  BY <1>3, InputType, LessAbout, LessFewer DEF Shrunk, Shape, Fewer
<1>5. ASSUME NEW k \in ConnIds, Sending(c, k, cs) PROVE StopInv'
  <2>1. \A d \in Calls : call'[d].kind = call[d].kind /\ call'[d].stage = call[d].stage
    BY <1>5 DEF Sending
  <2>2. ASSUME NEW d \in Calls, NEW j \in ConnIds
        PROVE  /\ d # c /\ About(conns'[j], d) => About(conns[j], d)
               /\ Permits(conns'[j], d) => Permits(conns[j], d)
               /\ Input(d) # Rid(c) /\ Holds(conns'[j], Input(d)) => Holds(conns[j], Input(d))
    <3>1. CASE conns'[j] = cs[j] BY <1>4, <3>1
    <3>2. CASE conns'[j] # cs[j]
      <4>1. /\ conns'[j].inbox = Append(cs[j].inbox, Rid(c))
            /\ conns'[j].doing = cs[j].doing /\ conns'[j].outbox = cs[j].outbox
        BY <1>5, <3>2 DEF Sending
      <4>2. cs[j].inbox \in Seq(Rids) BY <1>3 DEF Shrunk, ConnRecord
      <4>3. \A n \in DOMAIN conns'[j].inbox :
              conns'[j].inbox[n] = Rid(c) \/ (n \in DOMAIN cs[j].inbox /\ conns'[j].inbox[n] = cs[j].inbox[n])
        BY <4>1, <4>2
      <4>4. Rid(c).call = c BY DEF Rid
      <4>5. d # c /\ About(conns'[j], d) => About(cs[j], d) BY <4>1, <4>3, <4>4 DEF About
      <4>6. Permits(conns'[j], d) => Permits(cs[j], d) BY <4>1 DEF Permits
      <4>7. Input(d) # Rid(c) /\ Holds(conns'[j], Input(d)) => Holds(cs[j], Input(d))
        BY <4>1, <4>3 DEF Holds
      <4>8. QED BY <1>4, <4>5, <4>6, <4>7
    <3>3. QED BY <3>1, <3>2
  <2>3. ASSUME NEW d \in Calls, call[d].stage = "idle", NEW j \in ConnIds PROVE ~About(conns'[j], d)
    BY <1>2, <2>2, <2>3 DEF StopInv
  <2>4. ASSUME NEW d \in born, Acts(call[d].kind) PROVE Input(d) # Rid(c)
    BY <1>2, <2>4 DEF StopInv, Input, Rid
  <2>5. QED BY <1>2, <2>1, <2>2, <2>3, <2>4 DEF StopInv
<1>6. ASSUME conns' = cs, NEW code \in Codes, NEW flag \in BOOLEAN, NEW what \in Sighting,
             Heard(c, code, flag, what), Ending(c, code, flag, what)
      PROVE  StopInv'
  <2>1. \A d \in Calls : d # c => call'[d] = call[d] BY <1>6 DEF Ending
  <2>2. call'[c].kind = call[c].kind BY <1>6 DEF Ending
  <2>3. Ends(c, code, flag, call'[c].stage) BY <1>6 DEF Ending
  <2>4. call'[c].stage # "idle" BY <1>1, <2>3, AfterTypes DEF Ends, Requesting
  <2>5. ASSUME c \in born, Acts(call[c].kind) PROVE call'[c].stage = "refused"
    <3>1. call[c].stage = "check" /\ (\A k \in ConnIds : ~Permits(conns[k], c))
      BY <1>1, <2>5 DEF StopInv, Requesting
    <3>2. Rid(c) = [call |-> c, stage |-> "check"] BY <3>1 DEF Rid
    <3>3. code # "ok" \/ flag BY <1>6, <3>1, <3>2 DEF Heard, Permits
    <3>4. QED BY <2>3, <3>1, <3>3 DEF Ends, AfterCheck
  <2>6. \A d \in Calls : call'[d].stage = "idle" => call[d].stage = "idle" BY <2>1, <2>4
  <2>7. ASSUME NEW d \in born
        PROVE  /\ call'[d].stage # "idle"
               /\ \A k \in ConnIds : ~Permits(conns'[k], d)
               /\ Acts(call'[d].kind) => /\ call'[d].stage \in {"check", "refused"}
                                         /\ ran'[d].companion = 0
                                         /\ \A k \in ConnIds : ~Holds(conns'[k], Input(d))
    BY <1>2, <1>4, <1>6, <2>1, <2>2, <2>4, <2>5 DEF StopInv
  <2>8. ASSUME NEW d \in Calls, call'[d].stage = "idle", NEW k \in ConnIds PROVE ~About(conns'[k], d)
    BY <1>4, <1>6, <2>6, <2>8 DEF StopInv
  <2>9. QED BY <1>2, <2>7, <2>8 DEF StopInv
<1>7. QED BY <1>3, <1>5, <1>6

\* Who is about to act holds the input.
LEMMA ActingHolds ==
    ASSUME Shape, NEW k \in ConnIds, Acting(k)
    PROVE  /\ conns[k].doing.call \in Calls /\ Acts(call[conns[k].doing.call].kind)
           /\ Holds(conns[k], Input(conns[k].doing.call))
<1>1. conns[k].doing.stage = "companion" /\ Acts(call[conns[k].doing.call].kind)
  BY DEF Acting, Handles, Acts
<1>2. conns[k].doing.call \in Calls /\ conns[k].doing = Input(conns[k].doing.call)
  BY <1>1, DoingType DEF Input, Requesting
<1>3. QED BY <1>1, <1>2 DEF Holds

\* A step of the phone, or its death, brings nothing to a call made under STOP.
LEMMA PhoneStop ==
    ASSUME Shape, StopInv, call' = call, born' = born, stopped' = stopped,
           stopped => \A k \in ConnIds, c \in Calls : Permits(conns'[k], c) => Permits(conns[k], c),
           \A k \in ConnIds, c \in Calls :
                /\ About(conns'[k], c) => About(conns[k], c)
                /\ Holds(conns'[k], Input(c)) => Holds(conns[k], Input(c)),
           \A c \in Calls : (\A k \in ConnIds : ~Holds(conns[k], Input(c))) =>
                                ran'[c].companion = ran[c].companion
    PROVE  StopInv'
<1>1. born \subseteq Calls BY DEF Shape
<1>2. ASSUME NEW c \in born PROVE stopped /\ c \in Calls BY <1>1, <1>2 DEF StopInv
<1>3. ASSUME NEW c \in born
      PROVE  /\ call'[c].stage # "idle"
             /\ \A k \in ConnIds : ~Permits(conns'[k], c)
             /\ Acts(call'[c].kind) => /\ call'[c].stage \in {"check", "refused"}
                                       /\ ran'[c].companion = 0
                                       /\ \A k \in ConnIds : ~Holds(conns'[k], Input(c))
  BY <1>2 DEF StopInv
<1>4. QED BY <1>3 DEF StopInv

LEMMA StepStop == ASSUME Shape, LineInv, TokenInv, StopInv, [Next]_vars PROVE StopInv'
<1>1. born \subseteq Calls BY DEF Shape
<1>2. ASSUME NEW c \in Calls, NEW kind \in Kinds, Begin(c, kind) PROVE StopInv'
  <2>1. /\ Moving(c) /\ call[c].stage = "idle" /\ call'[c].kind = kind /\ conns' = conns /\ ran' = ran
        /\ call'[c].stage = (IF Acts(kind) THEN "check" ELSE "scan") /\ stopped' = stopped
        /\ born' = (IF stopped THEN born \cup {c} ELSE born)
    BY <1>2, BeginEffect DEF screen
  <2>2. \A d \in Calls : d # c => call'[d] = call[d] BY <2>1 DEF Moving
  <2>3. \A k \in ConnIds : ~About(conns[k], c) BY <2>1 DEF StopInv
  <2>4. \A k \in ConnIds : ~Permits(conns[k], c) BY <2>3 DEF About, Permits
  <2>5. ran[c].companion = 0 /\ \A k \in ConnIds : ~Holds(conns[k], Input(c))
    <3>1. InputOnce(c) /\ Unsent(c) BY <2>1 DEF TokenInv, Acts, Unsent
    <3>2. QED BY <3>1 DEF InputOnce
  <2>6. ASSUME NEW d \in born'
        PROVE  /\ stopped /\ call'[d].stage # "idle"
               /\ \A k \in ConnIds : ~Permits(conns[k], d)
               /\ Acts(call'[d].kind) => /\ call'[d].stage \in {"check", "refused"}
                                         /\ ran[d].companion = 0
                                         /\ \A k \in ConnIds : ~Holds(conns[k], Input(d))
    <3>1. CASE d = c /\ stopped BY <2>1, <2>4, <2>5, <3>1
    <3>2. CASE d \in born /\ d # c BY <1>1, <2>2, <3>2 DEF StopInv
    <3>3. c \notin born BY <2>1 DEF StopInv
    <3>4. QED BY <2>1, <3>1, <3>2, <3>3
  <2>7. ASSUME NEW d \in Calls, call'[d].stage = "idle" PROVE \A k \in ConnIds : ~About(conns[k], d)
    BY <2>1, <2>2, <2>7 DEF StopInv
  <2>8. QED BY <2>1, <2>6, <2>7 DEF StopInv
<1>3. ASSUME NEW c \in Calls, ScanFromCache(c) \/ AdbCall(c) PROVE StopInv'
  <2>1. /\ Stepping(c) /\ call[c].stage \in {"scan", "adb"} /\ conns' = conns
        /\ call'[c].stage \in {"companion", "adb", "failed", "done"}
        /\ stopped' = stopped /\ born' = born
        /\ \A d \in Calls : ran'[d].companion = ran[d].companion
    BY <1>3, CacheEffect, AdbEffect DEF screen
  <2>2. (\A d \in Calls : d # c => call'[d] = call[d]) /\ call'[c].kind = call[c].kind
    BY <2>1 DEF Stepping, Moving
  <2>3. c \in born => ~Acts(call[c].kind) BY <2>1 DEF StopInv
  <2>4. ASSUME NEW d \in born
        PROVE  /\ call'[d].stage # "idle"
               /\ \A k \in ConnIds : ~Permits(conns[k], d)
               /\ Acts(call'[d].kind) => /\ call'[d].stage \in {"check", "refused"}
                                         /\ ran'[d].companion = 0
                                         /\ \A k \in ConnIds : ~Holds(conns[k], Input(d))
    BY <1>1, <2>1, <2>2, <2>3 DEF StopInv
  <2>5. ASSUME NEW d \in Calls, call'[d].stage = "idle" PROVE \A k \in ConnIds : ~About(conns[k], d)
    BY <2>1, <2>2, <2>5 DEF StopInv
  <2>6. QED BY <2>1, <2>4, <2>5 DEF StopInv
<1>4. ASSUME NEW k \in ConnIds, PhoneStep(k) PROVE StopInv'
  <2>1. /\ call' = call /\ born' = born /\ stopped' = stopped
        /\ \A j \in ConnIds : j # k => conns'[j] = conns[j]
    BY <1>4, PhoneEffect DEF OnlyConn, host, screen
  <2>2. stopped => \A j \in ConnIds, c \in Calls : Permits(conns'[j], c) => Permits(conns[j], c)
    BY <1>4, <2>1, PhoneAbout
  <2>3. \A j \in ConnIds, c \in Calls :
            /\ About(conns'[j], c) => About(conns[j], c)
            /\ Holds(conns'[j], Input(c)) => Holds(conns[j], Input(c))
    BY <1>4, <2>1, PhoneAbout
  <2>4. ran' = ran \/ (Acting(k) /\ ran' = [ran EXCEPT ![conns[k].doing.call].companion = @ + 1])
    BY <1>4, PhoneEffect DEF Informing, Observing, Outdated, Performing
  <2>5. ASSUME NEW c \in Calls, \A j \in ConnIds : ~Holds(conns[j], Input(c))
        PROVE  ran'[c].companion = ran[c].companion
    <3>1. Acting(k) => c # conns[k].doing.call BY <2>5, ActingHolds
    <3>2. ran \in [Calls -> [companion : Nat, adb : Nat]] BY DEF Shape
    <3>3. QED BY <2>4, <3>1, <3>2
  <2>6. QED BY <2>1, <2>2, <2>3, <2>5, PhoneStop
<1>5. CASE CompanionDies
  <2>1. Shrunk(conns') /\ UNCHANGED <<call, born, stopped>> BY <1>5, DiesEffect DEF host
  <2>2. ASSUME NEW k \in ConnIds, NEW c \in Calls
        PROVE  /\ About(conns'[k], c) => About(conns[k], c)
               /\ Permits(conns'[k], c) => Permits(conns[k], c)
               /\ Holds(conns'[k], Input(c)) => Holds(conns[k], Input(c))
    BY <2>1, InputType, LessAbout, LessFewer DEF Shrunk, Shape, Fewer
  <2>3. ASSUME NEW c \in Calls, \A j \in ConnIds : ~Holds(conns[j], Input(c))
        PROVE  ran'[c].companion = ran[c].companion
    <3>1. ActingFor(c) = {} BY <2>3, ActingHolds DEF ActingFor
    <3>2. QED BY <1>5, <3>1, DiesEffect
  <2>4. QED BY <2>1, <2>2, <2>3, PhoneStop
<1>6. ASSUME NEW flag \in BOOLEAN, SetStopped(flag) PROVE StopInv'
  <2>1. /\ stopped # flag /\ stopped' = flag /\ born' = (IF flag THEN born ELSE {})
        /\ UNCHANGED <<call, conns, ran>>
    BY <1>6 DEF SetStopped, host
  <2>2. born' = {}
    <3>1. CASE flag BY <2>1, <3>1 DEF StopInv
    <3>2. CASE ~flag BY <2>1, <3>2
    <3>3. QED BY <3>1, <3>2
  <2>3. QED BY <2>1, <2>2 DEF StopInv
<1>7. CASE ConnGrowsOld \/ PingExpires \/ TreeChanges \/ CompanionStarts \/ UNCHANGED vars
  <2>1. UNCHANGED <<call, conns, ran, born, stopped>>
    BY <1>7 DEF ConnGrowsOld, PingExpires, TreeChanges, CompanionStarts, host, screen, vars
  <2>2. QED BY <2>1 DEF StopInv
<1>8. QED BY <1>2, <1>3, <1>4, <1>5, <1>6, <1>7, AskStop, NextCases DEF Quietly

LEMMA InitStop == Init => StopInv
<1> SUFFICES ASSUME Init PROVE StopInv OBVIOUS
<1>1. born = {} BY DEF Init
<1>2. ASSUME NEW c \in Calls, NEW k \in ConnIds PROVE ~About(conns[k], c)
  BY CallNotNobody DEF Init, Closed, Nobody, About
<1>3. QED BY <1>1, <1>2 DEF StopInv

THEOREM StopInvariant == Spec => [](Shape /\ LineInv /\ TokenInv /\ StopInv)
<1>1. (Shape /\ LineInv /\ TokenInv /\ StopInv) /\ [Next]_vars
        => (Shape /\ LineInv /\ TokenInv /\ StopInv)'
  BY StepShape, StepLine, StepToken, StepStop
<1>2. QED BY <1>1, InitLink, InitToken, InitStop, PTL DEF Spec

\* A call that is made while STOP is engaged puts nothing in, by the companion or by
\* ADB, as long as STOP is not released: its question is answered "stopped" or not at
\* all, and both refuse it.
THEOREM StopIsHonoured == Spec => []StopHonoured
<1>1. Shape /\ LineInv /\ TokenInv /\ StopInv => StopHonoured
  <2> SUFFICES ASSUME Shape, TokenInv, StopInv, NEW c \in born
               PROVE  ran[c] = [companion |-> 0, adb |-> 0]
    BY DEF StopHonoured
  <2>1. c \in Calls BY DEF Shape
  <2>2. ran[c].companion = 0 /\ ran[c].adb = 0
    <3>1. CASE Acts(call[c].kind)
      <4>1. call[c].stage \in {"check", "refused"} /\ ran[c].companion = 0 BY <3>1 DEF StopInv
      <4>2. call[c].stage # "done" BY <4>1
      <4>3. QED BY <2>1, <4>1, <4>2 DEF TokenInv
    <3>2. CASE ~Acts(call[c].kind) BY <2>1, <3>2 DEF TokenInv
    <3>3. QED BY <3>1, <3>2
  <2>3. ran[c] \in [companion : Nat, adb : Nat] BY <2>1 DEF Shape
  <2>4. QED BY <2>2, <2>3
<1>2. QED BY <1>1, StopInvariant, PTL
=============================================================================
