----------------------- MODULE DeliveryHandlingProofs -----------------------
(***************************************************************************)
(* What is done was handled, the connection that reads is the newest one,  *)
(* no signal is handled by two tasks, receipts only move forward, turns    *)
(* begin in the order of sending and every pending receipt has an owner: for *)
(* every number of messages, signals, chats, connections and faults.       *)
(***************************************************************************)
EXTENDS ReliableDeliveryProofs

USE DEF durable, server, conn, threads, vars

-----------------------------------------------------------------------------
(* Receipts *)

Forward(k) ==
    rows[k].st # "none" =>
      \/ k \in hist'.pruned /\ rows'[k].st = "none"
      \/ /\ rows'[k].cs >= rows[k].cs
         /\ rows'[k].cs = rows[k].cs => rows'[k].dseq >= rows[k].dseq
         /\ rows'[k].prov => rows[k].prov
         /\ rows[k].st = "done" => rows'[k].st = "done"

Newest(k) == rows'[k].cs \notin {rows[k].cs, 0} => rows'[k].cs = seq

LEMMA ReceiptStep ==
    ASSUME TypeOK, DurabilityInv, [Next]_vars, NEW k \in Keys
    PROVE  Forward(k) /\ Newest(k)
<1>1. rows[k] \in Row /\ rows[k].cs \in Nat /\ rows[k].dseq \in Nat
  BY DEF TypeOK, Row
<1>2. ASSUME rows'[k] = rows[k] PROVE Forward(k) /\ Newest(k)
  BY <1>1, <1>2 DEF Forward, Newest
<1>3. ASSUME NEW w \in writes, UpsertOk(w) PROVE Forward(k) /\ Newest(k)
  <2>1. /\ w.f.key \in Keys /\ w \in Write /\ w.f.dseq \in Nat
        /\ rows' = [rows EXCEPT ![w.f.key] = UpsertRow(rows[w.f.key], w)]
    BY <1>3, UpsertRowType DEF UpsertOk, Frame
  <2>2. CASE k # w.f.key \/ ~Newer(w, rows[k])
    BY <1>2, <2>1, <2>2 DEF TypeOK, UpsertRow
  <2>3. CASE k = w.f.key /\ Newer(w, rows[k])
    <3>1. /\ rows'[k] = UpsertRow(rows[k], w)
          /\ rows'[k].cs = w.cs /\ rows'[k].dseq = w.f.dseq
          /\ rows'[k].prov = (rows[k].prov /\ w.prov)
          /\ rows'[k].st = IF rows[k].st = "done" THEN "done" ELSE "pending"
      BY <2>1, <2>3 DEF TypeOK, UpsertRow
    <3>2. w.cs = seq /\ w.cs \in Nat
      BY <1>3, <2>1 DEF UpsertOk, Fenced, Write
    <3>3. rows[k].prov \in BOOLEAN
      BY <1>1 DEF Row
    <3>4. rows'[k].prov => rows[k].prov
      BY <3>1
    <3> QED
      BY <1>1, <2>1, <2>3, <3>1, <3>2, <3>4 DEF Forward, Newest, Newer
  <2> QED
    BY <2>2, <2>3
<1>4. ASSUME NEW n \in finishes, NEW ok \in BOOLEAN, FinishCommits(n, ok)
      PROVE  Forward(k) /\ Newest(k)
  <2>1. CASE ~ok \/ k # n.f.key
    BY <1>2, <1>4, <2>1, FinishRowType DEF FinishCommits, TypeOK
  <2>2. CASE ok /\ k = n.f.key
    <3>1. rows'[k] = FinishRow(rows[k], n)
      BY <1>4, <2>2 DEF FinishCommits, TypeOK
    <3>2. CASE rows'[k] = rows[k]
      BY <1>2, <3>2
    <3>3. CASE rows'[k] = [rows[k] EXCEPT !.st = n.st] /\ rows[k].st \in {"pending", "failed"}
      <4>1. /\ rows'[k].cs = rows[k].cs /\ rows'[k].dseq = rows[k].dseq
            /\ rows'[k].prov = rows[k].prov
        BY <1>1, <3>3 DEF Row
      <4> QED
        BY <1>1, <3>3, <4>1 DEF Forward, Newest
    <3> QED
      BY <3>1, <3>2, <3>3 DEF FinishRow
  <2> QED
    BY <2>1, <2>2
<1>5. ASSUME NEW r \in Recoveries, NEW gone \in SUBSET Keys, Recover(r, gone)
      PROVE  Forward(k) /\ Newest(k)
  <2>1. CASE k \notin gone
    BY <1>2, <1>5, <2>1 DEF Recover
  <2>2. CASE k \in gone
    <3>1. rows'[k] = NoRow /\ k \in hist'.pruned
      BY <1>5, <2>2 DEF Recover, TypeOK, History
    <3> QED
      BY <3>1 DEF NoRow, Forward, Newest
  <2> QED
    BY <2>1, <2>2
<1> QED
  BY <1>2, <1>3, <1>4, <1>5, OtherStepsKeepRows

\* A receipt only moves forward, whatever late writes, replays and updates
\* commit, and only the connection registered last writes one (storage.py).
THEOREM ReceiptsMove == Spec => ReceiptWrites
<1>1. TypeOK /\ DurabilityInv /\ [Next]_vars
        => [\A k \in Keys :
              rows[k].st # "none" =>
                \/ k \in hist'.pruned /\ rows'[k].st = "none"
                \/ /\ rows'[k].cs >= rows[k].cs
                   /\ rows'[k].cs = rows[k].cs => rows'[k].dseq >= rows[k].dseq
                   /\ rows'[k].prov => rows[k].prov
                   /\ rows[k].st = "done" => rows'[k].st = "done"]_vars
  BY ReceiptStep DEF Forward
<1>2. TypeOK /\ DurabilityInv /\ [Next]_vars
        => [\A k \in Keys : rows'[k].cs \notin {rows[k].cs, 0} => rows'[k].cs = seq]_vars
  BY ReceiptStep DEF Newest
<1> QED
  BY <1>1, <1>2, Inductive, PTL DEF Spec, ReceiptWrites, ReceiptsMoveForward, OnlyNewestWrites

-----------------------------------------------------------------------------
(* How the recovery tasks move *)

Moves(r, pc) ==
    /\ rec'[r].pc = pc
    /\ \A s \in Recoveries : s # r => rec'[s] = rec[s]

LEMMA RecoverySet ==
    ASSUME TypeOK, NEW r \in Recoveries, NEW t, rec' = [rec EXCEPT ![r] = t]
    PROVE  rec'[r] = t /\ Moves(r, t.pc)
BY DEF TypeOK, Moves

\* The task stays where it is in its code, maybe with another flag.
Stays(r) == rec'[r].pc = rec[r].pc /\ rec'[r].f = rec[r].f /\ rec'[r].later = rec[r].later

LEMMA RecoverMoves ==
    ASSUME TypeOK, NEW r \in Recoveries
    PROVE  /\ \A gone : Recover(r, gone) => Moves(r, "rows") /\ rec'[r].later = rec[r].later
           /\ RecoverFails(r) \/ GateOpens(r)
                => Moves(r, "later") /\ rec'[r].later = rec[r].later
           /\ \A st : RecoveredSignalEnds(r, st)
                => Moves(r, "finish") /\ rec'[r].later = rec[r].later
<1>1. rec[r] \in RecoveryTask
  BY DEF TypeOK
<1>2. ASSUME NEW gone, Recover(r, gone)
      PROVE  Moves(r, "rows") /\ rec'[r].later = rec[r].later
  <2> DEFINE t == [rec[r] EXCEPT !.pc = "rows", !.todo = PendingRows, !.ok = TRUE]
  <2>1. rec' = [rec EXCEPT ![r] = t]
    BY <1>2 DEF Recover
  <2>2. t.pc = "rows" /\ t.later = rec[r].later
    BY <1>1 DEF RecoveryTask
  <2> HIDE DEF t
  <2> QED
    BY <2>1, <2>2, RecoverySet
<1>3. ASSUME RecoverFails(r) \/ GateOpens(r)
      PROVE  Moves(r, "later") /\ rec'[r].later = rec[r].later
  <2> DEFINE a == [rec[r] EXCEPT !.pc = "later"]
             b == [rec[r] EXCEPT !.pc = "later", !.todo = {}]
  <2>1. rec' = [rec EXCEPT ![r] = a] \/ rec' = [rec EXCEPT ![r] = b]
    BY <1>3 DEF RecoverFails, GateOpens
  <2>2. a.pc = "later" /\ a.later = rec[r].later /\ b.pc = "later" /\ b.later = rec[r].later
    BY <1>1 DEF RecoveryTask
  <2> HIDE DEF a, b
  <2> QED
    BY <2>1, <2>2, RecoverySet
<1>4. ASSUME NEW st, RecoveredSignalEnds(r, st)
      PROVE  Moves(r, "finish") /\ rec'[r].later = rec[r].later
  <2> DEFINE t == [rec[r] EXCEPT !.pc = "finish"]
  <2>1. rec' = [rec EXCEPT ![r] = t]
    BY <1>4 DEF RecoveredSignalEnds
  <2>2. t.pc = "finish" /\ t.later = rec[r].later
    BY <1>1 DEF RecoveryTask
  <2> HIDE DEF t
  <2> QED
    BY <2>1, <2>2, RecoverySet
<1> QED
  BY <1>2, <1>3, <1>4

LEMMA RowMoves ==
    ASSUME TypeOK, NEW r \in Recoveries, RecoverRow(r)
    PROVE  \E f \in Frame :
             \/ /\ Moves(r, "rows") /\ finishes' = finishes
                /\ rec'[r].later = rec[r].later
             \/ /\ f.key \in Signals
                /\ Moves(r, "rows") /\ finishes' = finishes
                /\ rec'[r].later = Append(rec[r].later, f)
             \/ /\ f.key \in Messages /\ state # "READY"
                /\ Moves(r, "finish") /\ StartFinish(f, "done", r)
                /\ rec'[r].later = rec[r].later
<1>1. rec[r] \in RecoveryTask /\ rec[r].pc = "rows"
  BY DEF TypeOK, RecoverRow
<1>2. PICK u \in rec[r].todo :
        LET f    == u.f
            rest == [rec[r] EXCEPT !.todo = @ \ {u}]
        IN  \/ /\ rec' = [rec EXCEPT ![r] = rest] /\ finishes' = finishes
            \/ /\ f.key \in Signals
               /\ rec' = [rec EXCEPT ![r] = [rest EXCEPT !.later = Append(@, f)]]
               /\ finishes' = finishes
            \/ /\ f.key \in Messages /\ state # "READY"
               /\ StartFinish(f, "done", r)
               /\ rec' = [rec EXCEPT ![r] = [rest EXCEPT !.pc = "finish", !.f = f]]
  BY DEF RecoverRow
<1> DEFINE f    == u.f
           rest == [rec[r] EXCEPT !.todo = @ \ {u}]
           more == [rest EXCEPT !.later = Append(@, f)]
           last == [rest EXCEPT !.pc = "finish", !.f = f]
<1>3. f \in Frame
  BY <1>1 DEF RecoveryTask
<1>4. /\ rest.pc = "rows" /\ rest.later = rec[r].later
      /\ more.pc = "rows" /\ more.later = Append(rec[r].later, f)
      /\ last.pc = "finish" /\ last.later = rec[r].later
  BY <1>1 DEF RecoveryTask
<1>5. \/ rec' = [rec EXCEPT ![r] = rest] /\ finishes' = finishes
      \/ /\ f.key \in Signals
         /\ rec' = [rec EXCEPT ![r] = more] /\ finishes' = finishes
      \/ /\ f.key \in Messages /\ state # "READY" /\ StartFinish(f, "done", r)
         /\ rec' = [rec EXCEPT ![r] = last]
  BY <1>2
<1> HIDE DEF f, rest, more, last
<1> QED
  BY <1>3, <1>4, <1>5, RecoverySet

LEMMA SignalMoves ==
    ASSUME TypeOK, NEW r \in Recoveries, RecoverSignal(r)
    PROVE  /\ rec[r].later \in Seq(Frame) /\ rec[r].later # <<>>
           /\ rec'[r].later = Tail(rec[r].later) /\ rec'[r].f = Head(rec[r].later)
           /\ \/ /\ Moves(r, "inline") /\ finishes' = finishes
                 /\ NewSignal(rec'[r].f.key) /\ seen' = seen \cup {rec'[r].f.key}
              \/ /\ Moves(r, "finish") /\ StartFinish(Head(rec[r].later), "done", r)
                 /\ seen' = seen
<1>1. rec[r] \in RecoveryTask
  BY DEF TypeOK
<1> DEFINE f    == Head(rec[r].later)
           rest == [rec[r] EXCEPT !.later = Tail(@), !.f = f]
           run  == [rest EXCEPT !.pc = "inline"]
           last == [rest EXCEPT !.pc = "finish"]
<1>2. /\ run.pc = "inline" /\ run.f = f /\ run.later = Tail(rec[r].later)
      /\ last.pc = "finish" /\ last.f = f /\ last.later = Tail(rec[r].later)
  BY <1>1 DEF RecoveryTask
<1>3. \/ /\ rec' = [rec EXCEPT ![r] = run] /\ finishes' = finishes
         /\ NewSignal(f.key) /\ seen' = seen \cup {f.key}
      \/ /\ rec' = [rec EXCEPT ![r] = last] /\ StartFinish(f, "done", r) /\ seen' = seen
  BY DEF RecoverSignal
<1>4. rec[r].later \in Seq(Frame) /\ rec[r].later # <<>>
  BY <1>1 DEF RecoveryTask, RecoverSignal
<1> HIDE DEF rest, run, last
<1> QED
  BY <1>2, <1>3, <1>4, RecoverySet

\* What a request for a retry makes of the recovery tasks
Scheduled(tasks) ==
    /\ rec'["start"] = tasks["start"]
    /\ \/ /\ rec'["retry"].pc = tasks["retry"].pc /\ rec'["retry"].f = tasks["retry"].f
          /\ rec'["retry"].later = tasks["retry"].later
       \/ /\ tasks["retry"].pc = "off" /\ rec'["retry"].pc = "sleep" /\ link # "none"
          /\ rec'["retry"].later = <<>>

LEMMA ScheduleMoves ==
    ASSUME NEW tasks \in [Recoveries -> RecoveryTask], rec' = ScheduleRetry(tasks)
    PROVE  Scheduled(tasks)
<1> DEFINE asleep == [NoRecovery EXCEPT !.pc = "sleep"]
           again  == [tasks["retry"] EXCEPT !.again = TRUE]
<1>1. "retry" \in Recoveries /\ "start" \in Recoveries /\ tasks["retry"] \in RecoveryTask
  BY DEF Recoveries
<1>2. /\ again.pc = tasks["retry"].pc /\ again.f = tasks["retry"].f
      /\ again.later = tasks["retry"].later
  BY <1>1 DEF RecoveryTask
<1>3. asleep.pc = "sleep" /\ asleep.later = <<>>
  BY DEF NoRecovery
<1>4. \/ rec' = tasks
      \/ tasks["retry"].pc = "off" /\ link # "none" /\ rec' = [tasks EXCEPT !["retry"] = asleep]
      \/ rec' = [tasks EXCEPT !["retry"] = again]
  <2>1. rec' = [tasks EXCEPT !["retry"].again = TRUE] => rec' = [tasks EXCEPT !["retry"] = again]
    OBVIOUS
  <2> QED
    BY <2>1 DEF ScheduleRetry
<1> HIDE DEF asleep, again
<1> QED
  BY <1>1, <1>2, <1>3, <1>4 DEF Scheduled

LEMMA RetryMoves ==
    ASSUME TypeOK
    PROVE  /\ RetryWakes => Moves("retry", "read") /\ rec'["retry"].later = <<>>
           /\ RetryEnds => /\ Moves("retry", "off") \/ Moves("retry", "sleep")
                           /\ rec'["retry"].later = <<>>
           /\ StartRecoveryEnds =>
                /\ rec'["start"] = NoRecovery
                /\ \/ Stays("retry")
                   \/ rec'["retry"].pc = "sleep" /\ rec'["retry"].later = <<>>
<1>1. "retry" \in Recoveries /\ "start" \in Recoveries /\ rec \in [Recoveries -> RecoveryTask]
  BY DEF Recoveries, TypeOK
<1>2. ASSUME RetryWakes PROVE Moves("retry", "read") /\ rec'["retry"].later = <<>>
  <2> DEFINE t == [NoRecovery EXCEPT !.pc = "read"]
  <2>1. rec' = [rec EXCEPT !["retry"] = t] /\ t.pc = "read" /\ t.later = <<>>
    BY <1>2 DEF RetryWakes, NoRecovery
  <2> HIDE DEF t
  <2> QED
    BY <1>1, <2>1, RecoverySet
<1>3. ASSUME RetryEnds
      PROVE  /\ Moves("retry", "off") \/ Moves("retry", "sleep")
             /\ rec'["retry"].later = <<>>
  <2> DEFINE t == [NoRecovery EXCEPT !.pc = "sleep"]
  <2>1. /\ rec' = [rec EXCEPT !["retry"] = NoRecovery] \/ rec' = [rec EXCEPT !["retry"] = t]
        /\ t.pc = "sleep" /\ t.later = <<>> /\ NoRecovery.pc = "off" /\ NoRecovery.later = <<>>
    BY <1>3 DEF RetryEnds, NoRecovery
  <2> HIDE DEF t
  <2> QED
    BY <1>1, <2>1, RecoverySet
<1>4. ASSUME StartRecoveryEnds
      PROVE  /\ rec'["start"] = NoRecovery
             /\ \/ Stays("retry")
                \/ rec'["retry"].pc = "sleep" /\ rec'["retry"].later = <<>>
  <2> DEFINE off == [rec EXCEPT !["start"] = NoRecovery]
  <2>1. off \in [Recoveries -> RecoveryTask]
    BY <1>1, ConstantTypes
  <2>2. rec' = off \/ rec' = ScheduleRetry(off)
    BY <1>4 DEF StartRecoveryEnds
  <2>3. off["start"] = NoRecovery /\ off["retry"] = rec["retry"]
    BY <1>1
  <2> HIDE DEF off
  <2>4. CASE rec' = off
    BY <2>3, <2>4 DEF Stays
  <2>5. CASE rec' = ScheduleRetry(off)
    BY <2>1, <2>3, <2>5, ScheduleMoves DEF Scheduled, Stays
  <2> QED
    BY <2>2, <2>4, <2>5
<1> QED
  BY <1>2, <1>3, <1>4

LEMMA FinishMoves ==
    ASSUME TypeOK, NEW n \in finishes, NEW ok \in BOOLEAN, FinishCommits(n, ok)
    PROVE  /\ n.by \notin Recoveries => rec' = rec
           /\ n.by \in Recoveries =>
                /\ Moves(n.by, "rows") \/ Moves(n.by, "later")
                /\ rec'[n.by].later = rec[n.by].later
           /\ n.by \notin Chats => lanes' = lanes
           /\ n.by \in Chats =>
                /\ lanes'[n.by].pc = "idle"
                /\ \A c \in Chats : c # n.by => lanes'[c] = lanes[c]
           /\ IF n.by = "reader" THEN rd'.pc = "idle" ELSE rd' = rd
<1>1. ASSUME n.by \in Recoveries
      PROVE  /\ Moves(n.by, "rows") \/ Moves(n.by, "later")
             /\ rec'[n.by].later = rec[n.by].later
  <2> DEFINE pc == IF n.f.key \in Messages THEN "rows" ELSE "later"
             t  == [rec[n.by] EXCEPT !.pc = pc, !.f = NothingRead]
  <2>1. rec' = [rec EXCEPT ![n.by] = t]
    BY <1>1 DEF FinishCommits
  <2>2. rec[n.by] \in RecoveryTask
    BY <1>1 DEF TypeOK
  <2>3. t.pc = pc /\ t.later = rec[n.by].later
    BY <2>2 DEF RecoveryTask
  <2>4. pc \in {"rows", "later"}
    OBVIOUS
  <2> HIDE DEF t, pc
  <2>5. rec'[n.by] = t /\ Moves(n.by, t.pc)
    BY <1>1, <2>1, RecoverySet
  <2> QED
    BY <2>3, <2>4, <2>5
<1>2. ASSUME n.by \in Chats
      PROVE  /\ lanes'[n.by].pc = "idle"
             /\ \A c \in Chats : c # n.by => lanes'[c] = lanes[c]
  <2> DEFINE t == [lanes[n.by] EXCEPT !.pc = "idle", !.f = NothingRead]
  <2>1. lanes' = [lanes EXCEPT ![n.by] = t]
    BY <1>2 DEF FinishCommits
  <2>2. t.pc = "idle"
    BY <1>2 DEF TypeOK, LaneTask
  <2> HIDE DEF t
  <2> QED
    BY <1>2, <2>1, <2>2 DEF TypeOK
<1> QED
  BY <1>1, <1>2 DEF FinishCommits

-----------------------------------------------------------------------------
(* Where the tasks are *)

\* Where the supervisor is fixes what the reader and the recoveries can be at.
PlaceInv ==
    /\ main = "idle" => rd.pc = "none" /\ link = "none" /\ rec["retry"].pc = "off"
    /\ main = "hello" => rd.pc \in {"hello", "register", "over"}
    /\ rd.pc \in {"hello", "register"} => main = "hello"
    /\ rec["start"].pc # "off" => main = "recover"
    /\ state = "DISCONNECTED" => main = "idle"
    /\ state = "HANDSHAKING" => main = "hello" /\ rec["retry"].pc \in {"off", "sleep"}
    /\ state = "CLOSED" => stopping
    /\ state = "AWAY" => used["aways"] > 0
    /\ sender = "ready" => used["senders"] > 0

Waits(by) ==
    /\ by = "reader" => rd.pc = "finish"
    /\ by \in Chats => lanes[by].pc = "finish"
    /\ by \in Recoveries => rec[by].pc = "finish"

\* A status update is awaited by its owner, who awaits no other.
OwnerInv ==
    /\ \A n \in finishes : Waits(n.by)
    /\ \A n, m \in finishes : n.by = m.by /\ n.by # "nobody" => n = m

LEMMA Spends ==
    ASSUME TypeOK, NEW kind \in Bounded, NEW bound, Spend(kind, bound)
    PROVE  /\ used'[kind] = used[kind] + 1 /\ used[kind] \in Nat
           /\ \A b \in Bounded : b # kind => used'[b] = used[b]
BY DEF TypeOK, Spend

LEMMA Names ==
    /\ "start" \in Recoveries /\ "retry" \in Recoveries /\ Recoveries = {"start", "retry"}
    /\ {"sends", "faults", "stops", "aways", "senders"} = Bounded
    /\ \A c \in Chats : c \notin Recoveries \cup {"reader", "nobody"}
BY OwnersAssumption DEF Recoveries, Bounded

\* Every bound is used up step by step.
LEMMA UsedGrows ==
    ASSUME TypeOK, [Next]_vars, NEW b \in Bounded
    PROVE  used[b] \in Nat /\ used'[b] \in Nat /\ used'[b] >= used[b]
<1> DEFINE Goal == used[b] \in Nat /\ used'[b] \in Nat /\ used'[b] >= used[b]
<1>1. used[b] \in Nat
  BY DEF TypeOK
<1>2. ASSUME used' = used PROVE Goal
  BY <1>1, <1>2
<1>3. ASSUME NEW kind \in Bounded, NEW bound, Spend(kind, bound) PROVE Goal
  BY <1>1, <1>3, Spends
<1>4. ASSUME Fault PROVE Goal
  BY <1>3, <1>4, Names DEF Fault
<1>5. ASSUME NEW k, NEW p, Push(k, p) PROVE Goal
  BY <1>3, <1>5, Names DEF Push
<1>6. ASSUME Drop \/ Handshake PROVE Goal
  BY <1>2, <1>4, <1>6 DEF Drop, Handshake, Connect, HelloOk, Register, RegisterCancelled,
                          RegisterFails
<1>7. ASSUME Reader PROVE Goal
  BY <1>2, <1>4, <1>7 DEF Reader, ReadMark, ReadFrame, ReadGap, ReadEnds, UpsertOk,
                          UpsertRefused, GateTimesOut, Dispatch, GateAbandoned, InlineEnds, Ack
<1>8. ASSUME NEW c \in Chats, Lane(c) PROVE Goal
  BY <1>2, <1>4, <1>8 DEF Lane, LaneClaims, LaneSkips, LaneRetries, LaneEnds
<1>9. ASSUME NEW r \in Recoveries, Recovery(r) PROVE Goal
  BY <1>2, <1>4, <1>9 DEF Recovery, Recover, RecoverFails, RecoverRow, GateOpens, RecoverSignal,
                          RecoveredSignalEnds
<1>10. ASSUME RetryWakes \/ StartRecoveryEnds \/ RetryEnds PROVE Goal
  BY <1>2, <1>10 DEF RetryWakes, StartRecoveryEnds, RetryEnds
<1>11. ASSUME NEW n \in finishes, NEW ok \in BOOLEAN, FinishCommits(n, ok) PROVE Goal
  BY <1>2, <1>4, <1>11 DEF FinishCommits
<1>12. ASSUME Supervisor PROVE Goal
  <2>1. used' = used \/ Spend("aways", MaxAway) \/ Spend("stops", MaxStops)
    BY <1>12 DEF Supervisor, Flushed, Teardown, Away, AwayCloses, Resume, StopBegins,
                 StopEnds, Crash
  <2> QED
    BY <1>2, <1>3, <2>1, Names
<1>13. ASSUME NEW granted, SenderConnects(granted) PROVE Goal
  BY <1>3, <1>13, Names DEF SenderConnects
<1>14. ASSUME SenderRecovers \/ UNCHANGED vars PROVE Goal
  BY <1>2, <1>14 DEF SenderRecovers
<1> HIDE DEF Goal
<1>15. Goal
  BY <1>5, <1>6, <1>7, <1>8, <1>9, <1>10, <1>11, <1>12, <1>13, <1>14 DEF Next
<1> QED
  BY <1>15 DEF Goal

LEMMA PlaceHandshake ==
    ASSUME TypeOK, PlaceInv, Handshake
    PROVE  PlaceInv'
<1>1. CASE Connect
  BY <1>1 DEF PlaceInv, Connect
<1>2. CASE HelloOk
  BY <1>2, ReaderMoves DEF TypeOK, PlaceInv, HelloOk
<1>3. ASSUME NEW g \in regs, Register(g) PROVE PlaceInv'
  <2>1. CASE rd.pc = "register" /\ gen = g
    <3> DEFINE t == [NoRecovery EXCEPT !.pc = "read"]
    <3>1. rec' = [rec EXCEPT !["start"] = t] /\ t.pc = "read"
      BY <1>3, <2>1 DEF Register, NoRecovery
    <3> HIDE DEF t
    <3>2. Moves("start", "read")
      BY <3>1, Names, RecoverySet
    <3>3. rd'.pc = "idle" /\ state' = "READY" /\ main' = "recover"
      BY <1>3, <2>1, ReaderMoves DEF Register, TypeOK
    <3>4. UNCHANGED <<link, stopping, used, sender>>
      BY <1>3 DEF Register
    <3> QED
      BY <3>2, <3>3, <3>4, Names DEF PlaceInv, Moves
  <2>2. CASE ~(rd.pc = "register" /\ gen = g)
    BY <1>3, <2>2 DEF PlaceInv, Register
  <2> QED
    BY <2>1, <2>2
<1>4. ASSUME NEW g \in regs, RegisterCancelled(g) PROVE PlaceInv'
  BY <1>4, ReaderMoves DEF TypeOK, PlaceInv, RegisterCancelled
<1>5. ASSUME NEW g \in regs, RegisterFails(g) PROVE PlaceInv'
  <2>1. link' = "closed" /\ rd'.pc = "over" /\ link # "none"
    BY <1>5, CloseType DEF TypeOK, RegisterFails, StillCurrent
  <2>2. used'["aways"] = used["aways"] /\ used'["senders"] = used["senders"]
    BY <1>5, Spends, Names DEF RegisterFails, Fault
  <2>3. UNCHANGED <<main, state, stopping, rec, sender>>
    BY <1>5 DEF RegisterFails
  <2> QED
    BY <2>1, <2>2, <2>3 DEF PlaceInv
<1> QED
  BY <1>1, <1>2, <1>3, <1>4, <1>5 DEF Handshake

LEMMA PlaceReader ==
    ASSUME TypeOK, PlaceInv, Reader
    PROVE  PlaceInv'
<1>1. /\ UNCHANGED <<main, state, stopping, rec, sender>>
      /\ used'["aways"] = used["aways"] /\ used'["senders"] = used["senders"]
  <2>1. UNCHANGED <<main, state, stopping, rec, sender>> /\ (used' = used \/ Fault)
    BY DEF Reader, ReadMark, ReadFrame, ReadGap, ReadEnds, UpsertOk, UpsertRefused,
           GateTimesOut, Dispatch, GateAbandoned, InlineEnds, Ack
  <2>2. used' = used \/ Spend("faults", MaxFaults)
    BY <2>1 DEF Fault
  <2> QED
    BY <2>1, <2>2, Spends, Names
<1> DEFINE Quiet == /\ link' = link
                    /\ \/ rd'.pc = rd.pc
                       \/ /\ rd.pc \in {"idle", "upsert", "gate", "inline"}
                          /\ rd'.pc \in {"idle", "upsert", "gate", "inline", "finish", "over"}
                       \/ rd.pc = "hello" /\ rd'.pc = "over"
           Closes == /\ link' = "closed" /\ rd'.pc = "over"
                     /\ rd.pc \in {"idle", "upsert"}
<1>2. ASSUME ReadMark \/ GateTimesOut \/ Ack PROVE Quiet
  BY <1>2 DEF ReadMark, GateTimesOut, Ack
<1>3. ASSUME ReadFrame PROVE Quiet
  BY <1>3 DEF ReadFrame, HasNext
<1>4. ASSUME ReadEnds \/ GateAbandoned PROVE Quiet
  BY <1>4, ReaderMoves DEF TypeOK, ReadEnds, GateAbandoned
<1>5. ASSUME ReadGap PROVE Closes
  BY <1>5, CloseType DEF TypeOK, ReadGap, HasNext
<1>6. ASSUME NEW w \in writes, UpsertOk(w) PROVE Quiet
  <2>1. link' = link /\ (rd' = rd \/ Awaited(w))
    BY <1>6 DEF UpsertOk
  <2>2. Awaited(w) => rd.pc = "upsert" /\ rd'.pc \in {"over", "gate"}
    BY <1>6, ReaderMoves DEF TypeOK, UpsertOk, Awaited
  <2> QED
    BY <2>1, <2>2
<1>7. ASSUME NEW w \in writes, UpsertRefused(w) PROVE Quiet \/ Closes
  <2>1. CASE Awaited(w)
    BY <1>7, <2>1, CloseType DEF TypeOK, UpsertRefused, Awaited
  <2>2. CASE ~Awaited(w)
    BY <1>7, <2>2 DEF UpsertRefused
  <2> QED
    BY <2>1, <2>2
<1>8. ASSUME Dispatch PROVE Quiet
  BY <1>8, ReaderMoves DEF TypeOK, Dispatch
<1>9. ASSUME NEW st \in {"done", "failed"}, InlineEnds(st) PROVE Quiet
  BY <1>9, ReaderMoves DEF TypeOK, InlineEnds
<1>10. Quiet \/ Closes
  BY <1>2, <1>3, <1>4, <1>5, <1>6, <1>7, <1>8, <1>9 DEF Reader
<1>11. CASE Quiet
  BY <1>1, <1>11 DEF PlaceInv
<1>12. CASE Closes
  BY <1>1, <1>12 DEF PlaceInv
<1> QED
  BY <1>10, <1>11, <1>12
LEMMA PlaceLane ==
    ASSUME TypeOK, PlaceInv, NEW c \in Chats, Lane(c)
    PROVE  PlaceInv'
<1>1. /\ UNCHANGED <<main, state, stopping, sender, rd, link>>
      /\ used' = used \/ Spend("faults", MaxFaults)
      /\ rec' = rec \/ rec' = ScheduleRetry(rec)
  BY DEF Lane, LaneClaims, LaneSkips, LaneRetries, LaneEnds, Fault
<1>2. used'["aways"] = used["aways"] /\ used'["senders"] = used["senders"]
  BY <1>1, Spends, Names
<1>3. CASE rec' = rec
  BY <1>1, <1>2, <1>3 DEF PlaceInv
<1>4. CASE rec' = ScheduleRetry(rec)
  <2>1. Scheduled(rec)
    BY <1>4, ScheduleMoves DEF TypeOK
  <2> QED
    BY <1>1, <1>2, <2>1 DEF PlaceInv, Scheduled
<1> QED
  BY <1>1, <1>3, <1>4

\* A recovery that is under way stays so.
LEMMA PlaceMoves ==
    ASSUME TypeOK, PlaceInv, NEW r \in Recoveries, NEW pc, Moves(r, pc),
           rec[r].pc \notin {"off", "sleep"},
           UNCHANGED <<main, state, stopping, sender, rd, link>>,
           used'["aways"] = used["aways"], used'["senders"] = used["senders"]
    PROVE  PlaceInv'
<1>1. CASE r = "start"
  BY <1>1, Names DEF PlaceInv, Moves
<1>2. CASE r = "retry"
  BY <1>2, Names DEF PlaceInv, Moves
<1> QED
  BY <1>1, <1>2, Names

LEMMA PlaceRecovery ==
    ASSUME TypeOK, PlaceInv, NEW r \in Recoveries, Recovery(r)
    PROVE  PlaceInv'
<1>1. /\ UNCHANGED <<main, state, stopping, sender, rd, link>>
      /\ used' = used \/ Spend("faults", MaxFaults)
      /\ rec[r].pc \notin {"off", "sleep"}
  BY DEF Recovery, Recover, RecoverFails, RecoverRow, GateOpens, RecoverSignal,
         RecoveredSignalEnds, Fault
<1>2. used'["aways"] = used["aways"] /\ used'["senders"] = used["senders"]
  BY <1>1, Spends, Names
<1>3. \E pc \in {"rows", "later", "finish", "inline"} : Moves(r, pc)
  BY RecoverMoves, RowMoves, SignalMoves DEF Recovery
<1> QED
  BY <1>1, <1>2, <1>3, PlaceMoves

LEMMA PlaceRetry ==
    ASSUME TypeOK, PlaceInv, RetryWakes \/ RetryEnds \/ StartRecoveryEnds
    PROVE  PlaceInv'
<1>1. UNCHANGED <<state, stopping, sender, rd, link, used>>
  BY DEF RetryWakes, RetryEnds, StartRecoveryEnds
<1>2. CASE RetryWakes
  BY <1>1, <1>2, RetryMoves, Names DEF RetryWakes, PlaceInv, Moves
<1>3. CASE RetryEnds
  BY <1>1, <1>3, RetryMoves, Names DEF RetryEnds, PlaceInv, Moves
<1>4. CASE StartRecoveryEnds
  BY <1>1, <1>4, RetryMoves, Names DEF StartRecoveryEnds, PlaceInv, Stays, NoRecovery
<1> QED
  BY <1>2, <1>3, <1>4

LEMMA PlaceFinish ==
    ASSUME TypeOK, PlaceInv, OwnerInv, NEW n \in finishes, NEW ok \in BOOLEAN,
           FinishCommits(n, ok)
    PROVE  PlaceInv'
<1>1. /\ UNCHANGED <<main, state, stopping, sender, link>>
      /\ used' = used \/ Spend("faults", MaxFaults)
  BY DEF FinishCommits, Fault
<1>2. used'["aways"] = used["aways"] /\ used'["senders"] = used["senders"]
  BY <1>1, Spends, Names
<1>3. Waits(n.by)
  BY DEF OwnerInv
<1>4. CASE n.by \in Recoveries
  <2>1. /\ rd' = rd /\ rec[n.by].pc = "finish"
        /\ Moves(n.by, "rows") \/ Moves(n.by, "later")
    BY <1>3, <1>4, FinishMoves DEF Waits, Recoveries
  <2> QED
    BY <1>1, <1>2, <1>4, <2>1, PlaceMoves
<1>5. CASE n.by \notin Recoveries
  <2>1. rec' = rec /\ (rd' = rd \/ (rd.pc = "finish" /\ rd'.pc = "idle"))
    BY <1>3, <1>5, FinishMoves DEF Waits
  <2> QED
    BY <1>1, <1>2, <2>1 DEF PlaceInv
<1> QED
  BY <1>4, <1>5

LEMMA PlaceSupervisor ==
    ASSUME TypeOK, PlaceInv, Supervisor
    PROVE  PlaceInv'
<1>1. ASSUME rec' = [rec EXCEPT !["retry"] = NoRecovery]
      PROVE  rec'["retry"].pc = "off" /\ rec'["start"].pc = rec["start"].pc
  BY <1>1, Names DEF TypeOK, NoRecovery
<1>2. ASSUME Reset
      PROVE  /\ stopping' = FALSE /\ state' = "DISCONNECTED" /\ link' = "none" /\ main' = "idle"
             /\ rd'.pc = "none" /\ rec'["start"].pc = "off" /\ rec'["retry"].pc = "off"
  BY <1>2, Names, ConstantTypes DEF Reset
<1>3. CASE Flushed \/ AwayCloses \/ Resume
  BY <1>3 DEF PlaceInv, Flushed, AwayCloses, Resume
<1>4. CASE Teardown
  BY <1>1, <1>4, ConstantTypes DEF PlaceInv, Teardown
<1>5. CASE Away
  <2>1. used'["aways"] > 0 /\ used'["senders"] = used["senders"]
    BY <1>5, Spends, Names DEF Away
  <2> QED
    BY <1>5, <2>1 DEF PlaceInv, Away
<1>6. CASE StopBegins
  <2>1. used'["aways"] = used["aways"] /\ used'["senders"] = used["senders"]
    BY <1>6, Spends, Names DEF StopBegins
  <2>2. /\ UNCHANGED <<link, main, rd, sender>> /\ state' = "CLOSED" /\ stopping'
        /\ rec'["retry"].pc = "off" /\ rec'["start"].pc = rec["start"].pc
    BY <1>1, <1>6 DEF StopBegins
  <2> QED
    BY <2>1, <2>2 DEF PlaceInv
<1>7. CASE StopEnds
  BY <1>2, <1>7 DEF PlaceInv, StopEnds
<1>8. CASE Crash
  <2>1. used'["senders"] = used["senders"]
    BY <1>8, Spends, Names DEF Crash
  <2> QED
    BY <1>2, <1>8, <2>1 DEF PlaceInv, Crash
<1> QED
  BY <1>3, <1>4, <1>5, <1>6, <1>7, <1>8 DEF Supervisor

LEMMA PlaceStep ==
    ASSUME TypeOK, PlaceInv, OwnerInv, [Next]_vars
    PROVE  PlaceInv'
<1>1. ASSUME NEW k, NEW p, Push(k, p) PROVE PlaceInv'
  <2>1. used'["aways"] = used["aways"] /\ used'["senders"] = used["senders"]
    BY <1>1, Spends, Names DEF Push
  <2> QED
    BY <1>1, <2>1 DEF PlaceInv, Push
<1>2. ASSUME NEW granted, SenderConnects(granted) PROVE PlaceInv'
  <2>1. used'["aways"] = used["aways"] /\ used'["senders"] > 0
    BY <1>2, Spends, Names DEF SenderConnects
  <2> QED
    BY <1>2, <2>1 DEF PlaceInv, SenderConnects
<1>3. CASE Drop \/ SenderRecovers \/ UNCHANGED vars
  BY <1>3 DEF PlaceInv, Drop, SenderRecovers
<1> QED
  BY <1>1, <1>2, <1>3, PlaceHandshake, PlaceReader, PlaceLane, PlaceRecovery, PlaceRetry,
     PlaceFinish, PlaceSupervisor DEF Next
-----------------------------------------------------------------------------
(* Which connection reads *)

\* Only the newest connection's registration can succeed, and its reader waits.
WriterInv ==
    /\ \A g \in regs : g <= gen
    /\ gen \in regs /\ trk.on => rd.pc = "register"
    /\ None({"senders"}) => LiveWriterIsNewest

LEMMA RecordKeeps ==
    ASSUME NEW t \in Tracker, NEW d, Record(t, d)
    PROVE  trk'.on = t.on /\ trk'.seq = t.seq
BY DEF Record, Tracker

\* Nothing that did not happen before did not happen now.
LEMMA NoneBefore ==
    ASSUME TypeOK, [Next]_vars, NEW kinds \in SUBSET Bounded, None(kinds)'
    PROVE  None(kinds)
<1>1. ASSUME NEW b \in kinds PROVE used[b] = 0
  <2>1. used'[b] = 0 /\ b \in Bounded
    BY DEF None
  <2>2. used[b] \in Nat /\ used'[b] >= used[b]
    BY <2>1, UsedGrows
  <2> QED
    BY <2>1, <2>2
<1> QED
  BY <1>1 DEF None

LEMMA WriterQuiet ==
    ASSUME TypeOK, WriterInv, [Next]_vars,
           gen' = gen, seq' = seq, regs' \subseteq regs,
           trk'.on => trk.on /\ trk'.seq = trk.seq,
           rd.pc = "register" /\ gen \in regs' => rd'.pc = "register" \/ ~trk'.on
    PROVE  WriterInv'
<1>1. None({"senders"})' => None({"senders"})
  BY NoneBefore, Names
<1> QED
  BY <1>1 DEF WriterInv, LiveWriterIsNewest

LEMMA WriterHandshake ==
    ASSUME TypeOK, WriterInv, Handshake, [Next]_vars
    PROVE  WriterInv'
<1>1. gen \in Nat /\ regs \subseteq Nat /\ seq \in Nat
  BY DEF TypeOK
<1>2. CASE Connect
  BY <1>1, <1>2 DEF Connect, NoTracker, WriterInv, LiveWriterIsNewest
<1>3. CASE HelloOk
  <2>1. /\ trk'.on /\ trk'.seq = 0 /\ rd'.pc = "register" /\ regs' = regs \cup {gen}
        /\ gen' = gen /\ seq' = seq
    BY <1>3, ReaderMoves DEF HelloOk, NoTracker, TypeOK
  <2> QED
    BY <1>1, <2>1 DEF WriterInv, LiveWriterIsNewest
<1>4. ASSUME NEW g \in regs, Register(g) PROVE WriterInv'
  <2>1. gen = g /\ rd.pc = "register" /\ trk.on
    BY <1>4 DEF Register, StillCurrent, WriterInv
  <2>2. /\ trk' = [trk EXCEPT !.seq = seq + 1] /\ rd' = [rd EXCEPT !.pc = "idle"]
        /\ seq' = seq + 1 /\ regs' = regs \ {g} /\ gen' = gen
    BY <1>4, <2>1 DEF Register
  <2>3. trk'.seq = seq + 1
    BY <2>2 DEF TypeOK, Tracker
  <2> QED
    BY <1>1, <2>1, <2>2, <2>3 DEF WriterInv, LiveWriterIsNewest
<1>5. ASSUME NEW g \in regs, RegisterCancelled(g) PROVE WriterInv'
  <2>1. UNCHANGED <<gen, seq, trk>> /\ regs' = regs \ {g} /\ (gen # g => rd' = rd)
    BY <1>5 DEF RegisterCancelled
  <2> QED
    BY <2>1, WriterQuiet
<1>6. ASSUME NEW g \in regs, RegisterFails(g) PROVE WriterInv'
  <2>1. UNCHANGED <<gen, seq>> /\ regs' \subseteq regs /\ ~trk'.on
    BY <1>6, CloseType DEF RegisterFails, TypeOK
  <2> QED
    BY <2>1, WriterQuiet
<1> QED
  BY <1>2, <1>3, <1>4, <1>5, <1>6 DEF Handshake

LEMMA WriterReader ==
    ASSUME TypeOK, WriterInv, Reader, [Next]_vars
    PROVE  WriterInv'
<1>1. UNCHANGED <<gen, seq, regs>>
  BY DEF Reader, ReadMark, ReadFrame, ReadGap, ReadEnds, UpsertOk, UpsertRefused,
         GateTimesOut, Dispatch, GateAbandoned, InlineEnds, Ack
<1> DEFINE Quiet == /\ trk'.on => trk.on /\ trk'.seq = trk.seq
                    /\ rd.pc = "register" => rd'.pc = "register" \/ ~trk'.on
<1>2. ASSUME ReadMark PROVE Quiet
  <2> DEFINE t == [trk EXCEPT !.read = @ + 1]
  <2>1. /\ t \in Tracker /\ t.on = trk.on /\ t.seq = trk.seq
        /\ Record(t, trk.read + 1) /\ rd' = rd
    BY <1>2, ReadType DEF ReadMark, TypeOK, Tracker
  <2> HIDE DEF t
  <2> QED
    BY <2>1, RecordKeeps
<1>3. ASSUME ReadFrame PROVE Quiet
  <2>1. trk' = [trk EXCEPT !.read = @ + 1] /\ rd.pc = "idle"
    BY <1>3 DEF ReadFrame, HasNext
  <2>2. trk'.on = trk.on /\ trk'.seq = trk.seq
    BY <2>1 DEF TypeOK, Tracker
  <2> QED
    BY <2>1, <2>2
<1>4. ASSUME ReadGap PROVE Quiet
  BY <1>4, CloseType DEF TypeOK, ReadGap
<1>5. ASSUME ReadEnds \/ GateTimesOut \/ GateAbandoned \/ Ack PROVE Quiet
  BY <1>5 DEF ReadEnds, GateTimesOut, GateAbandoned, Ack
<1>6. ASSUME NEW w \in writes, UpsertOk(w) PROVE Quiet
  <2>1. CASE ~Awaited(w)
    BY <1>6, <2>1 DEF UpsertOk
  <2>2. CASE Awaited(w)
    <3>1. trk' = trk \/ Record(trk, w.f.dseq)
      BY <1>6, <2>2 DEF UpsertOk
    <3>2. trk'.on = trk.on /\ trk'.seq = trk.seq
      BY <3>1, RecordKeeps DEF TypeOK
    <3> QED
      BY <2>2, <3>2 DEF Awaited
  <2> QED
    BY <2>1, <2>2
<1>7. ASSUME NEW w \in writes, UpsertRefused(w) PROVE Quiet
  BY <1>7, CloseType DEF TypeOK, UpsertRefused
<1>8. ASSUME Dispatch PROVE Quiet
  BY <1>8 DEF Dispatch
<1>9. ASSUME NEW st \in {"done", "failed"}, InlineEnds(st) PROVE Quiet
  BY <1>9 DEF InlineEnds
<1>10. Quiet
  BY <1>2, <1>3, <1>4, <1>5, <1>6, <1>7, <1>8, <1>9 DEF Reader
<1> QED
  BY <1>1, <1>10, WriterQuiet

LEMMA WriterStep ==
    ASSUME TypeOK, WriterInv, OwnerInv, [Next]_vars
    PROVE  WriterInv'
<1> DEFINE Same == UNCHANGED <<gen, seq, regs, trk, rd>>
<1>1. ASSUME Same PROVE WriterInv'
  BY <1>1, WriterQuiet
<1>2. ASSUME NEW c \in Chats, Lane(c) PROVE Same
  BY <1>2 DEF Lane, LaneClaims, LaneSkips, LaneRetries, LaneEnds
<1>3. ASSUME NEW r \in Recoveries, Recovery(r) PROVE Same
  BY <1>3 DEF Recovery, Recover, RecoverFails, RecoverRow, GateOpens, RecoverSignal,
              RecoveredSignalEnds
<1>4. ASSUME NEW n \in finishes, NEW ok \in BOOLEAN, FinishCommits(n, ok) PROVE WriterInv'
  <2>1. UNCHANGED <<gen, seq, regs, trk>> /\ (rd' = rd \/ rd.pc = "finish")
    BY <1>4 DEF FinishCommits, OwnerInv, Waits
  <2> QED
    BY <2>1, WriterQuiet
<1>5. CASE Supervisor
  <2>1. CASE Flushed \/ Away \/ AwayCloses \/ Resume \/ StopBegins
    BY <1>1, <2>1 DEF Flushed, Away, AwayCloses, Resume, StopBegins
  <2>2. CASE Teardown \/ StopEnds \/ Crash
    <3>1. UNCHANGED <<gen, seq>> /\ regs' \subseteq regs /\ ~trk'.on
      BY <2>2 DEF Teardown, StopEnds, Crash, Reset, NoTracker
    <3> QED
      BY <3>1, WriterQuiet
  <2> QED
    BY <1>5, <2>1, <2>2 DEF Supervisor
<1>6. ASSUME NEW granted, SenderConnects(granted) PROVE WriterInv'
  <2>1. ~None({"senders"})' /\ UNCHANGED <<gen, regs, trk, rd>>
    BY <1>6, Spends, Names DEF SenderConnects, None
  <2> QED
    BY <2>1 DEF WriterInv
<1>7. ASSUME NEW k, NEW p, Push(k, p) PROVE Same
  BY <1>7 DEF Push
<1>8. CASE Drop \/ RetryWakes \/ StartRecoveryEnds \/ RetryEnds \/ SenderRecovers
           \/ UNCHANGED vars
  BY <1>1, <1>8 DEF Drop, RetryWakes, StartRecoveryEnds, RetryEnds, SenderRecovers
<1> HIDE DEF Same
<1> QED
  BY <1>1, <1>2, <1>3, <1>4, <1>5, <1>6, <1>7, <1>8, WriterHandshake, WriterReader DEF Next
-----------------------------------------------------------------------------
(* Who awaits a status update *)

KeepsWaiting(tasks) ==
    /\ "reader" \notin tasks /\ rd.pc = "finish" => rd'.pc = "finish"
    /\ \A c \in Chats : c \notin tasks /\ lanes[c].pc = "finish" => lanes'[c].pc = "finish"
    /\ \A r \in Recoveries : r \notin tasks /\ rec[r].pc = "finish" => rec'[r].pc = "finish"

LEMMA WaitingKept ==
    ASSUME NEW tasks, KeepsWaiting(tasks), NEW by, by \notin tasks, Waits(by)
    PROVE  Waits(by)'
BY DEF KeepsWaiting, Waits

LEMMA OwnersKept ==
    ASSUME OwnerInv, KeepsWaiting({}), finishes' \subseteq finishes
    PROVE  OwnerInv'
<1>1. ASSUME NEW n \in finishes' PROVE Waits(n.by)'
  BY WaitingKept DEF OwnerInv
<1>2. (\A n \in finishes : Waits(n.by))'
  BY <1>1
<1> QED
  BY <1>2 DEF OwnerInv

LEMMA OwnerAdded ==
    ASSUME OwnerInv, KeepsWaiting({}), NEW f, NEW st, NEW by, StartFinish(f, st, by),
           ~Waits(by), Waits(by)'
    PROVE  OwnerInv'
<1> DEFINE new == [f |-> f, st |-> st, by |-> by]
<1>1. finishes' = finishes \cup {new} /\ new.by = by
  BY DEF StartFinish
<1>2. \A n \in finishes : Waits(n.by)' /\ n.by # by
  BY WaitingKept DEF OwnerInv
<1> HIDE DEF new
<1>3. ASSUME NEW n \in finishes' PROVE Waits(n.by)'
  BY <1>1, <1>2, <1>3
<1>4. (\A n \in finishes : Waits(n.by))'
  BY <1>3
<1>5. (\A n, m \in finishes : n.by = m.by /\ n.by # "nobody" => n = m)'
  BY <1>1, <1>2 DEF OwnerInv
<1> QED
  BY <1>4, <1>5 DEF OwnerInv

LEMMA OwnersOrphaned ==
    ASSUME TypeOK, OwnerInv, NEW tasks, KeepsWaiting(tasks), finishes' = Orphaned(tasks)
    PROVE  OwnerInv'
<1>1. ASSUME NEW n \in finishes'
      PROVE  n.by = "nobody" \/ (n \in finishes /\ n.by \notin tasks)
  <2>1. PICK m \in finishes : n = IF m.by \in tasks THEN [m EXCEPT !.by = "nobody"] ELSE m
    BY DEF Orphaned
  <2>2. m \in Finish
    BY DEF TypeOK
  <2> QED
    BY <2>1, <2>2 DEF Finish
<1>2. Waits("nobody")'
  BY Names DEF Waits
<1>3. ASSUME NEW n \in finishes' PROVE Waits(n.by)'
  <2>1. CASE n.by = "nobody"
    BY <1>2, <2>1
  <2>2. CASE n \in finishes /\ n.by \notin tasks
    BY <2>2, WaitingKept DEF OwnerInv
  <2> QED
    BY <1>1, <2>1, <2>2
<1>4. (\A n \in finishes : Waits(n.by))'
  BY <1>3
<1>5. (\A n, m \in finishes : n.by = m.by /\ n.by # "nobody" => n = m)'
  BY <1>1 DEF OwnerInv
<1> QED
  BY <1>4, <1>5 DEF OwnerInv

LEMMA NotWaiting ==
    /\ rd.pc # "finish" => ~Waits("reader")
    /\ \A c \in Chats : lanes[c].pc # "finish" => ~Waits(c)
    /\ \A r \in Recoveries : rec[r].pc # "finish" => ~Waits(r)
    /\ rd.pc = "finish" => Waits("reader")
    /\ \A c \in Chats : lanes[c].pc = "finish" => Waits(c)
    /\ \A r \in Recoveries : rec[r].pc = "finish" => Waits(r)
BY Names DEF Waits

LEMMA OwnerHandshake ==
    ASSUME TypeOK, OwnerInv, PlaceInv, WriterInv, Handshake
    PROVE  OwnerInv'
<1>1. UNCHANGED <<lanes, finishes>>
  BY DEF Handshake, Connect, HelloOk, Register, RegisterCancelled, RegisterFails
<1>2. rd.pc = "finish" => rd'.pc = "finish"
  <2>1. CASE Connect
    BY <2>1 DEF Connect, PlaceInv
  <2>2. CASE HelloOk
    BY <2>2 DEF HelloOk
  <2>3. ASSUME NEW g \in regs, Register(g) \/ RegisterFails(g) PROVE rd.pc = "register"
    BY <2>3 DEF Register, RegisterFails, StillCurrent, WriterInv
  <2>4. ASSUME NEW g \in regs, RegisterCancelled(g) PROVE rd.pc = "register" \/ rd' = rd
    BY <2>4 DEF RegisterCancelled
  <2> QED
    BY <2>1, <2>2, <2>3, <2>4 DEF Handshake
<1>3. \A r \in Recoveries : rec[r].pc = "finish" => rec'[r].pc = "finish"
  <2>1. ASSUME NEW g \in regs, Register(g)
        PROVE  \A r \in Recoveries : rec[r].pc = "finish" => rec'[r].pc = "finish"
    <3> DEFINE t == [NoRecovery EXCEPT !.pc = "read"]
    <3>1. rec["start"].pc = "off"
      BY <2>1 DEF Register, StillCurrent, WriterInv, PlaceInv
    <3>2. rec' = rec \/ rec' = [rec EXCEPT !["start"] = t]
      BY <2>1 DEF Register
    <3> HIDE DEF t
    <3> QED
      BY <3>1, <3>2, Names DEF TypeOK
  <2> QED
    BY <2>1 DEF Handshake, Connect, HelloOk, RegisterCancelled, RegisterFails
<1> QED
  BY <1>1, <1>2, <1>3, OwnersKept DEF KeepsWaiting

\* A frame that is queued leaves its lane where it is.
LEMMA ToLaneKeeps ==
    ASSUME TypeOK, NEW f \in Frame, ToLane(f)
    PROVE  \A c \in Chats : lanes'[c].pc = lanes[c].pc /\ lanes'[c].f = lanes[c].f
<1> DEFINE t(d) == [lanes[d] EXCEPT !.q = Append(@, f)]
<1>1. lanes' = [lanes EXCEPT ![ChatOf[f.key]] = t(ChatOf[f.key])]
  BY DEF ToLane
<1>2. \A d \in Chats : t(d).pc = lanes[d].pc /\ t(d).f = lanes[d].f
  BY DEF TypeOK, LaneTask
<1> HIDE DEF t
<1> QED
  BY <1>1, <1>2 DEF TypeOK

LEMMA OwnerReader ==
    ASSUME TypeOK, OwnerInv, Reader
    PROVE  OwnerInv'
<1>1. rec' = rec /\ \A c \in Chats : lanes'[c].pc = lanes[c].pc
  <2>1. rec' = rec /\ (lanes' = lanes \/ (Dispatch /\ ToLane(rd.f)))
    BY DEF Reader, ReadMark, ReadFrame, ReadGap, ReadEnds, UpsertOk, UpsertRefused,
           GateTimesOut, Dispatch, GateAbandoned, InlineEnds, Ack
  <2>2. Dispatch => rd.f \in Frame
    BY DEF Dispatch, TypeOK
  <2> QED
    BY <2>1, <2>2, ToLaneKeeps
<1>2. ASSUME finishes' = finishes, rd' = rd \/ rd.pc # "finish" PROVE OwnerInv'
  BY <1>1, <1>2, OwnersKept DEF KeepsWaiting
<1>3. ASSUME NEW f, NEW st, StartFinish(f, st, "reader"), rd.pc # "finish", rd'.pc = "finish"
      PROVE  OwnerInv'
  <2>1. KeepsWaiting({}) /\ ~Waits("reader")
    BY <1>1, <1>3, NotWaiting DEF KeepsWaiting
  <2>2. Waits("reader")'
    BY <1>3, Names DEF Waits
  <2> QED
    BY <1>3, <2>1, <2>2, OwnerAdded
<1>4. CASE Dispatch
  <2>1. CASE finishes' = finishes
    BY <1>2, <1>4, <2>1 DEF Dispatch
  <2>2. CASE finishes' # finishes
    BY <1>3, <1>4, <2>2, ReaderMoves DEF Dispatch, TypeOK
  <2> QED
    BY <2>1, <2>2
<1>5. ASSUME NEW st \in {"done", "failed"}, InlineEnds(st) PROVE OwnerInv'
  BY <1>3, <1>5, ReaderMoves DEF InlineEnds, TypeOK
<1>6. CASE ReadMark \/ ReadFrame \/ ReadGap \/ ReadEnds \/ GateTimesOut \/ GateAbandoned \/ Ack
  BY <1>2, <1>6 DEF ReadMark, ReadFrame, ReadGap, ReadEnds, GateTimesOut, GateAbandoned, Ack,
                    HasNext
<1>7. ASSUME NEW w \in writes, UpsertOk(w) \/ UpsertRefused(w) PROVE OwnerInv'
  BY <1>2, <1>7 DEF UpsertOk, UpsertRefused, Awaited
<1> QED
  BY <1>4, <1>5, <1>6, <1>7 DEF Reader

\* A lane whose worker takes a frame was idle before.
LEMMA LanePcs ==
    ASSUME TypeOK, NEW c \in Chats, Lane(c)
    PROVE  /\ \A d \in Chats : d # c => lanes'[d] = lanes[d]
           /\ lanes[c].pc # "finish"
           /\ \/ lanes'[c].pc # "finish" /\ finishes' = finishes
              \/ lanes'[c].pc = "finish" /\ \E f, st : StartFinish(f, st, c)
<1>1. lanes[c] \in LaneTask
  BY DEF TypeOK
<1>2. ASSUME NEW pc, Waiting(c), Pop(c, pc)
      PROVE  /\ \A d \in Chats : d # c => lanes'[d] = lanes[d]
             /\ lanes[c].pc = "idle" /\ lanes'[c].pc = pc
  BY <1>2 DEF TypeOK, Waiting, Pop
<1>3. CASE LaneClaims(c)
  BY <1>2, <1>3 DEF LaneClaims
<1>4. CASE LaneSkips(c)
  BY <1>2, <1>4 DEF LaneSkips
<1>5. CASE LaneRetries(c)
  <2> DEFINE t == [lanes[c] EXCEPT !.q = Tail(@)]
  <2>1. lanes' = [lanes EXCEPT ![c] = t] /\ lanes[c].pc = "idle" /\ finishes' = finishes
    BY <1>5 DEF LaneRetries, Waiting
  <2>2. t.pc = lanes[c].pc
    BY <1>1 DEF LaneTask
  <2> HIDE DEF t
  <2> QED
    BY <2>1, <2>2 DEF TypeOK
<1>6. ASSUME NEW st \in {"done", "failed"}, LaneEnds(c, st)
      PROVE  /\ \A d \in Chats : d # c => lanes'[d] = lanes[d]
             /\ lanes[c].pc = "handling" /\ lanes'[c].pc = "finish"
             /\ StartFinish(lanes[c].f, st, c)
  <2> DEFINE t == [lanes[c] EXCEPT !.pc = "finish"]
  <2>1. lanes' = [lanes EXCEPT ![c] = t] /\ lanes[c].pc = "handling"
    BY <1>6 DEF LaneEnds
  <2>2. t.pc = "finish"
    BY <1>1 DEF LaneTask
  <2> HIDE DEF t
  <2> QED
    BY <1>6, <2>1, <2>2 DEF TypeOK, LaneEnds
<1> QED
  BY <1>3, <1>4, <1>5, <1>6 DEF Lane

LEMMA OwnerLane ==
    ASSUME TypeOK, OwnerInv, NEW c \in Chats, Lane(c)
    PROVE  OwnerInv'
<1>1. /\ rd' = rd /\ (rec' = rec \/ rec' = ScheduleRetry(rec))
  BY DEF Lane, LaneClaims, LaneSkips, LaneRetries, LaneEnds
<1>2. \A r \in Recoveries : rec'[r].pc = rec[r].pc \/ rec[r].pc = "off"
  BY <1>1, ScheduleMoves, Names DEF TypeOK, Scheduled
<1>3. KeepsWaiting({})
  BY <1>1, <1>2, LanePcs DEF KeepsWaiting
<1>4. CASE finishes' = finishes
  BY <1>3, <1>4, OwnersKept
<1>5. ASSUME NEW f, NEW st, StartFinish(f, st, c), lanes'[c].pc = "finish"
      PROVE  OwnerInv'
  <2>1. ~Waits(c)
    BY LanePcs, NotWaiting
  <2>2. Waits(c)'
    BY <1>5, Names DEF Waits
  <2> QED
    BY <1>3, <1>5, <2>1, <2>2, OwnerAdded
<1> QED
  BY <1>4, <1>5, LanePcs

LEMMA OwnerRecovery ==
    ASSUME TypeOK, OwnerInv, NEW r \in Recoveries, Recovery(r)
    PROVE  OwnerInv'
<1>1. UNCHANGED <<rd, lanes>> \/ (rd' = rd /\ RecoverRow(r))
  BY DEF Recovery, Recover, RecoverFails, RecoverRow, GateOpens, RecoverSignal,
         RecoveredSignalEnds
<1>2. \A c \in Chats : lanes'[c].pc = lanes[c].pc
  <2>1. ASSUME RecoverRow(r) PROVE lanes' = lanes \/ \E f \in Frame : f.key \in Messages /\ ToLane(f)
    BY <2>1 DEF RecoverRow, TypeOK, RecoveryTask
  <2> QED
    BY <1>1, <2>1, ToLaneKeeps
<1>3. ASSUME NEW pc, Moves(r, pc), rec[r].pc # "finish" PROVE KeepsWaiting({})
  BY <1>1, <1>2, <1>3 DEF KeepsWaiting, Moves
<1>4. rec[r].pc # "finish"
  BY DEF Recovery, Recover, RecoverFails, RecoverRow, GateOpens, RecoverSignal,
         RecoveredSignalEnds
<1>5. ASSUME NEW pc, Moves(r, pc), finishes' = finishes PROVE OwnerInv'
  BY <1>3, <1>4, <1>5, OwnersKept
<1>6. ASSUME NEW f, NEW st, StartFinish(f, st, r), Moves(r, "finish") PROVE OwnerInv'
  <2>1. ~Waits(r) /\ KeepsWaiting({})
    BY <1>3, <1>4, <1>6, NotWaiting
  <2>2. Waits(r)'
    BY <1>6, Names DEF Waits, Moves
  <2> QED
    BY <1>6, <2>1, <2>2, OwnerAdded
<1>7. ASSUME NEW gone, Recover(r, gone) PROVE OwnerInv'
  BY <1>5, <1>7, RecoverMoves DEF Recover
<1>8. CASE RecoverFails(r) \/ GateOpens(r)
  BY <1>5, <1>8, RecoverMoves DEF RecoverFails, GateOpens
<1>9. CASE RecoverRow(r)
  BY <1>5, <1>6, <1>9, RowMoves
<1>10. CASE RecoverSignal(r)
  BY <1>5, <1>6, <1>10, SignalMoves
<1>11. ASSUME NEW st \in {"done", "failed"}, RecoveredSignalEnds(r, st) PROVE OwnerInv'
  BY <1>6, <1>11, RecoverMoves DEF RecoveredSignalEnds
<1> QED
  BY <1>7, <1>8, <1>9, <1>10, <1>11 DEF Recovery

LEMMA OwnerRetry ==
    ASSUME TypeOK, OwnerInv, RetryWakes \/ RetryEnds \/ StartRecoveryEnds
    PROVE  OwnerInv'
<1>1. UNCHANGED <<rd, lanes, finishes>>
  BY DEF RetryWakes, RetryEnds, StartRecoveryEnds
<1>2. CASE RetryWakes \/ RetryEnds
  <2>1. rec["retry"].pc # "finish" /\ \E pc : Moves("retry", pc)
    BY <1>2, RetryMoves DEF RetryWakes, RetryEnds
  <2> QED
    BY <1>1, <2>1, Names, OwnersKept DEF KeepsWaiting, Moves
<1>3. CASE StartRecoveryEnds
  <2>1. rec["start"].pc = "later" /\ (rec'["retry"].pc = rec["retry"].pc \/ rec["retry"].pc = "off")
    <3> DEFINE off == [rec EXCEPT !["start"] = NoRecovery]
    <3>1. off \in [Recoveries -> RecoveryTask] /\ off["retry"] = rec["retry"]
      BY Names, ConstantTypes DEF TypeOK
    <3>2. rec' = off \/ rec' = ScheduleRetry(off)
      BY <1>3 DEF StartRecoveryEnds
    <3> HIDE DEF off
    <3>3. rec'["retry"].pc = rec["retry"].pc \/ rec["retry"].pc = "off"
      BY <3>1, <3>2, ScheduleMoves DEF Scheduled
    <3> QED
      BY <1>3, <3>3 DEF StartRecoveryEnds
  <2> QED
    BY <1>1, <2>1, Names, OwnersKept DEF KeepsWaiting
<1> QED
  BY <1>2, <1>3

LEMMA OwnerFinish ==
    ASSUME TypeOK, OwnerInv, NEW n \in finishes, NEW ok \in BOOLEAN, FinishCommits(n, ok)
    PROVE  OwnerInv'
<1>1. finishes' = finishes \ {n}
  BY DEF FinishCommits
<1>2. KeepsWaiting({n.by})
  BY FinishMoves DEF KeepsWaiting, Moves
<1>3. ASSUME NEW m \in finishes' PROVE Waits(m.by)'
  <2>1. m \in finishes /\ m # n
    BY <1>1
  <2>2. CASE m.by # n.by
    BY <1>2, <2>1, <2>2, WaitingKept DEF OwnerInv
  <2>3. CASE m.by = n.by
    <3>1. m.by = "nobody"
      BY <2>1, <2>3 DEF OwnerInv
    <3> QED
      BY <3>1, Names DEF Waits
  <2> QED
    BY <2>2, <2>3
<1>4. (\A m \in finishes : Waits(m.by))'
  BY <1>3
<1> QED
  BY <1>1, <1>4 DEF OwnerInv

LEMMA OwnerSupervisor ==
    ASSUME TypeOK, OwnerInv, Supervisor
    PROVE  OwnerInv'
<1>1. ASSUME UNCHANGED <<rd, lanes, rec, finishes>> PROVE OwnerInv'
  BY <1>1, OwnersKept DEF KeepsWaiting
<1>2. ASSUME rec' = [rec EXCEPT !["retry"] = NoRecovery]
      PROVE  rec'["start"] = rec["start"]
  BY <1>2, Names DEF TypeOK
<1>3. CASE Teardown
  <2>1. KeepsWaiting({"reader", "retry"})
    BY <1>2, <1>3, Names DEF Teardown, KeepsWaiting
  <2> QED
    BY <1>3, <2>1, OwnersOrphaned DEF Teardown
<1>4. CASE StopBegins
  <2>1. KeepsWaiting({"retry"})
    BY <1>2, <1>4, Names DEF StopBegins, KeepsWaiting
  <2> QED
    BY <1>4, <2>1, OwnersOrphaned DEF StopBegins
<1>5. CASE StopEnds
  <2>1. KeepsWaiting({"reader"} \cup Recoveries \cup Chats)
    BY DEF KeepsWaiting
  <2> QED
    BY <1>5, <2>1, OwnersOrphaned DEF StopEnds
<1>6. CASE Crash
  BY <1>6 DEF Crash, OwnerInv
<1>7. CASE Flushed \/ Away \/ AwayCloses \/ Resume
  BY <1>1, <1>7 DEF Flushed, Away, AwayCloses, Resume
<1> QED
  BY <1>3, <1>4, <1>5, <1>6, <1>7 DEF Supervisor

LEMMA OwnerStep ==
    ASSUME TypeOK, OwnerInv, PlaceInv, WriterInv, [Next]_vars
    PROVE  OwnerInv'
<1> DEFINE Same == UNCHANGED <<rd, lanes, rec, finishes>>
<1>1. ASSUME Same PROVE OwnerInv'
  BY <1>1, OwnersKept DEF KeepsWaiting
<1>2. ASSUME NEW k, NEW p, Push(k, p) PROVE Same
  BY <1>2 DEF Push
<1>3. ASSUME NEW granted, SenderConnects(granted) PROVE Same
  BY <1>3 DEF SenderConnects
<1>4. CASE Drop \/ UNCHANGED vars
  BY <1>1, <1>4 DEF Drop
<1>5. CASE SenderRecovers
  <2>1. \A n \in finishes' : n \in finishes \/ n.by = "nobody"
    BY <1>5 DEF SenderRecovers
  <2>2. UNCHANGED <<rd, lanes, rec>>
    BY <1>5 DEF SenderRecovers
  <2>3. \A by : Waits(by) => Waits(by)'
    BY <2>2 DEF Waits
  <2>4. Waits("nobody")'
    BY Names DEF Waits
  <2>5. ASSUME NEW n \in finishes' PROVE Waits(n.by)'
    BY <2>1, <2>3, <2>4, <2>5 DEF OwnerInv
  <2>6. (\A n \in finishes : Waits(n.by))'
    BY <2>5
  <2> QED
    BY <2>1, <2>6 DEF OwnerInv
<1> HIDE DEF Same
<1> QED
  BY <1>1, <1>2, <1>3, <1>4, <1>5, OwnerHandshake, OwnerReader, OwnerLane, OwnerRecovery,
     OwnerRetry, OwnerFinish, OwnerSupervisor DEF Next
-----------------------------------------------------------------------------
(* The signals in hand, and what is done *)

\* A signal that a task handles was noted, by that task alone.
SeenInv ==
    /\ rd.pc = "inline" => rd.f.key \in seen
    /\ \A r \in Recoveries : rec[r].pc = "inline" => rec[r].f.key \in seen
    /\ OneHandlerPerSignal

\* The recoveries defer signals, nothing else.
DeferredSignals ==
    \A r \in Recoveries : \A i \in 1 .. Len(rec[r].later) : rec[r].later[i].key \in Signals

HandlingInv == PlaceInv /\ WriterInv /\ OwnerInv /\ SeenInv /\ DeferredSignals

\* A task that goes on handling a signal handles the same one.
LEMMA SeenQuiet ==
    ASSUME SeenInv, seen \subseteq seen',
           rd'.pc = "inline" => rd.pc = "inline" /\ rd'.f = rd.f,
           \A r \in Recoveries :
             rec'[r].pc = "inline" => rec[r].pc = "inline" /\ rec'[r].f = rec[r].f
    PROVE  SeenInv'
BY Names DEF SeenInv, OneHandlerPerSignal

LEMMA SeenReader ==
    ASSUME TypeOK, SeenInv, Reader
    PROVE  SeenInv'
<1>1. rec' = rec
  BY DEF Reader, ReadMark, ReadFrame, ReadGap, ReadEnds, UpsertOk, UpsertRefused,
         GateTimesOut, Dispatch, GateAbandoned, InlineEnds, Ack
<1>2. ASSUME seen' = seen, rd' = rd \/ rd'.pc # "inline" PROVE SeenInv'
  BY <1>1, <1>2, SeenQuiet
<1>3. CASE Dispatch
  <2>1. \/ seen' = seen /\ rd'.pc # "inline"
        \/ /\ rd'.pc = "inline" /\ rd'.f = rd.f /\ NewSignal(rd.f.key)
           /\ seen' = seen \cup {rd.f.key}
    BY <1>3, ReaderMoves DEF Dispatch, TypeOK
  <2>2. CASE rd'.pc = "inline" /\ rd'.f = rd.f /\ NewSignal(rd.f.key)
             /\ seen' = seen \cup {rd.f.key}
    BY <1>1, <2>2, Names DEF SeenInv, OneHandlerPerSignal, NewSignal
  <2> QED
    BY <1>2, <2>1, <2>2
<1>4. ASSUME NEW st \in {"done", "failed"}, InlineEnds(st) PROVE SeenInv'
  BY <1>2, <1>4, ReaderMoves DEF InlineEnds, TypeOK
<1>5. CASE ReadMark \/ ReadFrame \/ ReadEnds \/ GateTimesOut \/ GateAbandoned \/ Ack
  BY <1>2, <1>5, ReaderMoves DEF ReadMark, ReadFrame, ReadEnds, GateTimesOut, GateAbandoned,
                                 Ack, TypeOK
<1>6. CASE ReadGap
  BY <1>2, <1>6, CloseType DEF ReadGap, TypeOK
<1>7. ASSUME NEW w \in writes, UpsertOk(w) PROVE SeenInv'
  <2>1. seen' = seen
    BY <1>7 DEF UpsertOk
  <2>2. rd' = rd \/ rd'.pc \in {"over", "gate"}
    BY <1>7, ReaderMoves DEF UpsertOk, TypeOK
  <2> QED
    BY <1>2, <2>1, <2>2
<1>8. ASSUME NEW w \in writes, UpsertRefused(w) PROVE SeenInv'
  BY <1>2, <1>8, CloseType DEF UpsertRefused, TypeOK
<1> QED
  BY <1>3, <1>4, <1>5, <1>6, <1>7, <1>8 DEF Reader

LEMMA SeenHandshake ==
    ASSUME TypeOK, SeenInv, Handshake
    PROVE  SeenInv'
<1>1. seen' = seen
  BY DEF Handshake, Connect, HelloOk, Register, RegisterCancelled, RegisterFails
<1>2. ASSUME rec' = rec, rd' = rd \/ rd'.pc # "inline" PROVE SeenInv'
  BY <1>1, <1>2, SeenQuiet
<1>3. ASSUME NEW g \in regs, Register(g) PROVE SeenInv'
  <2>1. CASE rd.pc = "register" /\ gen = g
    <3> DEFINE t == [NoRecovery EXCEPT !.pc = "read"]
    <3>1. rec' = [rec EXCEPT !["start"] = t] /\ t.pc = "read"
      BY <1>3, <2>1 DEF Register, NoRecovery
    <3> HIDE DEF t
    <3>2. Moves("start", "read")
      BY <3>1, Names, RecoverySet
    <3>3. rd'.pc = "idle"
      BY <1>3, <2>1, ReaderMoves DEF Register, TypeOK
    <3> QED
      BY <1>1, <3>2, <3>3, SeenQuiet DEF Moves
  <2>2. CASE ~(rd.pc = "register" /\ gen = g)
    BY <1>2, <1>3, <2>2 DEF Register
  <2> QED
    BY <2>1, <2>2
<1>4. CASE Connect
  BY <1>2, <1>4 DEF Connect
<1>5. CASE HelloOk
  BY <1>2, <1>5, ReaderMoves DEF HelloOk, TypeOK
<1>6. ASSUME NEW g \in regs, RegisterCancelled(g) PROVE SeenInv'
  BY <1>2, <1>6, ReaderMoves DEF RegisterCancelled, TypeOK
<1>7. ASSUME NEW g \in regs, RegisterFails(g) PROVE SeenInv'
  BY <1>2, <1>7, CloseType DEF RegisterFails, TypeOK
<1> QED
  BY <1>3, <1>4, <1>5, <1>6, <1>7 DEF Handshake

LEMMA SeenRecovery ==
    ASSUME TypeOK, SeenInv, NEW r \in Recoveries, Recovery(r)
    PROVE  SeenInv'
<1>1. rd' = rd
  BY DEF Recovery, Recover, RecoverFails, RecoverRow, GateOpens, RecoverSignal,
         RecoveredSignalEnds
<1>2. ASSUME NEW pc, Moves(r, pc), pc # "inline", seen' = seen PROVE SeenInv'
  BY <1>1, <1>2, SeenQuiet DEF Moves
<1>3. ASSUME NEW gone, Recover(r, gone) PROVE SeenInv'
  BY <1>2, <1>3, RecoverMoves DEF Recover
<1>4. CASE RecoverFails(r) \/ GateOpens(r)
  BY <1>2, <1>4, RecoverMoves DEF RecoverFails, GateOpens
<1>5. CASE RecoverRow(r)
  BY <1>2, <1>5, RowMoves DEF RecoverRow
<1>6. CASE RecoverSignal(r)
  <2>1. CASE Moves(r, "finish") /\ seen' = seen
    BY <1>2, <2>1
  <2>2. CASE /\ Moves(r, "inline") /\ NewSignal(rec'[r].f.key)
             /\ seen' = seen \cup {rec'[r].f.key}
    BY <1>1, <2>2, Names DEF SeenInv, OneHandlerPerSignal, NewSignal, Moves
  <2> QED
    BY <1>6, <2>1, <2>2, SignalMoves
<1>7. ASSUME NEW st \in {"done", "failed"}, RecoveredSignalEnds(r, st) PROVE SeenInv'
  BY <1>2, <1>7, RecoverMoves DEF RecoveredSignalEnds
<1> QED
  BY <1>3, <1>4, <1>5, <1>6, <1>7 DEF Recovery

LEMMA SeenStep ==
    ASSUME TypeOK, SeenInv, [Next]_vars
    PROVE  SeenInv'
<1> DEFINE Same == UNCHANGED <<rd, rec, seen>>
<1>1. ASSUME Same PROVE SeenInv'
  BY <1>1, SeenQuiet
<1>2. ASSUME NEW c \in Chats, Lane(c) PROVE SeenInv'
  <2>1. UNCHANGED <<rd, seen>> /\ (rec' = rec \/ rec' = ScheduleRetry(rec))
    BY <1>2 DEF Lane, LaneClaims, LaneSkips, LaneRetries, LaneEnds
  <2>2. rec' = ScheduleRetry(rec) => Scheduled(rec)
    BY ScheduleMoves DEF TypeOK
  <2> QED
    BY <2>1, <2>2, Names, SeenQuiet DEF Scheduled
<1>3. CASE RetryWakes \/ RetryEnds
  <2>1. UNCHANGED <<rd, seen>> /\ \E pc \in {"read", "off", "sleep"} : Moves("retry", pc)
    BY <1>3, RetryMoves DEF RetryWakes, RetryEnds
  <2> QED
    BY <2>1, SeenQuiet DEF Moves
<1>4. CASE StartRecoveryEnds
  <2>1. UNCHANGED <<rd, seen>>
    BY <1>4 DEF StartRecoveryEnds
  <2> QED
    BY <1>4, <2>1, Names, RetryMoves, ConstantTypes, SeenQuiet DEF Stays
<1>5. ASSUME NEW n \in finishes, NEW ok \in BOOLEAN, FinishCommits(n, ok) PROVE SeenInv'
  <2>1. seen' = seen
    BY <1>5 DEF FinishCommits
  <2>2. rd' = rd \/ rd'.pc = "idle"
    BY <1>5, FinishMoves
  <2>3. \A r \in Recoveries : rec'[r] = rec[r] \/ rec'[r].pc \in {"rows", "later"}
    BY <1>5, FinishMoves DEF Moves
  <2> QED
    BY <2>1, <2>2, <2>3, SeenQuiet
<1>6. ASSUME rec' = [rec EXCEPT !["retry"] = NoRecovery], seen' = seen,
             rd' = rd \/ rd' = NoReader
      PROVE  SeenInv'
  <2>1. Moves("retry", "off")
    BY <1>6, Names, RecoverySet, ConstantTypes DEF Moves
  <2> QED
    BY <1>6, <2>1, ConstantTypes, SeenQuiet DEF Moves
<1>7. ASSUME Reset PROVE SeenInv'
  BY <1>7, Names, ConstantTypes DEF Reset, SeenInv, OneHandlerPerSignal
<1>8. CASE Supervisor
  BY <1>1, <1>6, <1>7, <1>8 DEF Supervisor, Flushed, Teardown, Away, AwayCloses, Resume,
                                StopBegins, StopEnds, Crash
<1>9. ASSUME NEW k, NEW p, Push(k, p) PROVE Same
  BY <1>9 DEF Push
<1>10. ASSUME NEW granted, SenderConnects(granted) PROVE Same
  BY <1>10 DEF SenderConnects
<1>11. CASE Drop \/ SenderRecovers \/ UNCHANGED vars
  BY <1>1, <1>11 DEF Drop, SenderRecovers
<1> HIDE DEF Same
<1> QED
  BY <1>1, <1>2, <1>3, <1>4, <1>5, <1>8, <1>9, <1>10, <1>11, SeenReader, SeenHandshake,
     SeenRecovery DEF Next
LEMMA DeferredQuiet ==
    ASSUME DeferredSignals,
           \A r \in Recoveries : rec'[r].later = rec[r].later \/ rec'[r].later = <<>>
    PROVE  DeferredSignals'
BY DEF DeferredSignals

LEMMA DeferredRecovery ==
    ASSUME TypeOK, DeferredSignals, NEW r \in Recoveries, Recovery(r)
    PROVE  DeferredSignals'
<1>1. rec[r].later \in Seq(Frame)
  BY DEF TypeOK, RecoveryTask
<1>2. ASSUME NEW pc, Moves(r, pc), rec'[r].later = rec[r].later PROVE DeferredSignals'
  BY <1>2, DeferredQuiet DEF Moves
<1>3. ASSUME NEW gone, Recover(r, gone) PROVE DeferredSignals'
  BY <1>2, <1>3, RecoverMoves
<1>4. CASE RecoverFails(r) \/ GateOpens(r)
  BY <1>2, <1>4, RecoverMoves
<1>5. ASSUME NEW f \in Frame, NEW pc, Moves(r, pc), f.key \in Signals,
             rec'[r].later = Append(rec[r].later, f)
      PROVE  DeferredSignals'
  <2> DEFINE q == Append(rec[r].later, f)
  <2>1. /\ Len(q) = Len(rec[r].later) + 1 /\ q[Len(rec[r].later) + 1] = f
        /\ \A i \in 1 .. Len(rec[r].later) : q[i] = rec[r].later[i]
        /\ Len(rec[r].later) \in Nat
    BY <1>1
  <2>2. rec'[r].later = q
    BY <1>5
  <2> HIDE DEF q
  <2>3. ASSUME NEW i \in 1 .. Len(q) PROVE q[i].key \in Signals
    <3>1. i \in 1 .. Len(rec[r].later) \/ i = Len(rec[r].later) + 1
      BY <2>1
    <3> QED
      BY <1>5, <2>1, <3>1 DEF DeferredSignals
  <2> QED
    BY <1>5, <2>2, <2>3 DEF DeferredSignals, Moves
<1>6. CASE RecoverRow(r)
  BY <1>2, <1>5, <1>6, RowMoves
<1>7. CASE RecoverSignal(r)
  <2>1. /\ rec[r].later # <<>> /\ rec'[r].later = Tail(rec[r].later)
        /\ \E pc : Moves(r, pc)
    BY <1>7, SignalMoves
  <2>2. \A i \in 1 .. Len(rec[r].later) : rec[r].later[i].key \in Signals
    BY DEF DeferredSignals
  <2>3. \A i \in 1 .. Len(Tail(rec[r].later)) : Tail(rec[r].later)[i].key \in Signals
    BY <1>1, <2>1, <2>2, TailWithin
  <2> QED
    BY <2>1, <2>3 DEF DeferredSignals, Moves
<1>8. ASSUME NEW st \in {"done", "failed"}, RecoveredSignalEnds(r, st) PROVE DeferredSignals'
  BY <1>2, <1>8, RecoverMoves
<1> QED
  BY <1>3, <1>4, <1>6, <1>7, <1>8 DEF Recovery

LEMMA DeferredStep ==
    ASSUME TypeOK, DeferredSignals, [Next]_vars
    PROVE  DeferredSignals'
<1>1. ASSUME rec' = rec PROVE DeferredSignals'
  BY <1>1, DeferredQuiet
<1>2. NoRecovery.later = <<>>
  BY DEF NoRecovery
<1>3. ASSUME NEW c \in Chats, Lane(c) PROVE DeferredSignals'
  <2>1. rec' = rec \/ rec' = ScheduleRetry(rec)
    BY <1>3 DEF Lane, LaneClaims, LaneSkips, LaneRetries, LaneEnds
  <2>2. rec' = ScheduleRetry(rec) => Scheduled(rec)
    BY ScheduleMoves DEF TypeOK
  <2> QED
    BY <2>1, <2>2, Names, DeferredQuiet DEF Scheduled
<1>4. CASE RetryWakes \/ RetryEnds
  <2>1. rec'["retry"].later = <<>> /\ rec'["start"] = rec["start"]
    BY <1>4, RetryMoves, Names DEF Moves
  <2> QED
    BY <2>1, Names, DeferredQuiet
<1>5. CASE StartRecoveryEnds
  BY <1>2, <1>5, Names, RetryMoves, DeferredQuiet DEF Stays
<1>6. ASSUME NEW n \in finishes, NEW ok \in BOOLEAN, FinishCommits(n, ok) PROVE DeferredSignals'
  <2>1. \A r \in Recoveries : rec'[r].later = rec[r].later
    BY <1>6, FinishMoves DEF Moves
  <2> QED
    BY <2>1, DeferredQuiet
<1>7. ASSUME NEW r \in Recoveries, NEW t, rec' = [rec EXCEPT ![r] = t], t.later = <<>>
      PROVE  DeferredSignals'
  BY <1>7, RecoverySet, DeferredQuiet DEF Moves
<1>8. ASSUME Reset PROVE DeferredSignals'
  BY <1>2, <1>8, DeferredQuiet DEF Reset
<1>9. CASE Supervisor
  BY <1>1, <1>2, <1>7, <1>8, <1>9, Names DEF Supervisor, Flushed, Teardown, Away, AwayCloses,
                                            Resume, StopBegins, StopEnds, Crash
<1>10. ASSUME NEW g \in regs, Register(g) PROVE DeferredSignals'
  <2> DEFINE t == [NoRecovery EXCEPT !.pc = "read"]
  <2>1. (rec' = rec \/ rec' = [rec EXCEPT !["start"] = t]) /\ t.later = <<>>
    BY <1>10 DEF Register, NoRecovery
  <2> HIDE DEF t
  <2> QED
    BY <1>1, <1>7, <2>1, Names
<1>11. CASE Handshake
  BY <1>1, <1>10, <1>11 DEF Handshake, Connect, HelloOk, RegisterCancelled, RegisterFails
<1>12. CASE Reader
  BY <1>1, <1>12 DEF Reader, ReadMark, ReadFrame, ReadGap, ReadEnds, UpsertOk, UpsertRefused,
                     GateTimesOut, Dispatch, GateAbandoned, InlineEnds, Ack
<1>13. ASSUME NEW k, NEW p, Push(k, p) PROVE DeferredSignals'
  BY <1>1, <1>13 DEF Push
<1>14. ASSUME NEW granted, SenderConnects(granted) PROVE DeferredSignals'
  BY <1>1, <1>14 DEF SenderConnects
<1>15. CASE Drop \/ SenderRecovers \/ UNCHANGED vars
  BY <1>1, <1>15 DEF Drop, SenderRecovers
<1> QED
  BY <1>3, <1>4, <1>5, <1>6, <1>9, <1>11, <1>12, <1>13, <1>14, <1>15, DeferredRecovery DEF Next

LEMMA HandlingInit == Init => HandlingInv
<1> SUFFICES ASSUME Init PROVE HandlingInv
  OBVIOUS
<1>1. PlaceInv /\ WriterInv /\ OwnerInv
  BY Names DEF Init, PlaceInv, WriterInv, OwnerInv, LiveWriterIsNewest, NoTracker, NoReader,
               NoRecovery
<1>2. SeenInv /\ DeferredSignals
  BY Names DEF Init, SeenInv, OneHandlerPerSignal, DeferredSignals, NoReader, NoRecovery
<1> QED
  BY <1>1, <1>2 DEF HandlingInv

LEMMA HandlingInductive == Spec => [](TypeOK /\ DurabilityInv /\ HandlingInv)
<1>1. TypeOK /\ HandlingInv /\ [Next]_vars => HandlingInv'
  BY PlaceStep, WriterStep, OwnerStep, SeenStep, DeferredStep DEF HandlingInv
<1> QED
  BY <1>1, HandlingInit, Inductive, PTL DEF Spec

\* Without a standalone sender the connection that reads is the one registered
\* last, and no signal is in the hands of two tasks (connection.py: the fence
\* of the registration, the signal observer).
THEOREM OneReaderReads == Spec => []OneReader
<1>1. HandlingInv => OneReader
  BY DEF HandlingInv, WriterInv, SeenInv, OneReader
<1> QED
  BY <1>1, HandlingInductive, PTL
-----------------------------------------------------------------------------
(* What is done was handled *)

\* A claimed message was given to its handler, and a lane's worker has only
\* claimed messages in hand.
ClaimInv ==
    /\ claimed \subseteq hist.handled
    /\ \A c \in Chats : lanes[c].pc # "idle" => lanes[c].f.key \in claimed

\* A message whose handling is to be noted was claimed; a recovery itself notes
\* only signals.
DoneUpdates ==
    \A n \in finishes :
      /\ n.f.key \in Messages => n.f.key \in claimed
      /\ n.by \in Recoveries => n.f.key \in Signals

\* A message that is finished, or was pruned after that, was claimed.
DoneRows ==
    \A m \in Messages :
      rows[m].st \in {"done", "failed"} \/ m \in hist.pruned => m \in claimed

DoneInv == None({"aways", "senders"}) => DoneUpdates /\ DoneRows

LEMMA HandledGrows ==
    ASSUME TypeOK, DurabilityInv, [Next]_vars
    PROVE  hist.handled \subseteq hist'.handled
BY HandledByHandlers

LEMMA ClaimedGrows ==
    ASSUME [Next]_vars
    PROVE  claimed \subseteq claimed'
<1>1. CASE Handshake \/ Drop
  BY <1>1 DEF Handshake, Connect, HelloOk, Register, RegisterCancelled, RegisterFails, Drop
<1>2. CASE Reader
  BY <1>2 DEF Reader, ReadMark, ReadFrame, ReadGap, ReadEnds, UpsertOk, UpsertRefused,
              GateTimesOut, Dispatch, GateAbandoned, InlineEnds, Ack
<1>3. ASSUME NEW c \in Chats, Lane(c) PROVE claimed \subseteq claimed'
  BY <1>3 DEF Lane, LaneClaims, LaneSkips, LaneRetries, LaneEnds
<1>4. ASSUME NEW r \in Recoveries, Recovery(r) PROVE claimed' = claimed
  BY <1>4 DEF Recovery, Recover, RecoverFails, RecoverRow, GateOpens, RecoverSignal,
              RecoveredSignalEnds
<1>5. CASE RetryWakes \/ StartRecoveryEnds \/ RetryEnds \/ SenderRecovers \/ UNCHANGED vars
  BY <1>5 DEF RetryWakes, StartRecoveryEnds, RetryEnds, SenderRecovers
<1>6. CASE Supervisor
  BY <1>6 DEF Supervisor, Flushed, Teardown, Away, AwayCloses, Resume, StopBegins, StopEnds,
              Crash
<1>7. ASSUME NEW n \in finishes, NEW ok \in BOOLEAN, FinishCommits(n, ok)
      PROVE  claimed' = claimed
  BY <1>7 DEF FinishCommits
<1>8. ASSUME NEW k, NEW p, Push(k, p) PROVE claimed' = claimed
  BY <1>8 DEF Push
<1>9. ASSUME NEW granted, SenderConnects(granted) PROVE claimed' = claimed
  BY <1>9 DEF SenderConnects
<1> QED
  BY <1>1, <1>2, <1>3, <1>4, <1>5, <1>6, <1>7, <1>8, <1>9 DEF Next

LEMMA ClaimStep ==
    ASSUME TypeOK, DurabilityInv, ClaimInv, [Next]_vars
    PROVE  ClaimInv'
<1> DEFINE Quiet == /\ claimed' = claimed
                    /\ \A c \in Chats : lanes'[c].pc # "idle" =>
                         lanes[c].pc # "idle" /\ lanes'[c].f = lanes[c].f
<1>1. ASSUME Quiet PROVE ClaimInv'
  BY <1>1, HandledGrows DEF ClaimInv
<1>2. ASSUME NEW c \in Chats, NEW pc, Pop(c, pc)
      PROVE  /\ \A d \in Chats : d # c => lanes'[d] = lanes[d]
             /\ lanes'[c].f = Head(lanes[c].q)
  BY <1>2 DEF Pop, TypeOK
<1>3. ASSUME NEW c \in Chats, Lane(c) PROVE ClaimInv'
  <2> DEFINE k == Head(lanes[c].q).key
  <2>1. lanes[c] \in LaneTask
    BY DEF TypeOK
  <2>2. CASE LaneClaims(c)
    <3>1. /\ claimed' = claimed \cup {k} /\ Pop(c, "handling")
          /\ hist' = [hist EXCEPT !.handled = @ \cup {k}, !.turns = Append(@, k)]
      BY <2>2 DEF LaneClaims
    <3>2. hist'.handled = hist.handled \cup {k}
      BY <3>1 DEF TypeOK, History
    <3>3. /\ \A d \in Chats : d # c => lanes'[d] = lanes[d]
          /\ lanes'[c].f.key = k
      BY <1>2, <3>1
    <3> HIDE DEF k
    <3> QED
      BY <3>1, <3>2, <3>3 DEF ClaimInv
  <2>3. CASE LaneSkips(c)
    <3>1. claimed' = claimed /\ Pop(c, "finish") /\ k \in claimed
      BY <2>3 DEF LaneSkips
    <3>2. /\ \A d \in Chats : d # c => lanes'[d] = lanes[d]
          /\ lanes'[c].f.key = k
      BY <1>2, <3>1
    <3> HIDE DEF k
    <3> QED
      BY <3>1, <3>2, HandledGrows DEF ClaimInv
  <2>4. CASE LaneRetries(c)
    <3> DEFINE t == [lanes[c] EXCEPT !.q = Tail(@)]
    <3>1. lanes' = [lanes EXCEPT ![c] = t] /\ claimed' = claimed
      BY <2>4 DEF LaneRetries
    <3>2. t.pc = lanes[c].pc /\ t.f = lanes[c].f
      BY <2>1 DEF LaneTask
    <3> HIDE DEF t
    <3>3. Quiet
      BY <3>1, <3>2 DEF TypeOK
    <3> QED
      BY <1>1, <3>3
  <2>5. ASSUME NEW st \in {"done", "failed"}, LaneEnds(c, st) PROVE ClaimInv'
    <3> DEFINE t == [lanes[c] EXCEPT !.pc = "finish"]
    <3>1. lanes' = [lanes EXCEPT ![c] = t] /\ claimed' = claimed /\ lanes[c].pc = "handling"
      BY <2>5 DEF LaneEnds
    <3>2. t.f = lanes[c].f
      BY <2>1 DEF LaneTask
    <3> HIDE DEF t
    <3>3. Quiet
      BY <3>1, <3>2 DEF TypeOK
    <3> QED
      BY <1>1, <3>3
  <2> QED
    BY <1>3, <2>2, <2>3, <2>4, <2>5 DEF Lane
<1>4. ASSUME NEW r \in Recoveries, Recovery(r) PROVE Quiet
  <2>1. claimed' = claimed /\ (lanes' = lanes \/ \E f \in Frame : ToLane(f))
    BY <1>4 DEF Recovery, Recover, RecoverFails, RecoverRow, GateOpens, RecoverSignal,
                RecoveredSignalEnds, TypeOK, RecoveryTask
  <2> QED
    BY <2>1, ToLaneKeeps
<1>5. ASSUME Reader PROVE Quiet
  <2>1. claimed' = claimed /\ (lanes' = lanes \/ (rd.f \in Frame /\ ToLane(rd.f)))
    BY <1>5 DEF Reader, ReadMark, ReadFrame, ReadGap, ReadEnds, UpsertOk, UpsertRefused,
                GateTimesOut, Dispatch, GateAbandoned, InlineEnds, Ack, TypeOK
  <2> QED
    BY <2>1, ToLaneKeeps
<1>6. ASSUME NEW n \in finishes, NEW ok \in BOOLEAN, FinishCommits(n, ok) PROVE Quiet
  BY <1>6, FinishMoves DEF FinishCommits
<1>7. ASSUME Supervisor PROVE Quiet
  <2>1. claimed' = claimed /\ (lanes' = lanes \/ \A c \in Chats : lanes'[c] = IdleLane)
    BY <1>7 DEF Supervisor, Flushed, Teardown, Away, AwayCloses, Resume, StopBegins, StopEnds,
                Crash, Reset
  <2> QED
    BY <2>1, ConstantTypes
<1>8. ASSUME Handshake PROVE Quiet
  BY <1>8 DEF Handshake, Connect, HelloOk, Register, RegisterCancelled, RegisterFails
<1>9. ASSUME NEW k, NEW p, Push(k, p) PROVE Quiet
  BY <1>9 DEF Push
<1>10. ASSUME NEW granted, SenderConnects(granted) PROVE Quiet
  BY <1>10 DEF SenderConnects
<1>11. ASSUME Drop \/ RetryWakes \/ StartRecoveryEnds \/ RetryEnds \/ SenderRecovers
              \/ UNCHANGED vars
       PROVE  Quiet
  BY <1>11 DEF Drop, RetryWakes, StartRecoveryEnds, RetryEnds, SenderRecovers
<1> HIDE DEF Quiet
<1> QED
  BY <1>1, <1>2, <1>3, <1>4, <1>5, <1>6, <1>7, <1>8, <1>9, <1>10, <1>11 DEF Next

\* While a task may dispatch a frame, the state is READY unless it was left for
\* SUSPENDED or AUTH_FAILED.
LEMMA OnlyAwayIgnores ==
    ASSUME TypeOK, PlaceInv, ~stopping, state # "READY",
           rd.pc = "gate" \/ \E r \in Recoveries : rec[r].pc = "rows"
    PROVE  used["aways"] > 0
BY Names DEF TypeOK, PlaceInv

LEMMA UpdatesStep ==
    ASSUME TypeOK, DurabilityInv, HandlingInv, ClaimInv, DoneUpdates,
           None({"aways", "senders"}), [Next]_vars
    PROVE  DoneUpdates'
<1>1. used["aways"] = 0 /\ used["senders"] = 0
  BY DEF None
<1>2. ASSUME finishes' \subseteq finishes PROVE DoneUpdates'
  BY <1>2, ClaimedGrows DEF DoneUpdates
<1>3. ASSUME NEW f, NEW st, NEW by, StartFinish(f, st, by),
             f.key \in Messages => f.key \in claimed',
             by \in Recoveries => f.key \in Signals
      PROVE  DoneUpdates'
  <2> DEFINE new == [f |-> f, st |-> st, by |-> by]
  <2>1. finishes' = finishes \cup {new} /\ new.f = f /\ new.by = by
    BY <1>3 DEF StartFinish
  <2> HIDE DEF new
  <2> QED
    BY <1>3, <2>1, ClaimedGrows DEF DoneUpdates
<1>4. ASSUME NEW tasks, finishes' = Orphaned(tasks) PROVE DoneUpdates'
  <2>1. ASSUME NEW n \in finishes' PROVE \E m \in finishes : n.f = m.f /\ n.by \in {m.by, "nobody"}
    <3>1. PICK m \in finishes : n = IF m.by \in tasks THEN [m EXCEPT !.by = "nobody"] ELSE m
      BY <1>4, <2>1 DEF Orphaned
    <3>2. m \in Finish
      BY DEF TypeOK
    <3> QED
      BY <3>1, <3>2 DEF Finish
  <2> QED
    BY <2>1, Names, ClaimedGrows DEF DoneUpdates
<1>5. CASE Dispatch
  <2>1. CASE finishes' = finishes
    BY <1>2, <2>1
  <2>2. CASE finishes' # finishes
    <3>1. /\ rd.pc = "gate" /\ ~stopping /\ StartFinish(rd.f, "done", "reader")
          /\ rd.f.key \in Messages => state # "READY"
      BY <1>5, <2>2 DEF Dispatch
    <3>2. rd.f.key \notin Messages
      BY <1>1, <3>1, OnlyAwayIgnores DEF HandlingInv
    <3> QED
      BY <1>3, <3>1, <3>2, Names
  <2> QED
    BY <2>1, <2>2
<1>6. ASSUME NEW st \in {"done", "failed"}, InlineEnds(st) PROVE DoneUpdates'
  <2>1. StartFinish(rd.f, st, "reader") /\ rd.f.key \in Signals
    BY <1>6 DEF InlineEnds, TypeOK, HandlingInv, SeenInv
  <2> QED
    BY <1>3, <2>1, Names, KeysAssumption
<1>7. CASE Reader
  BY <1>2, <1>5, <1>6, <1>7 DEF Reader, ReadMark, ReadFrame, ReadGap, ReadEnds, UpsertOk,
                                UpsertRefused, GateTimesOut, GateAbandoned, Ack
<1>8. ASSUME NEW c \in Chats, Lane(c) PROVE DoneUpdates'
  <2>1. CASE LaneClaims(c) \/ LaneRetries(c)
    BY <1>2, <2>1 DEF LaneClaims, LaneRetries
  <2>2. CASE LaneSkips(c)
    <3>1. StartFinish(Head(lanes[c].q), "done", c) /\ Head(lanes[c].q).key \in claimed
      BY <2>2 DEF LaneSkips
    <3> QED
      BY <1>3, <3>1, Names, ClaimedGrows
  <2>3. ASSUME NEW st \in {"done", "failed"}, LaneEnds(c, st) PROVE DoneUpdates'
    <3>1. StartFinish(lanes[c].f, st, c) /\ lanes[c].f.key \in claimed
      BY <2>3 DEF LaneEnds, ClaimInv
    <3> QED
      BY <1>3, <3>1, Names, ClaimedGrows
  <2> QED
    BY <1>8, <2>1, <2>2, <2>3 DEF Lane
<1>9. ASSUME NEW r \in Recoveries, Recovery(r) PROVE DoneUpdates'
  <2>1. CASE finishes' = finishes
    BY <1>2, <2>1
  <2>2. CASE RecoverRow(r) /\ finishes' # finishes
    <3>1. state # "READY" /\ ~stopping /\ rec[r].pc = "rows"
      BY <2>2, RowMoves DEF RecoverRow
    <3> QED
      BY <1>1, <3>1, OnlyAwayIgnores DEF HandlingInv
  <2>3. CASE RecoverSignal(r) /\ finishes' # finishes
    <3> DEFINE f == Head(rec[r].later)
    <3>1. StartFinish(f, "done", r) /\ rec[r].later \in Seq(Frame) /\ rec[r].later # <<>>
      BY <2>3, SignalMoves
    <3>2. f.key \in Signals
      <4>1. \A i \in 1 .. Len(rec[r].later) : rec[r].later[i].key \in Signals
        BY DEF HandlingInv, DeferredSignals
      <4> QED
        BY <3>1, <4>1, TailWithin
    <3> QED
      BY <1>3, <3>1, <3>2, KeysAssumption
  <2>4. ASSUME NEW st \in {"done", "failed"}, RecoveredSignalEnds(r, st) PROVE DoneUpdates'
    <3>1. StartFinish(rec[r].f, st, r) /\ rec[r].f.key \in Signals
      BY <2>4 DEF RecoveredSignalEnds, TypeOK, HandlingInv, SeenInv
    <3> QED
      BY <1>3, <3>1, KeysAssumption
  <2>5. CASE \/ \E gone \in SUBSET Keys : Recover(r, gone)
             \/ RecoverFails(r) \/ GateOpens(r)
    BY <1>2, <2>5 DEF Recover, RecoverFails, GateOpens
  <2> QED
    BY <1>9, <2>1, <2>2, <2>3, <2>4, <2>5 DEF Recovery
<1>10. CASE Supervisor
  <2>1. CASE Teardown \/ StopBegins \/ StopEnds
    BY <1>4, <2>1 DEF Teardown, StopBegins, StopEnds
  <2>2. CASE Flushed \/ Away \/ AwayCloses \/ Resume \/ Crash
    BY <1>2, <2>2 DEF Flushed, Away, AwayCloses, Resume, Crash
  <2> QED
    BY <1>10, <2>1, <2>2 DEF Supervisor
<1>11. CASE SenderRecovers
  BY <1>1, <1>11 DEF SenderRecovers, HandlingInv, PlaceInv
<1>12. CASE Handshake \/ Drop \/ RetryWakes \/ StartRecoveryEnds \/ RetryEnds \/ UNCHANGED vars
  BY <1>2, <1>12 DEF Handshake, Connect, HelloOk, Register, RegisterCancelled, RegisterFails,
                     Drop, RetryWakes, StartRecoveryEnds, RetryEnds
<1>13. ASSUME NEW k, NEW p, Push(k, p) PROVE DoneUpdates'
  BY <1>2, <1>13 DEF Push
<1>14. ASSUME NEW granted, SenderConnects(granted) PROVE DoneUpdates'
  BY <1>2, <1>14 DEF SenderConnects
<1>15. ASSUME NEW n \in finishes, NEW ok \in BOOLEAN, FinishCommits(n, ok) PROVE DoneUpdates'
  BY <1>2, <1>15 DEF FinishCommits
<1> QED
  BY <1>7, <1>8, <1>9, <1>10, <1>11, <1>12, <1>13, <1>14, <1>15 DEF Next

LEMMA RowsStep ==
    ASSUME TypeOK, DurabilityInv, DoneUpdates, DoneRows, [Next]_vars
    PROVE  DoneRows'
<1> DEFINE Ended(m) == rows[m].st \in {"done", "failed"} \/ m \in hist.pruned
<1>1. ASSUME NEW m \in Messages, Ended(m)', ~Ended(m)
      PROVE  m \in claimed
  <2>1. m \in Keys /\ rows[m] \in Row
    BY DEF Keys, TypeOK
  <2>2. ASSUME NEW w \in writes, UpsertOk(w) PROVE FALSE
    <3>1. /\ w.f.key \in Keys /\ rows' = [rows EXCEPT ![w.f.key] = UpsertRow(rows[w.f.key], w)]
          /\ hist' = hist
      BY <2>2, UpsertRowType DEF UpsertOk
    <3>2. rows'[m] = UpsertRow(rows[m], w)
      BY <1>1, <2>1, <3>1 DEF TypeOK
    <3> QED
      BY <1>1, <3>1, <3>2 DEF UpsertRow
  <2>3. ASSUME NEW r \in Recoveries, NEW gone \in SUBSET Keys, Recover(r, gone) PROVE FALSE
    <3>1. hist'.pruned = hist.pruned \cup gone
      BY <2>3 DEF Recover, TypeOK, History
    <3>2. m \in gone => rows[m].st \in {"done", "failed"}
      BY <2>3 DEF Recover
    <3> QED
      BY <1>1, <2>1, <2>3, <3>1, <3>2 DEF Recover, NoRow
  <2>4. ASSUME NEW n \in finishes, NEW ok \in BOOLEAN, FinishCommits(n, ok)
        PROVE  m \in claimed
    <3>1. ok /\ rows' = [rows EXCEPT ![n.f.key] = FinishRow(rows[n.f.key], n)] /\ hist' = hist
      BY <1>1, <2>4 DEF FinishCommits
    <3>2. n.f.key = m
      BY <1>1, <2>1, <3>1 DEF TypeOK
    <3> QED
      BY <1>1, <3>2 DEF DoneUpdates
  <2> QED
    BY <1>1, <2>2, <2>3, <2>4, OtherStepsKeepRows
<1>2. ASSUME NEW m \in Messages, Ended(m)' PROVE m \in claimed'
  BY <1>1, <1>2, ClaimedGrows DEF DoneRows
<1> QED
  BY <1>2 DEF DoneRows

LEMMA DoneStep ==
    ASSUME TypeOK, DurabilityInv, HandlingInv, ClaimInv, DoneInv, [Next]_vars
    PROVE  DoneInv'
<1>1. None({"aways", "senders"})' => None({"aways", "senders"})
  BY NoneBefore, Names
<1> QED
  BY <1>1, UpdatesStep, RowsStep DEF DoneInv

LEMMA DoneInit == Init => ClaimInv /\ DoneInv
BY DEF Init, ClaimInv, DoneInv, DoneUpdates, DoneRows, IdleLane, NoRow, Keys

LEMMA ClaimInductive == Spec => [](TypeOK /\ DurabilityInv /\ HandlingInv /\ ClaimInv /\ DoneInv)
<1>1. TypeOK /\ DurabilityInv /\ HandlingInv /\ ClaimInv /\ DoneInv /\ [Next]_vars
        => ClaimInv' /\ DoneInv'
  BY ClaimStep, DoneStep
<1> QED
  BY <1>1, DoneInit, HandlingInductive, PTL DEF Spec

\* A message whose receipt is done was given to its handler: whatever fails,
\* is lost or is delivered again, nothing the server was told to forget is
\* dropped, unless READY was left or a standalone sender ran.
THEOREM DoneWasHandled == Spec => []NothingDropped
<1>1. ClaimInv /\ DoneInv => NothingDropped
  BY DEF ClaimInv, DoneInv, DoneRows, NothingDropped
<1> QED
  BY <1>1, ClaimInductive, PTL

-----------------------------------------------------------------------------
(* While the connection is up *)

\* READY belongs to a connection that was not torn down, and a handshake ends in it.
ReadyInv ==
    /\ state = "READY" => main \in {"recover", "flush", "watch"} /\ link # "none" /\ ~stopping
    /\ main = "hello" /\ ~stopping => state = "HANDSHAKING"
    /\ rd.pc = "none" => main = "idle"

\* A recovery that read nothing yet holds no row and did not succeed; only the
\* retry is asked to run again.
FreshInv ==
    /\ \A r \in Recoveries :
         rec[r].pc \in {"off", "sleep", "read"} => ~rec[r].ok /\ rec[r].todo = {}
    /\ ~rec["start"].again

LEMMA ReadyHandshake ==
    ASSUME TypeOK, PlaceInv, ReadyInv, WriterInv, Handshake
    PROVE  ReadyInv'
<1>1. CASE Connect
  BY <1>1 DEF ReadyInv, Connect
<1>2. CASE HelloOk
  BY <1>2, ReaderMoves DEF TypeOK, ReadyInv, HelloOk
<1>3. ASSUME NEW g \in regs, Register(g) PROVE ReadyInv'
  <2>1. gen = g /\ rd.pc = "register" /\ ~stopping /\ link # "none"
    BY <1>3 DEF Register, StillCurrent, WriterInv
  <2>2. /\ rd' = [rd EXCEPT !.pc = "idle"] /\ state' = "READY" /\ main' = "recover"
        /\ UNCHANGED <<link, stopping>>
    BY <1>3, <2>1 DEF Register
  <2>3. rd'.pc = "idle"
    BY <2>2, ReaderMoves DEF TypeOK
  <2> QED
    BY <2>1, <2>2, <2>3 DEF ReadyInv
<1>4. ASSUME NEW g \in regs, RegisterCancelled(g) PROVE ReadyInv'
  BY <1>4, ReaderMoves DEF TypeOK, ReadyInv, RegisterCancelled
<1>5. ASSUME NEW g \in regs, RegisterFails(g) PROVE ReadyInv'
  BY <1>5, CloseType DEF TypeOK, ReadyInv, RegisterFails
<1> QED
  BY <1>1, <1>2, <1>3, <1>4, <1>5 DEF Handshake

LEMMA ReadyStep ==
    ASSUME TypeOK, PlaceInv, OwnerInv, ReadyInv, WriterInv, [Next]_vars
    PROVE  ReadyInv'
<1> DEFINE Same == UNCHANGED <<state, main, link, stopping, rd>>
<1>1. ASSUME Same PROVE ReadyInv'
  BY <1>1 DEF ReadyInv
<1>2. CASE Reader
  <2>1. UNCHANGED <<state, main, stopping>> /\ (link' = link \/ link' = "closed")
    BY <1>2 DEF Reader, ReadMark, ReadFrame, ReadGap, ReadEnds, UpsertOk, UpsertRefused,
                GateTimesOut, Dispatch, GateAbandoned, InlineEnds, Ack, CloseFromReader
  <2>2. rd' = rd \/ rd'.pc # "none"
    BY <1>2, ReaderMoves DEF TypeOK, Reader, ReadMark, ReadFrame, ReadGap, ReadEnds, UpsertOk,
           UpsertRefused, GateTimesOut, Dispatch, GateAbandoned, InlineEnds, Ack, CloseFromReader
  <2> QED
    BY <2>1, <2>2 DEF ReadyInv
<1>3. ASSUME NEW c \in Chats, Lane(c) PROVE Same
  BY <1>3 DEF Lane, LaneClaims, LaneSkips, LaneRetries, LaneEnds
<1>4. ASSUME NEW r \in Recoveries, Recovery(r) PROVE Same
  BY <1>4 DEF Recovery, Recover, RecoverFails, RecoverRow, GateOpens, RecoverSignal,
              RecoveredSignalEnds
<1>5. CASE StartRecoveryEnds
  BY <1>5, Names DEF StartRecoveryEnds, ReadyInv, PlaceInv
<1>6. ASSUME NEW n \in finishes, NEW ok \in BOOLEAN, FinishCommits(n, ok) PROVE ReadyInv'
  <2>1. UNCHANGED <<state, main, link, stopping>> /\ (rd' = rd \/ rd'.pc = "idle")
    BY <1>6, FinishMoves DEF FinishCommits
  <2> QED
    BY <2>1 DEF ReadyInv
<1>7. CASE Supervisor
  BY <1>7, ConstantTypes DEF ReadyInv, Supervisor, Flushed, Teardown, Away, AwayCloses, Resume,
                 StopBegins, StopEnds, Crash, Reset
<1>8. CASE Drop
  BY <1>8 DEF ReadyInv, Drop
<1>9. ASSUME NEW k, NEW p, Push(k, p) PROVE Same
  BY <1>9 DEF Push
<1>10. ASSUME NEW granted, SenderConnects(granted) PROVE Same
  BY <1>10 DEF SenderConnects
<1>11. CASE RetryWakes \/ RetryEnds \/ SenderRecovers \/ UNCHANGED vars
  BY <1>1, <1>11 DEF RetryWakes, RetryEnds, SenderRecovers
<1> HIDE DEF Same
<1> QED
  BY <1>1, <1>2, <1>3, <1>4, <1>5, <1>6, <1>7, <1>8, <1>9, <1>10, <1>11, ReadyHandshake DEF Next

-----------------------------------------------------------------------------
(* What a step makes of a recovery task *)

Becomes(r, pc, todo, later, ok) ==
    /\ Moves(r, pc)
    /\ rec'[r].todo = todo /\ rec'[r].later = later
    /\ rec'[r].ok = ok /\ rec'[r].again = rec[r].again

LEMMA RecordBecomes ==
    ASSUME TypeOK, NEW r \in Recoveries, NEW t, rec' = [rec EXCEPT ![r] = t],
           t.again = rec[r].again
    PROVE  Becomes(r, t.pc, t.todo, t.later, t.ok) /\ rec'[r] = t
BY RecoverySet DEF Becomes

LEMMA RecoverBecomes ==
    ASSUME TypeOK, NEW r \in Recoveries
    PROVE  /\ \A gone : Recover(r, gone)
                => Becomes(r, "rows", PendingRows, rec[r].later, TRUE)
           /\ RecoverFails(r) => Becomes(r, "later", rec[r].todo, rec[r].later, rec[r].ok)
           /\ GateOpens(r) => Becomes(r, "later", {}, rec[r].later, rec[r].ok)
           /\ \A st : RecoveredSignalEnds(r, st)
                => /\ Becomes(r, "finish", rec[r].todo, rec[r].later, rec[r].ok)
                   /\ rec'[r].f = rec[r].f
<1>1. rec[r] \in RecoveryTask
  BY DEF TypeOK
<1>2. ASSUME NEW gone, Recover(r, gone)
      PROVE  Becomes(r, "rows", PendingRows, rec[r].later, TRUE)
  <2> DEFINE t == [rec[r] EXCEPT !.pc = "rows", !.todo = PendingRows, !.ok = TRUE]
  <2>1. rec' = [rec EXCEPT ![r] = t]
    BY <1>2 DEF Recover
  <2>2. /\ t.pc = "rows" /\ t.later = rec[r].later /\ t.todo = PendingRows /\ t.ok = TRUE
        /\ t.again = rec[r].again
    BY <1>1 DEF RecoveryTask
  <2> HIDE DEF t
  <2>3. Becomes(r, t.pc, t.todo, t.later, t.ok)
    BY <2>1, <2>2, RecordBecomes
  <2> QED
    BY <2>2, <2>3
<1>3. ASSUME RecoverFails(r)
      PROVE  Becomes(r, "later", rec[r].todo, rec[r].later, rec[r].ok)
  <2> DEFINE t == [rec[r] EXCEPT !.pc = "later"]
  <2>1. rec' = [rec EXCEPT ![r] = t]
    BY <1>3 DEF RecoverFails
  <2>2. /\ t.pc = "later" /\ t.later = rec[r].later /\ t.todo = rec[r].todo
        /\ t.ok = rec[r].ok /\ t.again = rec[r].again
    BY <1>1 DEF RecoveryTask
  <2> HIDE DEF t
  <2>3. Becomes(r, t.pc, t.todo, t.later, t.ok)
    BY <2>1, <2>2, RecordBecomes
  <2> QED
    BY <2>2, <2>3
<1>4. ASSUME GateOpens(r)
      PROVE  Becomes(r, "later", {}, rec[r].later, rec[r].ok)
  <2> DEFINE t == [rec[r] EXCEPT !.pc = "later", !.todo = {}]
  <2>1. rec' = [rec EXCEPT ![r] = t]
    BY <1>4 DEF GateOpens
  <2>2. /\ t.pc = "later" /\ t.later = rec[r].later /\ t.todo = {}
        /\ t.ok = rec[r].ok /\ t.again = rec[r].again
    BY <1>1 DEF RecoveryTask
  <2> HIDE DEF t
  <2>3. Becomes(r, t.pc, t.todo, t.later, t.ok)
    BY <2>1, <2>2, RecordBecomes
  <2> QED
    BY <2>2, <2>3
<1>5. ASSUME NEW st, RecoveredSignalEnds(r, st)
      PROVE  /\ Becomes(r, "finish", rec[r].todo, rec[r].later, rec[r].ok)
             /\ rec'[r].f = rec[r].f
  <2> DEFINE t == [rec[r] EXCEPT !.pc = "finish"]
  <2>1. rec' = [rec EXCEPT ![r] = t]
    BY <1>5 DEF RecoveredSignalEnds
  <2>2. /\ t.pc = "finish" /\ t.later = rec[r].later /\ t.todo = rec[r].todo
        /\ t.ok = rec[r].ok /\ t.again = rec[r].again /\ t.f = rec[r].f
    BY <1>1 DEF RecoveryTask
  <2> HIDE DEF t
  <2>3. Becomes(r, t.pc, t.todo, t.later, t.ok) /\ rec'[r] = t
    BY <2>1, <2>2, RecordBecomes
  <2> QED
    BY <2>2, <2>3
<1> QED
  BY <1>2, <1>3, <1>4, <1>5

LEMMA RowBecomes ==
    ASSUME TypeOK, NEW r \in Recoveries, RecoverRow(r)
    PROVE  \E u \in rec[r].todo :
             /\ u.f \in Frame /\ u.at \in Nat
             /\ \A v \in rec[r].todo : u.at <= v.at
             /\ LET rest == rec[r].todo \ {u}
                IN  \/ /\ u.f.key \in InFlight /\ lanes' = lanes /\ finishes' = finishes
                       /\ Becomes(r, "rows", rest, rec[r].later, rec[r].ok)
                    \/ /\ u.f.key \in Signals /\ lanes' = lanes /\ finishes' = finishes
                       /\ Becomes(r, "rows", rest, Append(rec[r].later, u.f), rec[r].ok)
                    \/ /\ u.f.key \in Messages /\ state = "READY"
                       /\ ToLane(u.f) /\ finishes' = finishes
                       /\ Becomes(r, "rows", rest, rec[r].later, rec[r].ok)
                    \/ /\ u.f.key \in Messages /\ state # "READY"
                       /\ StartFinish(u.f, "done", r) /\ lanes' = lanes
                       /\ Becomes(r, "finish", rest, rec[r].later, rec[r].ok)
<1>1. rec[r] \in RecoveryTask /\ rec[r].pc = "rows"
  BY DEF TypeOK, RecoverRow
<1>2. PICK u \in rec[r].todo :
        /\ \A v \in rec[r].todo : u.at <= v.at
        /\ LET f    == u.f
               rest == [rec[r] EXCEPT !.todo = @ \ {u}]
           IN  \/ /\ f.key \in InFlight
                  /\ rec' = [rec EXCEPT ![r] = rest]
                  /\ UNCHANGED <<lanes, finishes>>
               \/ /\ f.key \in Signals \ InFlight
                  /\ rec' = [rec EXCEPT ![r] = [rest EXCEPT !.later = Append(@, f)]]
                  /\ UNCHANGED <<lanes, finishes>>
               \/ /\ f.key \in Messages \ InFlight /\ state = "READY"
                  /\ ToLane(f)
                  /\ rec' = [rec EXCEPT ![r] = rest]
                  /\ UNCHANGED finishes
               \/ /\ f.key \in Messages \ InFlight /\ state # "READY"
                  /\ StartFinish(f, "done", r)
                  /\ rec' = [rec EXCEPT ![r] = [rest EXCEPT !.pc = "finish", !.f = f]]
                  /\ UNCHANGED lanes
  BY DEF RecoverRow
<1> DEFINE left == rec[r].todo \ {u}
           rest == [rec[r] EXCEPT !.todo = @ \ {u}]
           more == [rest EXCEPT !.later = Append(@, u.f)]
           last == [rest EXCEPT !.pc = "finish", !.f = u.f]
<1>3. u.f \in Frame /\ u.at \in Nat
  BY <1>1 DEF RecoveryTask
<1>4. /\ rest.pc = "rows" /\ rest.todo = left /\ rest.later = rec[r].later
      /\ rest.ok = rec[r].ok /\ rest.again = rec[r].again
  BY <1>1 DEF RecoveryTask
<1>5. /\ more.pc = "rows" /\ more.todo = left /\ more.later = Append(rec[r].later, u.f)
      /\ more.ok = rec[r].ok /\ more.again = rec[r].again
  BY <1>1 DEF RecoveryTask
<1>6. /\ last.pc = "finish" /\ last.todo = left /\ last.later = rec[r].later
      /\ last.ok = rec[r].ok /\ last.again = rec[r].again
  BY <1>1 DEF RecoveryTask
<1>7. \/ /\ u.f.key \in InFlight /\ lanes' = lanes /\ finishes' = finishes
         /\ rec' = [rec EXCEPT ![r] = rest]
      \/ /\ u.f.key \in Signals /\ lanes' = lanes /\ finishes' = finishes
         /\ rec' = [rec EXCEPT ![r] = more]
      \/ /\ u.f.key \in Messages /\ state = "READY" /\ ToLane(u.f) /\ finishes' = finishes
         /\ rec' = [rec EXCEPT ![r] = rest]
      \/ /\ u.f.key \in Messages /\ state # "READY" /\ StartFinish(u.f, "done", r)
         /\ lanes' = lanes
         /\ rec' = [rec EXCEPT ![r] = last]
  BY <1>2
<1> HIDE DEF left, rest, more, last
<1>8. ASSUME rec' = [rec EXCEPT ![r] = rest]
      PROVE  Becomes(r, "rows", left, rec[r].later, rec[r].ok)
  <2>1. Becomes(r, rest.pc, rest.todo, rest.later, rest.ok)
    BY <1>4, <1>8, RecordBecomes
  <2> QED
    BY <1>4, <2>1
<1>9. ASSUME rec' = [rec EXCEPT ![r] = more]
      PROVE  Becomes(r, "rows", left, Append(rec[r].later, u.f), rec[r].ok)
  <2>1. Becomes(r, more.pc, more.todo, more.later, more.ok)
    BY <1>5, <1>9, RecordBecomes
  <2> QED
    BY <1>5, <2>1
<1>10. ASSUME rec' = [rec EXCEPT ![r] = last]
       PROVE  Becomes(r, "finish", left, rec[r].later, rec[r].ok)
  <2>1. Becomes(r, last.pc, last.todo, last.later, last.ok)
    BY <1>6, <1>10, RecordBecomes
  <2> QED
    BY <1>6, <2>1
<1>11. /\ u.f \in Frame /\ u.at \in Nat
       /\ \A v \in rec[r].todo : u.at <= v.at
       /\ \/ /\ u.f.key \in InFlight /\ lanes' = lanes /\ finishes' = finishes
             /\ Becomes(r, "rows", left, rec[r].later, rec[r].ok)
          \/ /\ u.f.key \in Signals /\ lanes' = lanes /\ finishes' = finishes
             /\ Becomes(r, "rows", left, Append(rec[r].later, u.f), rec[r].ok)
          \/ /\ u.f.key \in Messages /\ state = "READY"
             /\ ToLane(u.f) /\ finishes' = finishes
             /\ Becomes(r, "rows", left, rec[r].later, rec[r].ok)
          \/ /\ u.f.key \in Messages /\ state # "READY"
             /\ StartFinish(u.f, "done", r) /\ lanes' = lanes
             /\ Becomes(r, "finish", left, rec[r].later, rec[r].ok)
  BY <1>2, <1>3, <1>7, <1>8, <1>9, <1>10
<1> QED
  BY <1>11 DEF left

LEMMA SignalBecomes ==
    ASSUME TypeOK, NEW r \in Recoveries, RecoverSignal(r)
    PROVE  /\ rec[r].later \in Seq(Frame) /\ rec[r].later # <<>>
           /\ rec'[r].f = Head(rec[r].later)
           /\ LET k == Head(rec[r].later).key
                  rest == Tail(rec[r].later)
              IN  \/ /\ NewSignal(k) /\ seen' = seen \cup {k}
                     /\ Becomes(r, "inline", rec[r].todo, rest, rec[r].ok)
                  \/ /\ state = "READY" => ~NewSignal(k)
                     /\ seen' = seen
                     /\ Becomes(r, "finish", rec[r].todo, rest, rec[r].ok)
<1>1. rec[r] \in RecoveryTask
  BY DEF TypeOK
<1> DEFINE f    == Head(rec[r].later)
           rest == [rec[r] EXCEPT !.later = Tail(@), !.f = f]
           run  == [rest EXCEPT !.pc = "inline"]
           last == [rest EXCEPT !.pc = "finish"]
<1>2. /\ run.pc = "inline" /\ run.f = f /\ run.later = Tail(rec[r].later)
      /\ run.todo = rec[r].todo /\ run.ok = rec[r].ok /\ run.again = rec[r].again
  BY <1>1 DEF RecoveryTask
<1>3. /\ last.pc = "finish" /\ last.f = f /\ last.later = Tail(rec[r].later)
      /\ last.todo = rec[r].todo /\ last.ok = rec[r].ok /\ last.again = rec[r].again
  BY <1>1 DEF RecoveryTask
<1>4. \/ /\ rec' = [rec EXCEPT ![r] = run]
         /\ NewSignal(f.key) /\ seen' = seen \cup {f.key}
      \/ /\ rec' = [rec EXCEPT ![r] = last] /\ seen' = seen
         /\ state = "READY" => ~NewSignal(f.key)
  BY DEF RecoverSignal
<1>5. rec[r].later \in Seq(Frame) /\ rec[r].later # <<>>
  BY <1>1 DEF RecoveryTask, RecoverSignal
<1> HIDE DEF rest, run, last
<1>6. /\ rec' = [rec EXCEPT ![r] = run]
           => /\ Becomes(r, "inline", rec[r].todo, Tail(rec[r].later), rec[r].ok)
              /\ rec'[r] = run
      /\ rec' = [rec EXCEPT ![r] = last]
           => /\ Becomes(r, "finish", rec[r].todo, Tail(rec[r].later), rec[r].ok)
              /\ rec'[r] = last
  BY <1>2, <1>3, RecordBecomes
<1> QED
  BY <1>2, <1>3, <1>4, <1>5, <1>6

\* A retry that waits, or reads, starts from nothing.
Fresh(t, pc) ==
    t.pc = pc /\ t.todo = {} /\ t.later = <<>> /\ ~t.ok /\ ~t.again

\* What a request for a retry makes of the retry task
Asked(t) ==
    \/ rec'["retry"] = t /\ (stopping \/ link = "none")
    \/ t.pc = "off" /\ Fresh(rec'["retry"], "sleep")
    \/ /\ t.pc # "off" /\ rec'["retry"].pc = t.pc /\ rec'["retry"].todo = t.todo
       /\ rec'["retry"].later = t.later /\ rec'["retry"].ok = t.ok /\ rec'["retry"].again
       /\ rec'["retry"].f = t.f

LEMMA ScheduleBecomes ==
    ASSUME NEW tasks \in [Recoveries -> RecoveryTask], rec' = ScheduleRetry(tasks)
    PROVE  rec'["start"] = tasks["start"] /\ Asked(tasks["retry"])
<1> DEFINE asleep == [NoRecovery EXCEPT !.pc = "sleep"]
           again  == [tasks["retry"] EXCEPT !.again = TRUE]
<1>1. "retry" \in Recoveries /\ "start" \in Recoveries /\ tasks["retry"] \in RecoveryTask
  BY DEF Recoveries
<1>2. /\ again.pc = tasks["retry"].pc /\ again.f = tasks["retry"].f
      /\ again.later = tasks["retry"].later /\ again.todo = tasks["retry"].todo
      /\ again.ok = tasks["retry"].ok /\ again.again
  BY <1>1 DEF RecoveryTask
<1>3. Fresh(asleep, "sleep")
  BY DEF NoRecovery, Fresh
<1>4. \/ rec' = tasks /\ (stopping \/ link = "none")
      \/ tasks["retry"].pc = "off" /\ rec' = [tasks EXCEPT !["retry"] = asleep]
      \/ tasks["retry"].pc # "off" /\ rec' = [tasks EXCEPT !["retry"] = again]
  <2>1. rec' = [tasks EXCEPT !["retry"].again = TRUE] => rec' = [tasks EXCEPT !["retry"] = again]
    OBVIOUS
  <2> QED
    BY <2>1 DEF ScheduleRetry
<1> HIDE DEF asleep, again
<1> QED
  BY <1>1, <1>2, <1>3, <1>4 DEF Asked

LEMMA RetryBecomes ==
    ASSUME TypeOK
    PROVE  /\ RetryWakes => rec'["start"] = rec["start"] /\ Fresh(rec'["retry"], "read")
           /\ RetryEnds =>
                /\ rec'["start"] = rec["start"]
                /\ \/ Fresh(rec'["retry"], "sleep")
                   \/ /\ Fresh(rec'["retry"], "off")
                      /\ stopping \/ (rec["retry"].ok /\ ~rec["retry"].again)
           /\ StartRecoveryEnds =>
                /\ rec'["start"] = NoRecovery
                /\ IF rec["start"].ok THEN rec'["retry"] = rec["retry"] ELSE Asked(rec["retry"])
<1>1. "retry" \in Recoveries /\ "start" \in Recoveries /\ rec \in [Recoveries -> RecoveryTask]
  BY DEF Recoveries, TypeOK
<1>2. ASSUME RetryWakes
      PROVE  rec'["start"] = rec["start"] /\ Fresh(rec'["retry"], "read")
  <2> DEFINE t == [NoRecovery EXCEPT !.pc = "read"]
  <2>1. rec' = [rec EXCEPT !["retry"] = t]
    BY <1>2 DEF RetryWakes
  <2>2. Fresh(t, "read")
    BY DEF NoRecovery, Fresh
  <2> HIDE DEF t
  <2> QED
    BY <1>1, <2>1, <2>2
<1>3. ASSUME RetryEnds
      PROVE  /\ rec'["start"] = rec["start"]
             /\ \/ Fresh(rec'["retry"], "sleep")
                \/ /\ Fresh(rec'["retry"], "off")
                   /\ stopping \/ (rec["retry"].ok /\ ~rec["retry"].again)
  <2> DEFINE t == [NoRecovery EXCEPT !.pc = "sleep"]
             sure == stopping \/ (rec["retry"].ok /\ ~rec["retry"].again)
  <2>1. \/ rec' = [rec EXCEPT !["retry"] = NoRecovery] /\ sure
        \/ rec' = [rec EXCEPT !["retry"] = t]
    BY <1>3 DEF RetryEnds
  <2>2. Fresh(t, "sleep") /\ Fresh(NoRecovery, "off")
    BY DEF NoRecovery, Fresh
  <2> HIDE DEF t
  <2> QED
    BY <1>1, <2>1, <2>2
<1>4. ASSUME StartRecoveryEnds
      PROVE  /\ rec'["start"] = NoRecovery
             /\ IF rec["start"].ok THEN rec'["retry"] = rec["retry"] ELSE Asked(rec["retry"])
  <2> DEFINE off == [rec EXCEPT !["start"] = NoRecovery]
  <2>1. off \in [Recoveries -> RecoveryTask]
    BY <1>1, ConstantTypes
  <2>2. IF rec["start"].ok THEN rec' = off ELSE rec' = ScheduleRetry(off)
    BY <1>4 DEF StartRecoveryEnds
  <2>3. off["start"] = NoRecovery /\ off["retry"] = rec["retry"]
    BY <1>1
  <2> HIDE DEF off
  <2> QED
    BY <2>1, <2>2, <2>3, ScheduleBecomes
<1> QED
  BY <1>2, <1>3, <1>4

LEMMA FinishBecomes ==
    ASSUME TypeOK, NEW n \in finishes, NEW ok \in BOOLEAN, FinishCommits(n, ok),
           n.by \in Recoveries
    PROVE  Becomes(n.by, IF n.f.key \in Messages THEN "rows" ELSE "later",
                   rec[n.by].todo, rec[n.by].later, rec[n.by].ok)
<1> DEFINE pc == IF n.f.key \in Messages THEN "rows" ELSE "later"
           t  == [rec[n.by] EXCEPT !.pc = pc, !.f = NothingRead]
<1>1. rec' = [rec EXCEPT ![n.by] = t]
  BY DEF FinishCommits
<1>2. rec[n.by] \in RecoveryTask
  BY DEF TypeOK
<1>3. /\ t.pc = pc /\ t.later = rec[n.by].later /\ t.todo = rec[n.by].todo
      /\ t.ok = rec[n.by].ok /\ t.again = rec[n.by].again
  BY <1>2 DEF RecoveryTask
<1> HIDE DEF t, pc
<1>4. Becomes(n.by, t.pc, t.todo, t.later, t.ok)
  BY <1>1, <1>3, RecordBecomes
<1> QED
  BY <1>3, <1>4 DEF pc

-----------------------------------------------------------------------------
(* How the recovery tasks move *)

\* The supervisor stops the retry, or every task, and leaves READY.
Silenced ==
    /\ state' # "READY"
    /\ Fresh(rec'["retry"], "off")
    /\ rec'["start"] = rec["start"] \/ Fresh(rec'["start"], "off")

LEMMA SupervisorSilences ==
    ASSUME TypeOK, Supervisor
    PROVE  rec' = rec \/ Silenced
<1>1. "start" \in Recoveries /\ "retry" \in Recoveries /\ rec \in [Recoveries -> RecoveryTask]
  BY Names DEF TypeOK
<1>2. Fresh(NoRecovery, "off")
  BY DEF Fresh, NoRecovery
<1>3. CASE Teardown \/ StopBegins
  <2>1. rec' = [rec EXCEPT !["retry"] = NoRecovery]
    BY <1>3 DEF Teardown, StopBegins
  <2>2. state' # "READY"
    BY <1>3 DEF Teardown, StopBegins
  <2>3. rec'["retry"] = NoRecovery /\ rec'["start"] = rec["start"]
    BY <1>1, <2>1
  <2> QED
    BY <1>2, <2>2, <2>3 DEF Silenced
<1>4. CASE StopEnds \/ Crash
  <2>1. rec' = [r \in Recoveries |-> NoRecovery] /\ state' # "READY"
    BY <1>4 DEF StopEnds, Crash, Reset
  <2>2. rec'["retry"] = NoRecovery /\ rec'["start"] = NoRecovery
    BY <1>1, <2>1
  <2> QED
    BY <1>2, <2>1, <2>2 DEF Silenced
<1>5. CASE Flushed \/ Away \/ AwayCloses \/ Resume
  BY <1>5 DEF Flushed, Away, AwayCloses, Resume
<1> QED
  BY <1>3, <1>4, <1>5 DEF Supervisor

\* What a step may make of the recovery tasks
LEMMA RecoverySteps ==
    ASSUME TypeOK, [Next]_vars
    PROVE  \/ rec' = rec
           \/ \E g \in regs : /\ Register(g) /\ rd.pc = "register" /\ gen = g
                              /\ rec'["retry"] = rec["retry"]
                              /\ Fresh(rec'["start"], "read")
           \/ \E c \in Chats : /\ LaneRetries(c)
                               /\ rec'["start"] = rec["start"] /\ Asked(rec["retry"])
           \/ \E r \in Recoveries : Recovery(r)
           \/ RetryWakes \/ RetryEnds \/ StartRecoveryEnds
           \/ \E n \in finishes, ok \in BOOLEAN :
                /\ FinishCommits(n, ok) /\ n.by \in Recoveries
                /\ Becomes(n.by, IF n.f.key \in Messages THEN "rows" ELSE "later",
                           rec[n.by].todo, rec[n.by].later, rec[n.by].ok)
           \/ Supervisor /\ Silenced
<1>1. "start" \in Recoveries /\ "retry" \in Recoveries /\ rec \in [Recoveries -> RecoveryTask]
  BY Names DEF TypeOK
<1>2. ASSUME NEW g \in regs, Register(g)
      PROVE  \/ rec' = rec
             \/ /\ rd.pc = "register" /\ gen = g /\ rec'["retry"] = rec["retry"]
                /\ Fresh(rec'["start"], "read")
  <2>1. CASE rd.pc = "register" /\ gen = g
    <3> DEFINE t == [NoRecovery EXCEPT !.pc = "read"]
    <3>1. rec' = [rec EXCEPT !["start"] = t]
      BY <1>2, <2>1 DEF Register
    <3>2. Fresh(t, "read")
      BY DEF Fresh, NoRecovery
    <3> HIDE DEF t
    <3> QED
      BY <1>1, <2>1, <3>1, <3>2
  <2>2. CASE ~(rd.pc = "register" /\ gen = g)
    BY <1>2, <2>2 DEF Register
  <2> QED
    BY <2>1, <2>2
<1>3. ASSUME NEW c \in Chats, LaneRetries(c)
      PROVE  rec'["start"] = rec["start"] /\ Asked(rec["retry"])
  BY <1>1, <1>3, ScheduleBecomes DEF LaneRetries
<1>4. ASSUME NEW c \in Chats, Lane(c) PROVE rec' = rec \/ LaneRetries(c)
  BY <1>4 DEF Lane, LaneClaims, LaneSkips, LaneEnds
<1>5. ASSUME NEW n \in finishes, NEW ok \in BOOLEAN, FinishCommits(n, ok)
      PROVE  \/ rec' = rec
             \/ /\ n.by \in Recoveries
                /\ Becomes(n.by, IF n.f.key \in Messages THEN "rows" ELSE "later",
                           rec[n.by].todo, rec[n.by].later, rec[n.by].ok)
  BY <1>5, FinishMoves, FinishBecomes
<1>6. ASSUME Handshake PROVE rec' = rec \/ \E g \in regs : Register(g)
  BY <1>6 DEF Handshake, Connect, HelloOk, RegisterCancelled, RegisterFails
<1>7. ASSUME Reader PROVE rec' = rec
  BY <1>7 DEF Reader, ReadMark, ReadFrame, ReadGap, ReadEnds, UpsertOk, UpsertRefused,
              GateTimesOut, Dispatch, GateAbandoned, InlineEnds, Ack
<1>8. ASSUME NEW k, NEW p, Push(k, p) PROVE rec' = rec
  BY <1>8 DEF Push
<1>9. ASSUME NEW granted, SenderConnects(granted) PROVE rec' = rec
  BY <1>9 DEF SenderConnects
<1>10. ASSUME Drop \/ SenderRecovers \/ UNCHANGED vars PROVE rec' = rec
  BY <1>10 DEF Drop, SenderRecovers
<1>11. CASE Handshake
  BY <1>2, <1>6, <1>11
<1>12. CASE \E c \in Chats : Lane(c)
  BY <1>3, <1>4, <1>12
<1>13. CASE \E n \in finishes, ok \in BOOLEAN : FinishCommits(n, ok)
  BY <1>5, <1>13
<1>14. CASE Supervisor
  BY <1>14, SupervisorSilences
<1>15. CASE Reader \/ Drop \/ SenderRecovers \/ UNCHANGED vars
  BY <1>7, <1>10, <1>15
<1>16. CASE \/ \E k \in Keys, p \in BOOLEAN : Push(k, p)
            \/ Push(Mark, FALSE)
            \/ \E granted \in BOOLEAN : SenderConnects(granted)
  BY <1>8, <1>9, <1>16
<1>17. CASE (\E r \in Recoveries : Recovery(r)) \/ RetryWakes \/ StartRecoveryEnds \/ RetryEnds
  BY <1>17
<1> QED
  BY <1>11, <1>12, <1>13, <1>14, <1>15, <1>16, <1>17 DEF Next

LEMMA FreshStep ==
    ASSUME TypeOK, FreshInv, [Next]_vars
    PROVE  FreshInv'
<1> DEFINE Good(r) == rec'[r].pc \in {"off", "sleep", "read"} => ~rec'[r].ok /\ rec'[r].todo = {}
<1>1. ASSUME NEW r \in Recoveries, NEW pc \in {"rows", "later", "inline", "finish"},
             NEW todo, NEW later, NEW ok, Becomes(r, pc, todo, later, ok)
      PROVE  FreshInv'
  <2>1. rec'[r].pc = pc /\ rec'[r].again = rec[r].again
    BY <1>1 DEF Becomes, Moves
  <2>2. \A s \in Recoveries : s # r => rec'[s] = rec[s]
    BY <1>1 DEF Becomes, Moves
  <2> QED
    BY <2>1, <2>2, Names DEF FreshInv
<1>2. ASSUME Asked(rec["retry"]) PROVE Good("retry")
  BY <1>2, Names DEF Asked, Fresh, FreshInv
<1>3. ASSUME NEW t, NEW pc, Fresh(t, pc) PROVE ~t.ok /\ t.todo = {} /\ ~t.again
  BY <1>3 DEF Fresh
<1>4. ASSUME ~rec'["start"].again, Good("start"), Good("retry") PROVE FreshInv'
  BY <1>4, Names DEF FreshInv
<1>5. rec'["start"] = rec["start"] => Good("start") /\ ~rec'["start"].again
  BY Names DEF FreshInv
<1>6. rec'["retry"] = rec["retry"] => Good("retry")
  BY Names DEF FreshInv
<1>7. rec'["start"] = NoRecovery => Good("start") /\ ~rec'["start"].again
  BY DEF NoRecovery
<1>8. CASE rec' = rec
  BY <1>8 DEF FreshInv
<1>9. ASSUME Fresh(rec'["start"], "read"), rec'["retry"] = rec["retry"] PROVE FreshInv'
  BY <1>3, <1>4, <1>6, <1>9
<1>10. ASSUME rec'["start"] = rec["start"], Asked(rec["retry"]) PROVE FreshInv'
  BY <1>2, <1>4, <1>5, <1>10
<1>11. ASSUME NEW r \in Recoveries, Recovery(r) PROVE FreshInv'
  <2>1. ASSUME NEW gone, Recover(r, gone) PROVE FreshInv'
    BY <1>1, <2>1, RecoverBecomes
  <2>2. CASE RecoverFails(r) \/ GateOpens(r)
    BY <1>1, <2>2, RecoverBecomes
  <2>3. CASE RecoverRow(r)
    BY <1>1, <2>3, RowBecomes
  <2>4. CASE RecoverSignal(r)
    BY <1>1, <2>4, SignalBecomes
  <2>5. ASSUME NEW st, RecoveredSignalEnds(r, st) PROVE FreshInv'
    BY <1>1, <2>5, RecoverBecomes
  <2> QED
    BY <1>11, <2>1, <2>2, <2>3, <2>4, <2>5 DEF Recovery
<1>12. CASE RetryWakes \/ RetryEnds
  <2>1. rec'["start"] = rec["start"] /\ \E pc : Fresh(rec'["retry"], pc)
    BY <1>12, RetryBecomes
  <2> QED
    BY <1>3, <1>4, <1>5, <2>1
<1>13. CASE StartRecoveryEnds
  <2>1. rec'["start"] = NoRecovery /\ (rec'["retry"] = rec["retry"] \/ Asked(rec["retry"]))
    BY <1>13, RetryBecomes
  <2> QED
    BY <1>2, <1>4, <1>6, <1>7, <2>1
<1>14. CASE Silenced
  BY <1>3, <1>4, <1>5, <1>14 DEF Silenced
<1>15. ASSUME NEW n \in finishes, n.by \in Recoveries,
              Becomes(n.by, IF n.f.key \in Messages THEN "rows" ELSE "later",
                      rec[n.by].todo, rec[n.by].later, rec[n.by].ok)
       PROVE  FreshInv'
  BY <1>1, <1>15
<1> HIDE DEF Good
<1> QED
  BY <1>8, <1>9, <1>10, <1>11, <1>12, <1>13, <1>14, <1>15, RecoverySteps

\* While the connection is up, a frame whose handling is being noted is a signal
\* that was seen, and only a recovery that goes through its rows has rows.
InHandInv ==
    state = "READY" =>
      /\ rd.pc = "finish" => rd.f.key \in seen
      /\ \A r \in Recoveries : rec[r].pc = "finish" => rec[r].f.key \in seen
      /\ \A r \in Recoveries : rec[r].pc # "rows" => rec[r].todo = {}

\* A connection is up that was up, or that registers now.
LEMMA StaysReady ==
    ASSUME TypeOK, PlaceInv, WriterInv, ReadyInv, [Next]_vars, state' = "READY"
    PROVE  \/ state = "READY" /\ seen \subseteq seen' /\ ~\E g \in regs : Register(g)
           \/ \E g \in regs : /\ Register(g) /\ rd.pc = "register" /\ gen = g
                              /\ state = "HANDSHAKING" /\ main = "hello" /\ seen' = seen
                              /\ rd'.pc = "idle"
<1> DEFINE Goal == state = "READY" /\ seen \subseteq seen'
<1>1. ASSUME NEW g \in regs, Register(g)
      PROVE  /\ rd.pc = "register" /\ gen = g /\ state = "HANDSHAKING" /\ main = "hello"
             /\ seen' = seen /\ rd'.pc = "idle"
  <2>1. rd.pc = "register" /\ gen = g /\ ~stopping
    BY <1>1 DEF Register, StillCurrent, WriterInv
  <2>2. main = "hello" /\ state = "HANDSHAKING"
    BY <2>1 DEF PlaceInv, ReadyInv
  <2> QED
    BY <1>1, <2>1, <2>2, ReaderMoves DEF Register, TypeOK
<1>2. CASE Handshake
  <2>1. Goal \/ \E g \in regs : Register(g)
    BY <1>2 DEF Handshake, Connect, HelloOk, RegisterCancelled, RegisterFails
  <2> QED
    BY <1>1, <2>1
<1>3. ASSUME Reader PROVE Goal
  BY <1>3 DEF Reader, ReadMark, ReadFrame, ReadGap, ReadEnds, UpsertOk, UpsertRefused,
              GateTimesOut, Dispatch, GateAbandoned, InlineEnds, Ack
<1>4. ASSUME NEW c \in Chats, Lane(c) PROVE Goal
  BY <1>4 DEF Lane, LaneClaims, LaneSkips, LaneRetries, LaneEnds
<1>5. ASSUME NEW r \in Recoveries, Recovery(r) PROVE Goal
  BY <1>5 DEF Recovery, Recover, RecoverFails, RecoverRow, GateOpens, RecoverSignal,
              RecoveredSignalEnds
<1>6. ASSUME Supervisor PROVE Goal
  BY <1>6 DEF Supervisor, Flushed, Teardown, Away, AwayCloses, Resume, StopBegins, StopEnds,
              Crash, Reset
<1>7. ASSUME NEW n, NEW ok, FinishCommits(n, ok) PROVE Goal
  BY <1>7 DEF FinishCommits
<1>8. ASSUME NEW k, NEW p, Push(k, p) PROVE Goal
  BY <1>8 DEF Push
<1>9. ASSUME NEW granted, SenderConnects(granted) PROVE Goal
  BY <1>9 DEF SenderConnects
<1>10. ASSUME Drop \/ RetryWakes \/ StartRecoveryEnds \/ RetryEnds \/ SenderRecovers
              \/ UNCHANGED vars
       PROVE  Goal
  BY <1>10 DEF Drop, RetryWakes, StartRecoveryEnds, RetryEnds, SenderRecovers
<1> HIDE DEF Goal
<1>11. Goal \/ \E g \in regs : Register(g)
  BY <1>2, <1>3, <1>4, <1>5, <1>6, <1>7, <1>8, <1>9, <1>10 DEF Next, Goal
<1> QED
  BY <1>1, <1>11 DEF Goal

LEMMA ReaderHand ==
    ASSUME TypeOK, PlaceInv, WriterInv, SeenInv, ReadyInv, InHandInv, [Next]_vars,
           state = "READY", state' = "READY", rd'.pc = "finish"
    PROVE  rd'.f.key \in seen'
<1>1. seen \subseteq seen'
  BY StaysReady
<1>2. ASSUME rd' = rd PROVE rd'.f.key \in seen'
  BY <1>1, <1>2 DEF InHandInv
<1>3. CASE Dispatch
  <2>1. /\ ~(rd.f.key \in Messages \/ NewSignal(rd.f.key))
        /\ rd' = [rd EXCEPT !.pc = "finish"]
    BY <1>3, ReaderMoves DEF Dispatch, TypeOK
  <2>2. rd'.f = rd.f /\ rd.f \in Frame
    BY <1>3, <2>1, ReaderMoves DEF TypeOK, Dispatch
  <2> QED
    BY <1>1, <2>1, <2>2 DEF NewSignal, Frame, Keys
<1>4. ASSUME NEW st, InlineEnds(st) PROVE rd'.f.key \in seen'
  <2>1. rd'.f = rd.f /\ rd.pc = "inline"
    BY <1>4, ReaderMoves DEF InlineEnds, TypeOK
  <2> QED
    BY <1>1, <2>1 DEF SeenInv
<1>5. CASE ReadMark \/ ReadFrame \/ ReadEnds \/ GateTimesOut \/ GateAbandoned \/ Ack
  BY <1>2, <1>5, ReaderMoves DEF ReadMark, ReadFrame, ReadEnds, GateTimesOut, GateAbandoned,
                                 Ack, TypeOK
<1>6. CASE ReadGap
  BY <1>2, <1>6, CloseType DEF ReadGap, TypeOK
<1>7. ASSUME NEW w \in writes, UpsertOk(w) PROVE rd'.f.key \in seen'
  BY <1>2, <1>7, ReaderMoves DEF UpsertOk, TypeOK
<1>8. ASSUME NEW w \in writes, UpsertRefused(w) PROVE rd'.f.key \in seen'
  BY <1>2, <1>8, CloseType DEF UpsertRefused, TypeOK
<1>9. CASE Reader
  BY <1>3, <1>4, <1>5, <1>6, <1>7, <1>8, <1>9 DEF Reader
<1>10. CASE Handshake
  BY <1>2, <1>10, StaysReady, CloseType, ReaderMoves
     DEF Handshake, Connect, HelloOk, RegisterCancelled, RegisterFails, TypeOK
<1>11. ASSUME NEW n \in finishes, NEW ok \in BOOLEAN, FinishCommits(n, ok)
       PROVE rd'.f.key \in seen'
  BY <1>2, <1>11, FinishMoves
<1>12. CASE Supervisor
  BY <1>2, <1>12 DEF Supervisor, Flushed, Teardown, Away, AwayCloses, Resume, StopBegins,
                     StopEnds, Crash, Reset
<1>13. ASSUME NEW c \in Chats, Lane(c) PROVE rd' = rd
  BY <1>13 DEF Lane, LaneClaims, LaneSkips, LaneRetries, LaneEnds
<1>14. ASSUME NEW r \in Recoveries, Recovery(r) PROVE rd' = rd
  BY <1>14 DEF Recovery, Recover, RecoverFails, RecoverRow, GateOpens, RecoverSignal,
               RecoveredSignalEnds
<1>15. ASSUME NEW k, NEW p, Push(k, p) PROVE rd' = rd
  BY <1>15 DEF Push
<1>16. ASSUME NEW granted, SenderConnects(granted) PROVE rd' = rd
  BY <1>16 DEF SenderConnects
<1>17. CASE Drop \/ RetryWakes \/ StartRecoveryEnds \/ RetryEnds \/ SenderRecovers
            \/ UNCHANGED vars
  BY <1>2, <1>17 DEF Drop, RetryWakes, StartRecoveryEnds, RetryEnds, SenderRecovers
<1> QED
  BY <1>2, <1>9, <1>10, <1>11, <1>12, <1>13, <1>14, <1>15, <1>16, <1>17 DEF Next

InHand(t, noted) ==
    /\ t.pc = "finish" => t.f.key \in noted
    /\ t.pc # "rows" => t.todo = {}

LEMMA RecoveryHand ==
    ASSUME TypeOK, PlaceInv, WriterInv, SeenInv, DeferredSignals, ReadyInv, FreshInv, InHandInv,
           OwnerInv, [Next]_vars, state = "READY", state' = "READY", NEW s \in Recoveries
    PROVE  InHand(rec'[s], seen')
<1>1. seen \subseteq seen'
  BY StaysReady
<1>2. \A r \in Recoveries : InHand(rec[r], seen')
  BY <1>1 DEF InHandInv, InHand
<1>3. ASSUME NEW t, NEW pc \in {"off", "sleep", "read"}, Fresh(t, pc) PROVE InHand(t, seen')
  BY <1>3 DEF Fresh, InHand
<1>4. ASSUME NEW r \in Recoveries, NEW pc, NEW todo, NEW later, NEW ok,
             Becomes(r, pc, todo, later, ok),
             pc = "finish" => rec'[r].f.key \in seen', pc # "rows" => todo = {}
      PROVE  InHand(rec'[s], seen')
  <2>1. InHand(rec'[r], seen')
    BY <1>4 DEF Becomes, Moves, InHand
  <2>2. \A q \in Recoveries : q # r => rec'[q] = rec[q]
    BY <1>4 DEF Becomes, Moves
  <2> QED
    BY <1>2, <2>1, <2>2
<1>5. ASSUME Asked(rec["retry"]) PROVE InHand(rec'["retry"], seen')
  <2>1. InHand(rec["retry"], seen')
    BY <1>2, Names
  <2> QED
    BY <1>3, <1>5, <2>1 DEF Asked, InHand
<1>6. ASSUME InHand(rec'["start"], seen'), InHand(rec'["retry"], seen')
      PROVE  InHand(rec'[s], seen')
  BY <1>6, Names
<1>7. ASSUME NEW r \in Recoveries, Recovery(r) PROVE InHand(rec'[s], seen')
  <2>1. ASSUME NEW gone, Recover(r, gone) PROVE InHand(rec'[s], seen')
    BY <1>4, <2>1, RecoverBecomes
  <2>2. CASE RecoverFails(r)
    <3>1. rec[r].todo = {}
      BY <2>2 DEF RecoverFails, FreshInv
    <3> QED
      BY <1>4, <2>2, <3>1, RecoverBecomes
  <2>3. CASE GateOpens(r)
    BY <1>4, <2>3, RecoverBecomes
  <2>4. CASE RecoverRow(r)
    BY <1>4, <2>4, RowBecomes
  <2>5. CASE RecoverSignal(r)
    <3> DEFINE k == Head(rec[r].later).key
    <3>1. rec[r].todo = {}
      BY <2>5 DEF RecoverSignal, InHandInv
    <3>2. k \in Signals
      <4>1. rec[r].later \in Seq(Frame) /\ rec[r].later # <<>>
        BY <2>5, SignalBecomes
      <4>2. 1 \in 1 .. Len(rec[r].later) /\ Head(rec[r].later) = rec[r].later[1]
        BY <4>1
      <4> QED
        BY <4>2 DEF DeferredSignals
    <3>3. /\ rec'[r].f.key = k
          /\ \/ Becomes(r, "inline", rec[r].todo, Tail(rec[r].later), rec[r].ok)
             \/ /\ ~NewSignal(k)
                /\ Becomes(r, "finish", rec[r].todo, Tail(rec[r].later), rec[r].ok)
      BY <2>5, SignalBecomes
    <3> HIDE DEF k
    <3>4. k \in seen \/ NewSignal(k)
      BY <3>2 DEF NewSignal
    <3> QED
      BY <1>1, <1>4, <3>1, <3>3, <3>4
  <2>6. ASSUME NEW st, RecoveredSignalEnds(r, st) PROVE InHand(rec'[s], seen')
    <3>1. rec[r].pc = "inline"
      BY <2>6 DEF RecoveredSignalEnds
    <3>2. rec[r].todo = {} /\ rec[r].f.key \in seen
      BY <3>1 DEF InHandInv, SeenInv
    <3> QED
      BY <1>1, <1>4, <2>6, <3>2, RecoverBecomes
  <2> QED
    BY <1>7, <2>1, <2>2, <2>3, <2>4, <2>5, <2>6 DEF Recovery
<1>8. CASE RetryWakes \/ RetryEnds
  <2>1. rec'["start"] = rec["start"] /\ \E pc \in {"off", "sleep", "read"} : Fresh(rec'["retry"], pc)
    BY <1>8, RetryBecomes
  <2> QED
    BY <1>2, <1>3, <1>6, <2>1, Names
<1>9. CASE StartRecoveryEnds
  <2>1. rec'["start"] = NoRecovery /\ (rec'["retry"] = rec["retry"] \/ Asked(rec["retry"]))
    BY <1>9, RetryBecomes
  <2>2. InHand(NoRecovery, seen')
    BY DEF InHand, NoRecovery
  <2> QED
    BY <1>2, <1>5, <1>6, <2>1, <2>2, Names
<1>10. ASSUME NEW n \in finishes, n.by \in Recoveries, OwnerInv,
              Becomes(n.by, IF n.f.key \in Messages THEN "rows" ELSE "later",
                      rec[n.by].todo, rec[n.by].later, rec[n.by].ok)
       PROVE  InHand(rec'[s], seen')
  <2>1. rec[n.by].todo = {}
    BY <1>10, Names DEF OwnerInv, Waits, InHandInv
  <2> QED
    BY <1>4, <1>10, <2>1
<1>11. ASSUME rec'["start"] = rec["start"], Asked(rec["retry"]) PROVE InHand(rec'[s], seen')
  BY <1>2, <1>5, <1>6, <1>11, Names
<1>12. ~\E g \in regs : Register(g)
  BY StaysReady
<1> QED
  BY <1>2, <1>7, <1>8, <1>9, <1>10, <1>11, <1>12, RecoverySteps DEF Silenced

LEMMA InHandStep ==
    ASSUME TypeOK, HandlingInv, ReadyInv, FreshInv, InHandInv, [Next]_vars
    PROVE  InHandInv'
<1> USE DEF HandlingInv
<1>1. CASE state' # "READY"
  BY <1>1 DEF InHandInv
<1>2. CASE state = "READY" /\ state' = "READY"
  <2>1. rd'.pc = "finish" => rd'.f.key \in seen'
    BY <1>2, ReaderHand
  <2>2. \A s \in Recoveries : InHand(rec'[s], seen')
    BY <1>2, RecoveryHand
  <2> QED
    BY <2>1, <2>2 DEF InHandInv, InHand
<1>3. ASSUME NEW g \in regs, Register(g), rd.pc = "register", gen = g, state = "HANDSHAKING",
             rd'.pc = "idle"
      PROVE  InHandInv'
  <2>1. rec["retry"].pc \in {"off", "sleep"} /\ rec["retry"].todo = {}
    BY <1>3, Names DEF PlaceInv, FreshInv
  <2> DEFINE t == [NoRecovery EXCEPT !.pc = "read"]
  <2>2. rec' = [rec EXCEPT !["start"] = t]
    BY <1>3 DEF Register
  <2>3. t.pc = "read" /\ t.todo = {}
    BY DEF NoRecovery
  <2> HIDE DEF t
  <2>4. rec'["retry"] = rec["retry"] /\ rec'["start"].pc = "read" /\ rec'["start"].todo = {}
    BY <2>2, <2>3, Names DEF TypeOK
  <2> QED
    BY <1>3, <2>1, <2>4, Names DEF InHandInv
<1> QED
  BY <1>1, <1>2, <1>3, StaysReady

-----------------------------------------------------------------------------
(* Who reads and writes *)

\* The reader reads frames, or handles one.
Live == {"idle", "upsert", "gate", "inline", "finish"}

\* How the reader moves
LEMMA ReaderSteps ==
    ASSUME TypeOK, OwnerInv, [Next]_vars
    PROVE  \/ rd' = rd
           \/ rd'.pc \notin Live
           \/ \E g \in regs : Register(g) /\ gen = g /\ rd.pc = "register" /\ rd'.pc = "idle"
           \/ ReadFrame
           \/ \E w \in writes : /\ UpsertOk(w) /\ Awaited(w) /\ ~stopping
                                /\ rd'.pc = "gate" /\ rd'.f = rd.f
           \/ Dispatch
           \/ \E st \in {"done", "failed"} :
                InlineEnds(st) /\ rd'.pc = "finish" /\ rd'.f = rd.f
           \/ \E n \in finishes, ok \in BOOLEAN :
                FinishCommits(n, ok) /\ n.by = "reader" /\ rd.pc = "finish" /\ rd'.pc = "idle"
<1> USE DEF Live
<1>1. ASSUME NEW g \in regs, Register(g)
      PROVE  rd' = rd \/ (gen = g /\ rd.pc = "register" /\ rd'.pc = "idle")
  BY <1>1, ReaderMoves DEF Register, TypeOK
<1>2. ASSUME NEW w \in writes, UpsertOk(w)
      PROVE  \/ rd' = rd \/ rd'.pc \notin Live
             \/ Awaited(w) /\ ~stopping /\ rd'.pc = "gate" /\ rd'.f = rd.f
  BY <1>2, ReaderMoves DEF UpsertOk, TypeOK
<1>3. ASSUME NEW st, InlineEnds(st) PROVE rd'.pc = "finish" /\ rd'.f = rd.f
  BY <1>3, ReaderMoves DEF InlineEnds, TypeOK
<1>4. ASSUME NEW n \in finishes, NEW ok \in BOOLEAN, FinishCommits(n, ok)
      PROVE  rd' = rd \/ (n.by = "reader" /\ rd.pc = "finish" /\ rd'.pc = "idle")
  BY <1>4 DEF FinishCommits, OwnerInv, Waits
<1>5. ASSUME NEW g \in regs, RegisterFails(g) PROVE rd'.pc = "over"
  BY <1>5, CloseType DEF RegisterFails, TypeOK
<1>6. ASSUME NEW w \in writes, UpsertRefused(w) PROVE rd' = rd \/ rd'.pc = "over"
  BY <1>6, CloseType DEF UpsertRefused, TypeOK
<1>7. ASSUME NEW g \in regs, RegisterCancelled(g) PROVE rd' = rd \/ rd'.pc = "over"
  BY <1>7, ReaderMoves DEF RegisterCancelled, TypeOK
<1>8. CASE Connect \/ HelloOk
  BY <1>8, ReaderMoves DEF Connect, HelloOk, TypeOK
<1>9. CASE ReadMark \/ GateTimesOut \/ Ack
  BY <1>9 DEF ReadMark, GateTimesOut, Ack
<1>10. CASE ReadEnds \/ GateAbandoned
  BY <1>10, ReaderMoves DEF ReadEnds, GateAbandoned, TypeOK
<1>11. CASE ReadGap
  BY <1>11, CloseType DEF ReadGap, TypeOK
<1>12. CASE Reader
  BY <1>2, <1>3, <1>6, <1>9, <1>10, <1>11, <1>12 DEF Reader
<1>13. CASE Handshake
  BY <1>1, <1>5, <1>7, <1>8, <1>13 DEF Handshake
<1>14. CASE Supervisor
  BY <1>14 DEF Supervisor, Flushed, Teardown, Away, AwayCloses, Resume, StopBegins,
               StopEnds, Crash, Reset, NoReader
<1>15. ASSUME NEW c \in Chats, Lane(c) PROVE rd' = rd
  BY <1>15 DEF Lane, LaneClaims, LaneSkips, LaneRetries, LaneEnds
<1>16. ASSUME NEW r \in Recoveries, Recovery(r) PROVE rd' = rd
  BY <1>16 DEF Recovery, Recover, RecoverFails, RecoverRow, GateOpens, RecoverSignal,
               RecoveredSignalEnds
<1>17. ASSUME NEW k, NEW p, Push(k, p) PROVE rd' = rd
  BY <1>17 DEF Push
<1>18. ASSUME NEW granted, SenderConnects(granted) PROVE rd' = rd
  BY <1>18 DEF SenderConnects
<1>19. CASE Drop \/ RetryWakes \/ StartRecoveryEnds \/ RetryEnds \/ SenderRecovers
            \/ UNCHANGED vars
  BY <1>19 DEF Drop, RetryWakes, StartRecoveryEnds, RetryEnds, SenderRecovers
<1> QED
  BY <1>4, <1>12, <1>13, <1>14, <1>15, <1>16, <1>17, <1>18, <1>19 DEF Next

\* No write, and no tracker, is of a newer connection than the newest registered
\* one; of that one there is a write only while the reader waits for it.
WriteInv ==
    /\ trk.seq <= seq /\ \A w \in writes : w.cs <= seq
    /\ None({"senders"}) /\ rd.pc \in Live =>
         /\ \A w \in writes : w.cs = seq => Awaited(w)
         /\ \A w, v \in writes : w.cs = seq /\ v.cs = seq => w = v

LEMMA WritesQuiet ==
    ASSUME TypeOK, WriteInv, [Next]_vars, writes' \subseteq writes, seq' = seq,
           trk'.seq \in {trk.seq, 0}, seq \in Nat,
           rd' = rd \/ rd'.pc \notin Live \/ rd.pc \in Live \ {"upsert"}
    PROVE  WriteInv'
<1>1. None({"senders"})' => None({"senders"})
  BY NoneBefore, Names
<1>2. trk'.seq <= seq' /\ \A w \in writes' : w.cs <= seq'
  BY DEF WriteInv
<1>3. ASSUME None({"senders"})', rd'.pc \in Live
      PROVE  /\ \A w \in writes' : w.cs = seq' => Awaited(w)'
             /\ \A w, v \in writes' : w.cs = seq' /\ v.cs = seq' => w = v
  <2>1. CASE rd' = rd
    BY <1>1, <1>3, <2>1 DEF WriteInv, Awaited
  <2>2. CASE rd.pc \in Live \ {"upsert"}
    <3>1. \A w \in writes : w.cs # seq
      BY <1>1, <1>3, <2>2 DEF WriteInv, Awaited
    <3> QED
      BY <3>1
  <2> QED
    BY <1>3, <2>1, <2>2
<1> QED
  BY <1>2, <1>3 DEF WriteInv

LEMMA WritesRead ==
    ASSUME TypeOK, WriteInv, ReadFrame, [Next]_vars
    PROVE  WriteInv'
<1> DEFINE f   == [key |-> NextEntry.key, gen |-> gen, dseq |-> trk.read + 1]
           new == [f |-> f, prov |-> NextEntry.prov, cs |-> trk.seq]
<1>1. /\ rd' = [pc |-> "upsert", f |-> f] /\ writes' = writes \cup {new}
      /\ rd.pc = "idle" /\ seq' = seq /\ used' = used
      /\ trk' = [trk EXCEPT !.read = @ + 1]
  BY DEF ReadFrame, HasNext
<1>2. trk'.seq = trk.seq
  BY <1>1 DEF TypeOK, Tracker
<1>3. new.f = f /\ new.cs = trk.seq /\ rd'.pc = "upsert" /\ rd'.f = f
  BY <1>1
<1> HIDE DEF f, new
<1>4. trk'.seq <= seq' /\ \A w \in writes' : w.cs <= seq'
  BY <1>1, <1>2, <1>3 DEF WriteInv
<1>5. ASSUME None({"senders"})'
      PROVE  /\ \A w \in writes' : w.cs = seq' => Awaited(w)'
             /\ \A w, v \in writes' : w.cs = seq' /\ v.cs = seq' => w = v
  <2>1. \A w \in writes : w.cs # seq
    BY <1>1, <1>5 DEF WriteInv, Awaited, Live, None
  <2> QED
    BY <1>1, <1>3, <2>1 DEF Awaited
<1> QED
  BY <1>4, <1>5 DEF WriteInv

LEMMA WritesStep ==
    ASSUME TypeOK, OwnerInv, WriterInv, WriteInv, [Next]_vars
    PROVE  WriteInv'
<1> DEFINE Quiet == /\ writes' \subseteq writes /\ seq' = seq /\ trk'.seq \in {trk.seq, 0}
                    /\ rd' = rd \/ rd'.pc \notin Live \/ rd.pc \in Live \ {"upsert"}
<1>1. seq \in Nat /\ trk \in Tracker
  BY DEF TypeOK
<1>2. ASSUME Quiet PROVE WriteInv'
  BY <1>1, <1>2, WritesQuiet
<1>3. ASSUME CloseFromReader PROVE trk'.seq = trk.seq /\ rd'.pc = "over"
  BY <1>1, <1>3, CloseType DEF CloseFromReader, Tracker, TypeOK
<1>4. ASSUME NEW g \in regs, Register(g) PROVE WriteInv'
  <2>1. /\ trk' = [trk EXCEPT !.seq = seq + 1] /\ rd' = [rd EXCEPT !.pc = "idle"]
        /\ seq' = seq + 1 /\ writes' = writes
    BY <1>4 DEF Register, StillCurrent, WriterInv
  <2>2. trk'.seq = seq + 1 /\ \A w \in writes : w \in Write
    BY <1>1, <2>1 DEF Tracker, TypeOK
  <2>3. \A w \in writes : w.cs <= seq /\ w.cs \in Nat
    BY <2>2 DEF WriteInv, Write
  <2> QED
    BY <1>1, <2>1, <2>2, <2>3 DEF WriteInv
<1>5. ASSUME NEW granted, SenderConnects(granted) PROVE WriteInv'
  <2>1. ~None({"senders"})' /\ UNCHANGED <<writes, trk>> /\ seq' \in {seq, seq + 1}
    BY <1>5, Spends, Names DEF SenderConnects, None
  <2>2. \A w \in writes : w \in Write
    BY DEF TypeOK
  <2>3. \A w \in writes : w.cs <= seq /\ w.cs \in Nat
    BY <2>2 DEF WriteInv, Write
  <2> QED
    BY <1>1, <2>1, <2>3 DEF WriteInv, Tracker
<1>6. ASSUME NEW w \in writes, UpsertOk(w) PROVE WriteInv'
  <2>1. writes' = writes \ {w} /\ seq' = seq /\ w.cs = seq /\ used' = used
    BY <1>6 DEF UpsertOk, Fenced
  <2>2. trk'.seq = trk.seq
    BY <1>1, <1>6, RecordKeeps DEF UpsertOk
  <2>3. CASE rd' = rd \/ rd'.pc \notin Live
    BY <1>2, <2>1, <2>2, <2>3
  <2>4. CASE ~(rd' = rd \/ rd'.pc \notin Live)
    <3>1. Awaited(w)
      BY <1>6, <2>4 DEF UpsertOk
    <3>2. None({"senders"}) => \A v \in writes : v.cs = seq => v = w
      BY <2>1, <3>1 DEF WriteInv, Awaited, Live
    <3> QED
      BY <2>1, <2>2, <3>2 DEF WriteInv, None
  <2> QED
    BY <2>3, <2>4
<1>7. ASSUME NEW w \in writes, UpsertRefused(w) PROVE Quiet
  BY <1>3, <1>7 DEF UpsertRefused, Live
<1>8. ASSUME ReadMark PROVE Quiet
  <2> DEFINE t == [trk EXCEPT !.read = @ + 1]
  <2>1. t \in Tracker /\ t.seq = trk.seq /\ Record(t, trk.read + 1)
    BY <1>1, <1>8, ReadType DEF ReadMark, Tracker
  <2>2. UNCHANGED <<writes, seq, rd>>
    BY <1>8 DEF ReadMark
  <2> HIDE DEF t
  <2> QED
    BY <2>1, <2>2, RecordKeeps
<1>9. ASSUME ReadGap \/ ReadEnds \/ GateTimesOut \/ GateAbandoned \/ Ack \/ Dispatch PROVE Quiet
  BY <1>3, <1>9, ReaderMoves DEF ReadGap, ReadEnds, GateTimesOut, GateAbandoned, Ack, Dispatch,
                                 Live, TypeOK
<1>10. ASSUME NEW st, InlineEnds(st) PROVE Quiet
  BY <1>10 DEF InlineEnds, Live
<1>11. CASE Reader
  BY <1>2, <1>6, <1>7, <1>8, <1>9, <1>10, <1>11, WritesRead DEF Reader
<1>12. ASSUME Connect \/ HelloOk PROVE Quiet
  BY <1>1, <1>12, ReaderMoves DEF Connect, HelloOk, NoTracker, Live, TypeOK
<1>13. ASSUME NEW g \in regs, RegisterCancelled(g) \/ RegisterFails(g) PROVE Quiet
  BY <1>3, <1>13, ReaderMoves DEF RegisterCancelled, RegisterFails, Live, TypeOK
<1>14. CASE Handshake
  BY <1>2, <1>4, <1>12, <1>13, <1>14 DEF Handshake
<1>15. ASSUME Supervisor PROVE Quiet
  BY <1>15, ConstantTypes DEF Supervisor, Flushed, Teardown, Away, AwayCloses, Resume, StopBegins,
               StopEnds, Crash, Reset, NoTracker, Live
<1>16. ASSUME NEW n \in finishes, NEW ok \in BOOLEAN, FinishCommits(n, ok) PROVE Quiet
  BY <1>16 DEF FinishCommits, OwnerInv, Waits, Live
<1>17. ASSUME NEW c \in Chats, Lane(c) PROVE Quiet
  BY <1>17 DEF Lane, LaneClaims, LaneSkips, LaneRetries, LaneEnds
<1>18. ASSUME NEW r \in Recoveries, Recovery(r) PROVE Quiet
  BY <1>18 DEF Recovery, Recover, RecoverFails, RecoverRow, GateOpens, RecoverSignal,
               RecoveredSignalEnds
<1>19. ASSUME NEW k, NEW p, Push(k, p) PROVE Quiet
  BY <1>19 DEF Push
<1>20. ASSUME Drop \/ RetryWakes \/ StartRecoveryEnds \/ RetryEnds \/ SenderRecovers
              \/ UNCHANGED vars
       PROVE  Quiet
  BY <1>20 DEF Drop, RetryWakes, StartRecoveryEnds, RetryEnds, SenderRecovers
<1> HIDE DEF Quiet
<1> QED
  BY <1>2, <1>5, <1>11, <1>14, <1>15, <1>16, <1>17, <1>18, <1>19, <1>20 DEF Next

-----------------------------------------------------------------------------
(* Who holds a pending receipt *)

\* A frame of the key waits in some lane.
Queued(k) == \E c \in Chats : \E i \in 1 .. Len(lanes[c].q) : lanes[c].q[i].key = k

LEMMA ToLaneQueues ==
    ASSUME TypeOK, NEW f \in Frame, f.key \in Messages, ToLane(f)
    PROVE  /\ \A k : Queued(k) => Queued(k)'
           /\ Queued(f.key)'
           /\ \A c \in Chats :
                lanes'[c].q = IF c = ChatOf[f.key] THEN Append(lanes[c].q, f) ELSE lanes[c].q
<1> DEFINE d == ChatOf[f.key]
           q == Append(lanes[d].q, f)
           t == [lanes[d] EXCEPT !.q = q]
<1>1. d \in Chats /\ lanes[d].q \in Seq(LaneFrame) /\ lanes[d] \in LaneTask
  BY ChatsAssumption DEF TypeOK, LaneTask
<1>2. /\ Len(q) = Len(lanes[d].q) + 1 /\ q[Len(lanes[d].q) + 1] = f
      /\ \A i \in 1 .. Len(lanes[d].q) : q[i] = lanes[d].q[i]
      /\ Len(lanes[d].q) \in Nat
  BY <1>1
<1>3. lanes' = [lanes EXCEPT ![d] = t]
  BY DEF ToLane
<1>4. t.q = q
  BY <1>1 DEF LaneTask
<1> HIDE DEF t, q, d
<1>5. \A c \in Chats : lanes'[c].q = IF c = d THEN q ELSE lanes[c].q
  BY <1>1, <1>3, <1>4 DEF TypeOK
<1>6. \E i \in 1 .. Len(lanes'[d].q) : lanes'[d].q[i].key = f.key
  <2>1. Len(lanes[d].q) + 1 \in 1 .. Len(q)
    BY <1>2
  <2>2. lanes'[d].q = q
    BY <1>1, <1>5
  <2> QED
    BY <1>2, <2>1, <2>2
<1>7. ASSUME NEW k, NEW c \in Chats, NEW i \in 1 .. Len(lanes[c].q), lanes[c].q[i].key = k
      PROVE  Queued(k)'
  <2>1. CASE c = d
    <3>1. i \in 1 .. Len(q) /\ q[i] = lanes[c].q[i] /\ lanes'[d].q = q
      BY <1>1, <1>2, <1>5, <2>1
    <3> QED
      BY <1>1, <1>7, <3>1 DEF Queued
  <2>2. CASE c # d
    BY <1>5, <1>7, <2>2 DEF Queued
  <2> QED
    BY <2>1, <2>2
<1> QED
  BY <1>1, <1>5, <1>6, <1>7 DEF Queued, d, q

\* A lane loses its first frame.
LEMMA TailQueues ==
    ASSUME TypeOK, NEW c \in Chats, lanes[c].q # <<>>, lanes'[c].q = Tail(lanes[c].q),
           \A d \in Chats : d # c => lanes'[d] = lanes[d]
    PROVE  \A k : Queued(k) => Queued(k)' \/ k = Head(lanes[c].q).key
<1>1. lanes[c].q \in Seq(LaneFrame)
  BY DEF TypeOK, LaneTask
<1>2. /\ Head(lanes[c].q) = lanes[c].q[1] /\ Len(lanes[c].q) \in Nat
      /\ Len(Tail(lanes[c].q)) = Len(lanes[c].q) - 1
      /\ \A i \in 1 .. Len(Tail(lanes[c].q)) : Tail(lanes[c].q)[i] = lanes[c].q[i + 1]
  BY <1>1
<1>3. ASSUME NEW k, NEW i \in 1 .. Len(lanes[c].q), lanes[c].q[i].key = k
      PROVE  Queued(k)' \/ k = Head(lanes[c].q).key
  <2>1. CASE i = 1
    BY <1>2, <1>3, <2>1
  <2>2. CASE i # 1
    <3>1. i - 1 \in 1 .. Len(Tail(lanes[c].q)) /\ (i - 1) + 1 = i
      BY <1>2, <2>2
    <3>2. Tail(lanes[c].q)[i - 1].key = k
      BY <1>2, <1>3, <3>1
    <3> QED
      BY <3>1, <3>2 DEF Queued
  <2> QED
    BY <2>1, <2>2
<1> QED
  BY <1>3 DEF Queued

LEMMA PopQueues ==
    ASSUME TypeOK, NEW c \in Chats, NEW pc, Waiting(c), Pop(c, pc)
    PROVE  \A k : Queued(k) => Queued(k)' \/ k = Head(lanes[c].q).key
<1>1. /\ lanes'[c].q = Tail(lanes[c].q) /\ lanes[c].q # <<>>
      /\ \A d \in Chats : d # c => lanes'[d] = lanes[d]
  BY DEF TypeOK, Pop, Waiting
<1> QED
  BY <1>1, TailQueues

\* A queued message stays queued until it is claimed or a retry is asked for.
LEMMA QueuedStep ==
    ASSUME TypeOK, [Next]_vars, ~Reset, NEW k, Queued(k)
    PROVE  Queued(k)' \/ k \in claimed' \/ \E c \in Chats : LaneRetries(c)
<1> DEFINE Goal == Queued(k)' \/ k \in claimed' \/ \E c \in Chats : LaneRetries(c)
           Same == \A d \in Chats : lanes'[d].q = lanes[d].q
<1>1. ASSUME Same PROVE Goal
  BY <1>1 DEF Queued
<1>2. ASSUME NEW f \in Frame, f.key \in Messages, ToLane(f) PROVE Goal
  BY <1>2, ToLaneQueues
<1>3. ASSUME NEW c \in Chats, Lane(c) PROVE Goal
  <2>1. CASE LaneClaims(c)
    BY <2>1, PopQueues DEF LaneClaims
  <2>2. CASE LaneSkips(c)
    BY <2>2, PopQueues DEF LaneSkips
  <2>3. ASSUME NEW st \in {"done", "failed"}, LaneEnds(c, st) PROVE Goal
    <3> DEFINE t == [lanes[c] EXCEPT !.pc = "finish"]
    <3>1. lanes' = [lanes EXCEPT ![c] = t]
      BY <2>3 DEF LaneEnds
    <3>2. t.q = lanes[c].q
      BY DEF TypeOK, LaneTask
    <3> HIDE DEF t
    <3>3. Same
      BY <3>1, <3>2 DEF TypeOK
    <3> HIDE DEF Same
    <3> QED
      BY <1>1, <3>3
  <2> QED
    BY <1>3, <2>1, <2>2, <2>3 DEF Lane
<1>4. ASSUME NEW r \in Recoveries, Recovery(r) PROVE Goal
  <2>1. CASE RecoverRow(r)
    <3>1. lanes' = lanes \/ \E f \in Frame : f.key \in Messages /\ ToLane(f)
      BY <2>1, RowBecomes
    <3> QED
      BY <1>1, <1>2, <3>1
  <2>2. CASE lanes' = lanes
    BY <1>1, <2>2
  <2> QED
    BY <1>4, <2>1, <2>2 DEF Recovery, Recover, RecoverFails, GateOpens, RecoverSignal,
                            RecoveredSignalEnds
<1>5. CASE Reader
  <2>1. lanes' = lanes \/ (rd.f \in Frame /\ rd.f.key \in Messages /\ ToLane(rd.f))
    BY <1>5 DEF Reader, ReadMark, ReadFrame, ReadGap, ReadEnds, UpsertOk, UpsertRefused,
                GateTimesOut, Dispatch, GateAbandoned, InlineEnds, Ack, TypeOK
  <2> QED
    BY <1>1, <1>2, <2>1
<1>6. ASSUME NEW n \in finishes, NEW ok \in BOOLEAN, FinishCommits(n, ok) PROVE Same
  <2>1. CASE n.by \in Chats
    <3> DEFINE t == [lanes[n.by] EXCEPT !.pc = "idle", !.f = NothingRead]
    <3>1. lanes' = [lanes EXCEPT ![n.by] = t]
      BY <1>6, <2>1 DEF FinishCommits
    <3>2. t.q = lanes[n.by].q
      BY <2>1 DEF TypeOK, LaneTask
    <3> HIDE DEF t
    <3> QED
      BY <2>1, <3>1, <3>2 DEF TypeOK
  <2>2. CASE n.by \notin Chats
    BY <1>6, <2>2 DEF FinishCommits
  <2> QED
    BY <2>1, <2>2
<1>7. ASSUME Supervisor PROVE Same
  BY <1>7 DEF Supervisor, Flushed, Teardown, Away, AwayCloses, Resume, StopBegins, StopEnds,
              Crash
<1>8. ASSUME Handshake PROVE Same
  BY <1>8 DEF Handshake, Connect, HelloOk, Register, RegisterCancelled, RegisterFails
<1>9. ASSUME NEW j, NEW p, Push(j, p) PROVE Same
  BY <1>9 DEF Push
<1>10. ASSUME NEW granted, SenderConnects(granted) PROVE Same
  BY <1>10 DEF SenderConnects
<1>11. ASSUME Drop \/ RetryWakes \/ StartRecoveryEnds \/ RetryEnds \/ SenderRecovers
              \/ UNCHANGED vars
       PROVE  Same
  BY <1>11 DEF Drop, RetryWakes, StartRecoveryEnds, RetryEnds, SenderRecovers
<1> HIDE DEF Same, Goal
<1> QED
  BY <1>1, <1>3, <1>4, <1>5, <1>6, <1>7, <1>8, <1>9, <1>10, <1>11 DEF Next, Goal

\* While the connection is up a key in flight is claimed, seen or queued.
LEMMA InFlightOwned ==
    ASSUME TypeOK, SeenInv, ClaimInv, InHandInv, state = "READY", NEW k \in InFlight
    PROVE  k \in claimed \cup seen \/ Queued(k)
<1>1. CASE rd.pc \in {"inline", "finish"} /\ k = rd.f.key
  BY <1>1 DEF SeenInv, InHandInv
<1>2. CASE \E c \in Chats : k \in KeysIn(lanes[c].q)
  BY <1>2 DEF KeysIn, Queued
<1>3. CASE \E c \in Chats : lanes[c].pc # "idle" /\ k = lanes[c].f.key
  BY <1>3 DEF ClaimInv
<1>4. CASE \E r \in Recoveries : rec[r].pc \in {"inline", "finish"} /\ k = rec[r].f.key
  BY <1>4 DEF SeenInv, InHandInv
<1> QED
  BY <1>1, <1>2, <1>3, <1>4 DEF InFlight

\* A row becomes pending by a write.
LEMMA PendingStep ==
    ASSUME TypeOK, DurabilityInv, [Next]_vars, NEW k \in Keys, rows'[k].st = "pending"
    PROVE  rows[k].st = "pending" \/ \E w \in writes : UpsertOk(w) /\ w.f.key = k
<1>1. ASSUME NEW w \in writes, UpsertOk(w), w.f.key # k PROVE rows'[k] = rows[k]
  BY <1>1 DEF UpsertOk, TypeOK
<1>2. ASSUME NEW n \in finishes, NEW ok \in BOOLEAN, FinishCommits(n, ok)
      PROVE  rows[k].st = "pending"
  <2>1. n.st # "pending" /\ rows[k] \in Row
    BY <1>2 DEF TypeOK, Finish
  <2>2. rows'[k] = rows[k] \/ rows'[k] = FinishRow(rows[k], n)
    BY <1>2 DEF FinishCommits, TypeOK
  <2> QED
    BY <2>1, <2>2 DEF FinishRow, Row
<1>3. ASSUME NEW r \in Recoveries, NEW gone \in SUBSET Keys, Recover(r, gone)
      PROVE  rows[k].st = "pending"
  BY <1>3 DEF Recover, NoRow
<1> QED
  BY <1>1, <1>2, <1>3, OtherStepsKeepRows

\* A recovery task still has the row of the key to handle, or will read the rows.
Holds(t, k) ==
    /\ t.pc # "off"
    /\ \/ t.again \/ ~t.ok
       \/ \E u \in t.todo : u.f.key = k
       \/ \E i \in 1 .. Len(t.later) : t.later[i].key = k

Owned(k) ==
    \/ k \in claimed \cup seen \/ Queued(k)
    \/ rd.pc \in {"upsert", "gate"} /\ rd.f.key = k
    \/ \E r \in Recoveries : Holds(rec[r], k)

\* While the connection is up, the frame of each pending row was handled or is
\* in somebody's hands.
AccountInv ==
    None({"senders"}) /\ state = "READY" /\ rd.pc \in Live =>
      \A k \in Keys : rows[k].st = "pending" => Owned(k)

\* What the reader holds
LEMMA ReaderAccount ==
    ASSUME TypeOK, OwnerInv, [Next]_vars, state = "READY", rd'.pc \in Live, NEW k,
           rd.pc \in {"upsert", "gate"}, rd.f.key = k,
           seen \subseteq seen'
    PROVE  \/ rd'.pc \in {"upsert", "gate"} /\ rd'.f.key = k
           \/ k \in seen' \/ Queued(k)'
<1>1. CASE rd' = rd
  BY <1>1
<1>2. CASE Dispatch
  <2>1. CASE rd.f.key \in Messages /\ ToLane(rd.f)
    BY <1>2, <2>1, ToLaneQueues DEF TypeOK, Dispatch
  <2>2. CASE seen' = seen \cup {rd.f.key}
    BY <2>2
  <2>3. CASE ~(rd.f.key \in Messages \/ NewSignal(rd.f.key))
    <3>1. rd.f \in Frame
      BY <1>2 DEF TypeOK, Dispatch
    <3> QED
      BY <2>3, <3>1 DEF NewSignal, Frame, Keys
  <2> QED
    BY <1>2, <2>1, <2>2, <2>3 DEF Dispatch
<1>3. CASE \E w \in writes : rd'.pc = "gate" /\ rd'.f = rd.f
  BY <1>3
<1>4. CASE ReadFrame \/ (\E st \in {"done", "failed"} : InlineEnds(st))
  BY <1>4 DEF ReadFrame, HasNext, InlineEnds
<1> QED
  BY <1>1, <1>2, <1>3, <1>4, ReaderSteps

\* A retry that was asked for will read every row.
LEMMA AskedHolds ==
    ASSUME NEW t, Asked(t), ~stopping, link # "none", NEW k
    PROVE  Holds(rec'["retry"], k)
BY DEF Asked, Holds, Fresh

LEMMA FreshHolds ==
    ASSUME NEW t, NEW pc \in {"sleep", "read"}, Fresh(t, pc), NEW k
    PROVE  Holds(t, k)
BY DEF Holds, Fresh

LEMMA AppendHolds ==
    ASSUME NEW S, NEW q \in Seq(S), NEW f, NEW k
    PROVE  /\ (\E i \in 1 .. Len(q) : q[i].key = k)
                => \E i \in 1 .. Len(Append(q, f)) : Append(q, f)[i].key = k
           /\ f.key = k => \E i \in 1 .. Len(Append(q, f)) : Append(q, f)[i].key = k
<1> DEFINE p == Append(q, f)
<1>1. /\ Len(p) = Len(q) + 1 /\ p[Len(q) + 1] = f /\ Len(q) \in Nat
      /\ \A i \in 1 .. Len(q) : p[i] = q[i]
  OBVIOUS
<1>2. Len(q) + 1 \in 1 .. Len(p) /\ 1 .. Len(q) \subseteq 1 .. Len(p)
  BY <1>1
<1> HIDE DEF p
<1> QED
  BY <1>1, <1>2 DEF p

LEMMA TailHolds ==
    ASSUME NEW S, NEW q \in Seq(S), q # <<>>, NEW k,
           \E i \in 1 .. Len(q) : q[i].key = k
    PROVE  k = Head(q).key \/ \E i \in 1 .. Len(Tail(q)) : Tail(q)[i].key = k
<1>1. /\ Len(Tail(q)) = Len(q) - 1 /\ Head(q) = q[1] /\ Len(q) \in Nat
      /\ \A i \in 1 .. Len(Tail(q)) : Tail(q)[i] = q[i + 1]
  OBVIOUS
<1>2. PICK i \in 1 .. Len(q) : q[i].key = k
  OBVIOUS
<1>3. CASE i = 1
  BY <1>1, <1>2, <1>3
<1>4. CASE i # 1
  <2>1. i - 1 \in 1 .. Len(Tail(q)) /\ (i - 1) + 1 = i
    BY <1>1, <1>4
  <2>2. Tail(q)[i - 1].key = k
    BY <1>1, <1>2, <2>1
  <2> QED
    BY <2>1, <2>2
<1> QED
  BY <1>3, <1>4

\* What one recovery holds when it moves
LEMMA RecoveryAccount ==
    ASSUME TypeOK, DurabilityInv, HandlingInv, ClaimInv, InHandInv, FreshInv, [Next]_vars,
           state = "READY", ~stopping, seen \subseteq seen',
           NEW k \in Keys, rows[k].st = "pending",
           NEW r \in Recoveries, Recovery(r), Holds(rec[r], k)
    PROVE  \/ Holds(rec'[r], k) \/ k \in claimed' \cup seen' \/ Queued(k)'
           \/ \E c \in Chats : LaneRetries(c)
<1>1. rec[r] \in RecoveryTask /\ rec[r].later \in Seq(Frame)
  BY DEF TypeOK, RecoveryTask
<1> DEFINE Later(q) == \E i \in 1 .. Len(q) : q[i].key = k
           Todo(S)  == \E u \in S : u.f.key = k
<1>2. ASSUME NEW pc, pc # "off", NEW todo, NEW later, Becomes(r, pc, todo, later, rec[r].ok),
             Todo(rec[r].todo) => Todo(todo), Later(rec[r].later) => Later(later)
      PROVE  Holds(rec'[r], k)
  <2>1. /\ rec'[r].pc = pc /\ rec'[r].todo = todo /\ rec'[r].later = later
        /\ rec'[r].ok = rec[r].ok /\ rec'[r].again = rec[r].again
    BY <1>2 DEF Becomes, Moves
  <2> QED
    BY <1>2, <2>1 DEF Holds
<1>3. ASSUME NEW pc, pc # "off", NEW todo, NEW later, NEW ok, Becomes(r, pc, todo, later, ok),
             ~ok \/ Todo(todo) \/ Later(later)
      PROVE  Holds(rec'[r], k)
  <2>1. /\ rec'[r].pc = pc /\ rec'[r].todo = todo /\ rec'[r].later = later
        /\ rec'[r].ok = ok
    BY <1>3 DEF Becomes, Moves
  <2> QED
    BY <1>3, <2>1 DEF Holds
<1>4. ASSUME NEW gone, Recover(r, gone) PROVE Holds(rec'[r], k)
  <2>1. Becomes(r, "rows", PendingRows, rec[r].later, TRUE)
    BY <1>4, RecoverBecomes
  <2>2. Todo(PendingRows)
    <3> DEFINE f == [key |-> k, gen |-> rows[k].gen, dseq |-> rows[k].dseq]
               u == [at |-> rows[k].at, f |-> f]
    <3>1. u \in PendingRows
      BY DEF PendingRows
    <3>2. u.f = f /\ f.key = k
      OBVIOUS
    <3> HIDE DEF u, f
    <3> QED
      BY <3>1, <3>2
  <2> HIDE DEF Todo, Later
  <2> QED
    BY <1>3, <2>1, <2>2
<1>5. CASE RecoverFails(r)
  <2>1. ~rec[r].ok
    BY <1>5 DEF RecoverFails, FreshInv
  <2>2. Becomes(r, "later", rec[r].todo, rec[r].later, rec[r].ok)
    BY <1>5, RecoverBecomes
  <2> HIDE DEF Todo, Later
  <2> QED
    BY <1>3, <2>1, <2>2
<1>6. CASE GateOpens(r)
  <2>1. rec[r].todo = {}
    BY <1>6 DEF GateOpens
  <2>2. Becomes(r, "later", {}, rec[r].later, rec[r].ok)
    BY <1>6, RecoverBecomes
  <2>3. Todo(rec[r].todo) => Todo({})
    BY <2>1
  <2> HIDE DEF Todo, Later
  <2> QED
    BY <1>2, <2>2, <2>3
<1>7. CASE RecoverRow(r)
  <2>1. PICK u \in rec[r].todo :
          /\ u.f \in Frame
          /\ \/ /\ u.f.key \in InFlight /\ lanes' = lanes /\ finishes' = finishes
                /\ Becomes(r, "rows", rec[r].todo \ {u}, rec[r].later, rec[r].ok)
             \/ /\ u.f.key \in Signals /\ lanes' = lanes /\ finishes' = finishes
                /\ Becomes(r, "rows", rec[r].todo \ {u}, Append(rec[r].later, u.f), rec[r].ok)
             \/ /\ u.f.key \in Messages
                /\ ToLane(u.f) /\ finishes' = finishes
                /\ Becomes(r, "rows", rec[r].todo \ {u}, rec[r].later, rec[r].ok)
    BY <1>7, RowBecomes
  <2>2. u.f.key # k /\ Todo(rec[r].todo) => Todo(rec[r].todo \ {u})
    OBVIOUS
  <2>3. /\ Later(rec[r].later) => Later(Append(rec[r].later, u.f))
        /\ u.f.key = k => Later(Append(rec[r].later, u.f))
    BY <1>1, AppendHolds
  <2> HIDE DEF Todo, Later
  <2>4. CASE u.f.key # k
    BY <1>2, <2>1, <2>2, <2>3, <2>4
  <2>5. CASE u.f.key = k /\ u.f.key \in Signals
             /\ Becomes(r, "rows", rec[r].todo \ {u}, Append(rec[r].later, u.f), rec[r].ok)
    BY <1>3, <2>3, <2>5
  <2>6. CASE u.f.key = k /\ u.f.key \in Messages /\ ToLane(u.f)
    BY <2>1, <2>6, ToLaneQueues
  <2>7. CASE u.f.key = k /\ u.f.key \in InFlight
    <3>1. k \in claimed \cup seen \/ Queued(k)
      BY <2>7, InFlightOwned DEF HandlingInv
    <3>2. ~Reset
      BY <1>7, <2>1 DEF Reset, RecoverRow
    <3> QED
      BY <3>1, <3>2, ClaimedGrows, QueuedStep
  <2> QED
    BY <2>1, <2>4, <2>5, <2>6, <2>7
<1>8. CASE RecoverSignal(r)
  <2> DEFINE h == Head(rec[r].later).key
             rest == Tail(rec[r].later)
  <2>1. rec[r].later # <<>>
    BY <1>8, SignalBecomes
  <2>2. h \in Signals
    <3>1. 1 \in 1 .. Len(rec[r].later) /\ Head(rec[r].later) = rec[r].later[1]
      BY <1>1, <2>1
    <3> QED
      BY <3>1 DEF HandlingInv, DeferredSignals
  <2>3. h \in seen'
    BY <1>8, <2>2, SignalBecomes DEF NewSignal
  <2>4. \E pc \in {"inline", "finish"} : Becomes(r, pc, rec[r].todo, rest, rec[r].ok)
    BY <1>8, SignalBecomes
  <2>5. Later(rec[r].later) => k = h \/ Later(rest)
    BY <1>1, <2>1, TailHolds
  <2> HIDE DEF Todo, Later, rest, h
  <2>6. CASE k = h
    BY <2>3, <2>6
  <2>7. CASE k # h
    BY <1>2, <2>4, <2>5, <2>7
  <2> QED
    BY <2>6, <2>7
<1>9. ASSUME NEW st, RecoveredSignalEnds(r, st) PROVE Holds(rec'[r], k)
  <2>1. Becomes(r, "finish", rec[r].todo, rec[r].later, rec[r].ok)
    BY <1>9, RecoverBecomes
  <2> HIDE DEF Todo, Later
  <2> QED
    BY <1>2, <2>1
<1> HIDE DEF Todo, Later
<1> QED
  BY <1>4, <1>5, <1>6, <1>7, <1>8, <1>9 DEF Recovery

LEMMA AccountStep ==
    ASSUME TypeOK, DurabilityInv, HandlingInv, ClaimInv, ReadyInv, FreshInv, InHandInv, WriteInv,
           AccountInv, [Next]_vars
    PROVE  AccountInv'
<1> SUFFICES ASSUME None({"senders"})', state' = "READY", rd'.pc \in Live,
                    NEW k \in Keys, rows'[k].st = "pending"
             PROVE  Owned(k)'
  BY DEF AccountInv
<1>1. None({"senders"})
  BY NoneBefore, Names
<1> DEFINE Goal == \/ k \in claimed' \cup seen' \/ Queued(k)'
                   \/ rd'.pc \in {"upsert", "gate"} /\ rd'.f.key = k
                   \/ \E r \in Recoveries : Holds(rec'[r], k)
<1>2. /\ k \in claimed' \cup seen' => Goal
      /\ Queued(k)' => Goal
      /\ rd'.pc \in {"upsert", "gate"} /\ rd'.f.key = k => Goal
      /\ \A r \in Recoveries : Holds(rec'[r], k) => Goal
  OBVIOUS
<1> HIDE DEF Goal
<1>3. ASSUME NEW g \in regs, Register(g), rd.pc = "register", gen = g PROVE Goal
  <2> DEFINE t == [NoRecovery EXCEPT !.pc = "read"]
  <2>1. rec' = [rec EXCEPT !["start"] = t]
    BY <1>3 DEF Register
  <2>2. Fresh(t, "read")
    BY DEF Fresh, NoRecovery
  <2> HIDE DEF t
  <2>3. rec'["start"] = t
    BY <2>1, Names DEF TypeOK
  <2>4. Holds(rec'["start"], k)
    BY <2>2, <2>3, FreshHolds
  <2> QED
    BY <1>2, <2>4, Names
<1>4. ASSUME state = "READY", seen \subseteq seen', ~\E g \in regs : Register(g) PROVE Goal
  <2>1. ~stopping /\ link # "none"
    BY <1>4 DEF ReadyInv
  <2>2. rd.pc \in Live
    <3>1. \/ rd' = rd \/ rd'.pc \notin Live \/ ReadFrame
          \/ (\E w \in writes : Awaited(w)) \/ Dispatch
          \/ (\E st \in {"done", "failed"} : InlineEnds(st)) \/ rd.pc = "finish"
      BY <1>4, ReaderSteps DEF HandlingInv
    <3> QED
      BY <3>1 DEF ReadFrame, HasNext, Awaited, Dispatch, InlineEnds, Live
  <2>3. ASSUME NEW c \in Chats, LaneRetries(c) PROVE Goal
    <3>1. Asked(rec["retry"])
      BY <2>3, ScheduleBecomes DEF LaneRetries, TypeOK
    <3> QED
      BY <1>2, <2>1, <3>1, AskedHolds, Names
  <2>4. ASSUME NEW w \in writes, UpsertOk(w), w.f.key = k PROVE Goal
    <3>1. w.cs = seq /\ Awaited(w)
      BY <1>1, <2>2, <2>4 DEF UpsertOk, Fenced, WriteInv
    <3>2. rd' = [rd EXCEPT !.pc = "gate"]
      BY <2>1, <2>4, <3>1 DEF UpsertOk
    <3>3. rd'.pc = "gate" /\ rd'.f.key = k
      BY <2>4, <3>1, <3>2, ReaderMoves DEF TypeOK, Awaited
    <3> QED
      BY <1>2, <3>3
  <2>5. ASSUME rows[k].st = "pending" PROVE Goal
    <3>1. Owned(k)
      BY <1>1, <1>4, <2>2, <2>5 DEF AccountInv
    <3>2. CASE k \in claimed \cup seen
      BY <1>2, <1>4, <3>2, ClaimedGrows
    <3>3. CASE Queued(k)
      <4>1. ~Reset
        BY DEF Reset
      <4>2. Queued(k)' \/ k \in claimed' \/ \E c \in Chats : LaneRetries(c)
        BY <3>3, <4>1, QueuedStep
      <4> QED
        BY <1>2, <2>3, <4>2
    <3>4. CASE rd.pc \in {"upsert", "gate"} /\ rd.f.key = k
      <4>1. \/ rd'.pc \in {"upsert", "gate"} /\ rd'.f.key = k
            \/ k \in seen' \/ Queued(k)'
        BY <1>4, <3>4, ReaderAccount DEF HandlingInv
      <4> QED
        BY <1>2, <4>1
    <3>5. ASSUME NEW r \in Recoveries, Holds(rec[r], k) PROVE Goal
      <4>1. CASE rec'[r] = rec[r]
        BY <1>2, <3>5, <4>1
      <4>2. CASE Recovery(r)
        <5>1. \/ Holds(rec'[r], k) \/ k \in claimed' \cup seen' \/ Queued(k)'
              \/ \E c \in Chats : LaneRetries(c)
          BY <1>4, <2>1, <2>5, <3>5, <4>2, RecoveryAccount
        <5> QED
          BY <1>2, <2>3, <5>1
      <4>3. ASSUME NEW s \in Recoveries, Recovery(s), s # r PROVE rec'[r] = rec[r]
        <5>1. CASE \E pc : Moves(s, pc)
          BY <4>3, <5>1 DEF Moves
        <5> QED
          BY <4>3, <5>1, RecoverMoves, RowMoves, SignalMoves DEF Recovery
      <4>4. CASE RetryWakes
        <5>1. Fresh(rec'["retry"], "read")
          BY <4>4, RetryBecomes
        <5> QED
          BY <1>2, <5>1, FreshHolds, Names
      <4>5. CASE RetryEnds
        <5>1. /\ rec'["start"] = rec["start"]
              /\ \/ Fresh(rec'["retry"], "sleep")
                 \/ rec["retry"].ok /\ ~rec["retry"].again
          BY <2>1, <4>5, RetryBecomes
        <5>2. CASE Fresh(rec'["retry"], "sleep")
          BY <1>2, <5>2, FreshHolds, Names
        <5>3. CASE r = "retry" /\ rec["retry"].ok /\ ~rec["retry"].again
          <6>1. rec["retry"].later = <<>> /\ rec["retry"].todo = {}
            BY <1>4, <2>1, <4>5, Names DEF RetryEnds, InHandInv
          <6> QED
            BY <3>5, <5>3, <6>1 DEF Holds
        <5> QED
          BY <4>1, <5>1, <5>2, <5>3, Names
      <4>6. CASE StartRecoveryEnds
        <5>1. IF rec["start"].ok THEN rec'["retry"] = rec["retry"] ELSE Asked(rec["retry"])
          BY <4>6, RetryBecomes
        <5>2. CASE ~rec["start"].ok
          BY <1>2, <2>1, <5>1, <5>2, AskedHolds, Names
        <5>3. CASE r = "start" /\ rec["start"].ok
          <6>1. rec["start"].later = <<>> /\ rec["start"].todo = {} /\ ~rec["start"].again
            BY <1>4, <2>1, <4>6, Names DEF StartRecoveryEnds, InHandInv, FreshInv
          <6> QED
            BY <3>5, <5>3, <6>1 DEF Holds
        <5> QED
          BY <4>1, <5>1, <5>2, <5>3, Names
      <4>7. ASSUME NEW n \in finishes, n.by \in Recoveries,
                   Becomes(n.by, IF n.f.key \in Messages THEN "rows" ELSE "later",
                           rec[n.by].todo, rec[n.by].later, rec[n.by].ok)
            PROVE  Goal
        <5>1. CASE r # n.by
          BY <4>1, <4>7, <5>1 DEF Becomes, Moves
        <5>2. CASE r = n.by
          <6>1. /\ rec'[r].pc # "off" /\ rec'[r].todo = rec[r].todo
                /\ rec'[r].later = rec[r].later /\ rec'[r].ok = rec[r].ok
                /\ rec'[r].again = rec[r].again
            BY <4>7, <5>2 DEF Becomes, Moves
          <6>2. Holds(rec'[r], k)
            BY <3>5, <6>1 DEF Holds
          <6> QED
            BY <1>2, <6>2
        <5> QED
          BY <5>1, <5>2
      <4> QED
        BY <1>4, <2>3, <4>1, <4>2, <4>3, <4>4, <4>5, <4>6, <4>7, RecoverySteps DEF Silenced
    <3> QED
      BY <3>1, <3>2, <3>3, <3>4, <3>5 DEF Owned
  <2> QED
    BY <2>4, <2>5, PendingStep
<1>5. Goal
  BY <1>3, <1>4, StaysReady DEF HandlingInv
<1> QED
  BY <1>5 DEF Goal, Owned

\* The invariants of the connection that is up
UpInv == ReadyInv /\ FreshInv /\ InHandInv /\ WriteInv /\ AccountInv

LEMMA UpInit == Init => UpInv
<1> SUFFICES ASSUME Init PROVE UpInv
  OBVIOUS
<1>1. ReadyInv /\ InHandInv /\ AccountInv
  BY DEF Init, ReadyInv, InHandInv, AccountInv, NoReader
<1>2. FreshInv
  BY Names DEF Init, FreshInv, NoRecovery
<1>3. WriteInv
  BY DEF Init, WriteInv, NoTracker
<1> QED
  BY <1>1, <1>2, <1>3 DEF UpInv

LEMMA UpInductive ==
    Spec => [](TypeOK /\ DurabilityInv /\ HandlingInv /\ ClaimInv /\ DoneInv /\ UpInv)
<1>1. TypeOK /\ DurabilityInv /\ HandlingInv /\ ClaimInv /\ UpInv /\ [Next]_vars => UpInv'
  BY ReadyStep, FreshStep, InHandStep, WritesStep, AccountStep DEF UpInv, HandlingInv
<1> QED
  BY <1>1, UpInit, ClaimInductive, PTL DEF Spec

\* While the connection is up, a pending receipt that was not handled has an
\* owner (connection.py, the receipts in flight, the recovery and the retry).
LEMMA OwnersStay ==
    ASSUME TypeOK, HandlingInv, ClaimInv, UpInv, None({"senders"})
    PROVE  PendingHasOwner
<1> SUFFICES ASSUME main = "watch", state = "READY", rd.pc # "over",
                    NEW k \in Keys, rows[k].st = "pending"
             PROVE  \/ k \in hist.handled \cup InFlight \cup seen
                    \/ rd.pc \in {"upsert", "gate"} /\ rd.f.key = k
                    \/ rec["retry"].pc # "off"
  BY DEF PendingHasOwner
<1>1. rd.pc \in Live /\ rec["start"].pc = "off"
  BY DEF HandlingInv, PlaceInv, UpInv, ReadyInv, TypeOK, ReaderTask, Live
<1>2. Owned(k)
  BY <1>1 DEF UpInv, AccountInv
<1>3. Queued(k) => k \in InFlight
  BY DEF Queued, InFlight, KeysIn
<1>4. \A r \in Recoveries : Holds(rec[r], k) => rec["retry"].pc # "off"
  BY <1>1, Names DEF Holds
<1> QED
  BY <1>2, <1>3, <1>4 DEF Owned, ClaimInv

-----------------------------------------------------------------------------
(* The order of sending *)

\* The server first sent n before it first sent m, of the same conversation.
Before(n, m) ==
    /\ n \in Messages /\ m \in Messages /\ n # m /\ ChatOf[n] = ChatOf[m]
    /\ \E a, b \in 1 .. Len(hist.sent) : a < b /\ hist.sent[a] = n /\ hist.sent[b] = m

LEMMA BeforeSent ==
    ASSUME NEW n, NEW m, Before(n, m)
    PROVE  n \in KeysSent /\ m \in KeysSent
BY DEF Before, KeysSent

\* A frame is sent for the first time when it is pushed for the first time.
LEMMA SentStep ==
    ASSUME TypeOK, [Next]_vars
    PROVE  \/ hist'.sent = hist.sent
           \/ \E k \in Keys, p \in BOOLEAN :
                Push(k, p) /\ k \notin KeysSent /\ hist'.sent = Append(hist.sent, k)
<1> USE DEF TypeOK, History
<1>1. ASSUME NEW k, NEW p, Push(k, p)
      PROVE  \/ hist'.sent = hist.sent
             \/ k \notin KeysSent /\ k # Mark /\ hist'.sent = Append(hist.sent, k)
  BY <1>1 DEF Push
<1>2. CASE Drop \/ Handshake
  BY <1>2 DEF Drop, Handshake, Connect, HelloOk, Register, RegisterCancelled, RegisterFails
<1>3. CASE Reader
  BY <1>3 DEF Reader, ReadMark, ReadFrame, ReadGap, ReadEnds, UpsertOk, UpsertRefused,
              GateTimesOut, Dispatch, GateAbandoned, InlineEnds, Ack
<1>4. ASSUME NEW c \in Chats, Lane(c) PROVE hist'.sent = hist.sent
  BY <1>4 DEF Lane, LaneClaims, LaneSkips, LaneRetries, LaneEnds
<1>5. ASSUME NEW r \in Recoveries, Recovery(r) PROVE hist'.sent = hist.sent
  BY <1>5 DEF Recovery, Recover, RecoverFails, RecoverRow, GateOpens, RecoverSignal,
              RecoveredSignalEnds
<1>6. CASE RetryWakes \/ StartRecoveryEnds \/ RetryEnds
  BY <1>6 DEF RetryWakes, StartRecoveryEnds, RetryEnds
<1>7. CASE Supervisor
  BY <1>7 DEF Supervisor, Flushed, Teardown, Away, AwayCloses, Resume, StopBegins,
              StopEnds, Crash
<1>8. ASSUME NEW granted, SenderConnects(granted) PROVE hist'.sent = hist.sent
  BY <1>8 DEF SenderConnects
<1>9. ASSUME NEW n, NEW ok, FinishCommits(n, ok) PROVE hist'.sent = hist.sent
  BY <1>9 DEF FinishCommits
<1>10. CASE SenderRecovers \/ UNCHANGED vars
  BY <1>10 DEF SenderRecovers
<1> QED
  BY <1>1, <1>2, <1>3, <1>4, <1>5, <1>6, <1>7, <1>8, <1>9, <1>10 DEF Next

\* What was sent before a frame does not change once the frame was sent.
LEMMA BeforeKept ==
    ASSUME TypeOK, [Next]_vars
    PROVE  /\ KeysSent \subseteq KeysSent'
           /\ \A n, m : Before(n, m)' => n \in KeysSent
           /\ \A n, m : m \in KeysSent /\ Before(n, m)' => Before(n, m)
<1> DEFINE s == hist.sent
           t == hist'.sent
<1>1. s \in Seq(Keys) /\ Len(s) \in Nat
  BY DEF TypeOK, History
<1>2. CASE t = s
  BY <1>2 DEF KeysSent, Before
<1>3. ASSUME NEW k \in Keys, k \notin KeysSent, t = Append(s, k)
      PROVE  /\ KeysSent \subseteq KeysSent'
             /\ \A n, m : Before(n, m)' => n \in KeysSent
             /\ \A n, m : m \in KeysSent /\ Before(n, m)' => Before(n, m)
  <2>1. /\ Len(t) = Len(s) + 1 /\ t[Len(s) + 1] = k
        /\ \A i \in 1 .. Len(s) : t[i] = s[i]
    BY <1>1, <1>3
  <2>2. /\ \A i \in 1 .. Len(t) : i \in 1 .. Len(s) \/ i = Len(s) + 1
        /\ 1 .. Len(s) \subseteq 1 .. Len(t)
    BY <1>1, <2>1
  <2>3. KeysSent = {s[i] : i \in 1 .. Len(s)} /\ KeysSent' = {t[i] : i \in 1 .. Len(t)}
    BY DEF KeysSent
  <2>4. KeysSent \subseteq KeysSent'
    BY <2>1, <2>2, <2>3
  <2>5. ASSUME NEW n, NEW m, Before(n, m)'
        PROVE  \E a, b \in 1 .. Len(t) : a < b /\ t[a] = n /\ t[b] = m
    BY <2>5 DEF Before
  <2>6. ASSUME NEW n, NEW m, Before(n, m)' PROVE n \in KeysSent
    <3>1. PICK a, b \in 1 .. Len(t) : a < b /\ t[a] = n /\ t[b] = m
      BY <2>5, <2>6
    <3>2. a \in 1 .. Len(s)
      BY <1>1, <2>1, <3>1
    <3>3. s[a] = n
      BY <2>1, <3>1, <3>2
    <3> QED
      BY <2>3, <3>2, <3>3
  <2>7. ASSUME NEW n, NEW m, m \in KeysSent, Before(n, m)' PROVE Before(n, m)
    <3>1. PICK a, b \in 1 .. Len(t) : a < b /\ t[a] = n /\ t[b] = m
      BY <2>5, <2>7
    <3>2. b # Len(s) + 1
      BY <1>3, <2>1, <2>7, <3>1
    <3>3. a \in 1 .. Len(s) /\ b \in 1 .. Len(s)
      BY <1>1, <2>1, <3>1, <3>2
    <3>4. s[a] = n /\ s[b] = m
      BY <2>1, <3>1, <3>3
    <3>5. n \in Messages /\ m \in Messages /\ n # m /\ ChatOf[n] = ChatOf[m]
      BY <2>7 DEF Before
    <3> QED
      BY <3>1, <3>3, <3>4, <3>5 DEF Before
  <2> QED
    BY <2>4, <2>6, <2>7
<1> QED
  BY <1>2, <1>3, SentStep

LEMMA PushedInbox ==
    ASSUME TypeOK, NEW k \in Keys \cup {Mark}, NEW p \in BOOLEAN, Push(k, p)
    PROVE  /\ Len(inbox') = Len(inbox) + 1 /\ inbox'[Len(inbox) + 1].key = k
           /\ Len(inbox) \in Nat
           /\ \A i \in 1 .. Len(inbox) : inbox'[i] = inbox[i]
           /\ Held' = IF k = Mark THEN Held ELSE Held \cup {k}
<1> DEFINE e == [key |-> k, prov |-> p]
<1>1. inbox \in Seq(Entry) /\ inbox' = Append(inbox, e) /\ e.key = k
  BY DEF TypeOK, Push
<1> HIDE DEF e
<1>2. /\ Len(inbox') = Len(inbox) + 1 /\ inbox'[Len(inbox) + 1] = e /\ Len(inbox) \in Nat
      /\ \A i \in 1 .. Len(inbox) : inbox'[i] = inbox[i]
  BY <1>1
<1>3. \A i \in 1 .. Len(inbox') : i \in 1 .. Len(inbox) \/ i = Len(inbox) + 1
  BY <1>2
<1>4. Len(inbox) + 1 \in 1 .. Len(inbox') /\ 1 .. Len(inbox) \subseteq 1 .. Len(inbox')
  BY <1>2
<1>5. KeysIn(inbox') = KeysIn(inbox) \cup {k}
  <2>1. \A i \in 1 .. Len(inbox') : inbox'[i].key \in KeysIn(inbox) \cup {k}
    BY <1>1, <1>2, <1>3 DEF KeysIn
  <2>2. \A i \in 1 .. Len(inbox) : inbox[i].key \in KeysIn(inbox')
    BY <1>2, <1>4 DEF KeysIn
  <2>3. k \in KeysIn(inbox')
    BY <1>1, <1>2, <1>4 DEF KeysIn
  <2> QED
    BY <2>1, <2>2, <2>3 DEF KeysIn
<1>6. Held' = KeysIn(inbox') \ {Mark}
  BY DEF Held, KeysIn
<1> QED
  BY <1>1, <1>2, <1>5, <1>6 DEF Held

\* What is stored, held, claimed and being written was sent.
SentInv ==
    /\ StoredKeys \subseteq KeysSent /\ Held \subseteq KeysSent
    /\ KeysSent \subseteq StoredKeys \cup Held
    /\ claimed \subseteq KeysSent
    /\ \A w \in writes : w.f.key \in KeysSent

LEMMA WritesGrow ==
    ASSUME [Next]_vars
    PROVE  writes' \subseteq writes \/ ReadFrame
<1>1. CASE Drop \/ Handshake
  BY <1>1 DEF Drop, Handshake, Connect, HelloOk, Register, RegisterCancelled, RegisterFails
<1>2. CASE Reader
  BY <1>2 DEF Reader, ReadMark, ReadGap, ReadEnds, UpsertOk, UpsertRefused,
              GateTimesOut, Dispatch, GateAbandoned, InlineEnds, Ack
<1>3. ASSUME NEW c \in Chats, Lane(c) PROVE writes' = writes
  BY <1>3 DEF Lane, LaneClaims, LaneSkips, LaneRetries, LaneEnds
<1>4. ASSUME NEW r \in Recoveries, Recovery(r) PROVE writes' = writes
  BY <1>4 DEF Recovery, Recover, RecoverFails, RecoverRow, GateOpens, RecoverSignal,
              RecoveredSignalEnds
<1>5. CASE RetryWakes \/ StartRecoveryEnds \/ RetryEnds \/ SenderRecovers \/ UNCHANGED vars
  BY <1>5 DEF RetryWakes, StartRecoveryEnds, RetryEnds, SenderRecovers
<1>6. CASE Supervisor
  BY <1>6 DEF Supervisor, Flushed, Teardown, Away, AwayCloses, Resume, StopBegins,
              StopEnds, Crash
<1>7. ASSUME NEW granted, SenderConnects(granted) PROVE writes' = writes
  BY <1>7 DEF SenderConnects
<1>8. ASSUME NEW n, NEW ok, FinishCommits(n, ok) PROVE writes' = writes
  BY <1>8 DEF FinishCommits
<1>9. ASSUME NEW k, NEW p, Push(k, p) PROVE writes' = writes
  BY <1>9 DEF Push
<1> QED
  BY <1>1, <1>2, <1>3, <1>4, <1>5, <1>6, <1>7, <1>8, <1>9 DEF Next

LEMMA ReadsHeld ==
    ASSUME TypeOK, ReadFrame
    PROVE  LET k == NextEntry.key
           IN  /\ \A w \in writes' : w \in writes \/ w.f.key = k
               /\ k \in Held
<1> DEFINE j   == trk.read + 1 - base
           f   == [key |-> NextEntry.key, gen |-> gen, dseq |-> trk.read + 1]
           new == [f |-> f, prov |-> NextEntry.prov, cs |-> trk.seq]
<1>1. j \in 1 .. Len(inbox) /\ NextEntry = inbox[j] /\ NextEntry.key # Mark
  BY DEF ReadFrame, HasNext, NextEntry
<1>2. writes' = writes \cup {new} /\ new.f.key = NextEntry.key
  BY DEF ReadFrame
<1> HIDE DEF new, j
<1> QED
  BY <1>1, <1>2 DEF Held, KeysIn

\* A message is claimed by the lane that it waits in.
LEMMA ClaimedByLanes ==
    ASSUME TypeOK, [Next]_vars
    PROVE  \/ claimed' = claimed /\ hist'.turns = hist.turns
           \/ \E c \in Chats : LaneClaims(c)
<1> USE DEF TypeOK, History
<1>1. CASE Handshake \/ Drop
  BY <1>1 DEF Handshake, Connect, HelloOk, Register, RegisterCancelled, RegisterFails, Drop
<1>2. CASE Reader
  BY <1>2 DEF Reader, ReadMark, ReadFrame, ReadGap, ReadEnds, UpsertOk, UpsertRefused,
              GateTimesOut, Dispatch, GateAbandoned, InlineEnds, Ack
<1>3. ASSUME NEW c \in Chats, Lane(c)
      PROVE  LaneClaims(c) \/ (claimed' = claimed /\ hist'.turns = hist.turns)
  BY <1>3 DEF Lane, LaneSkips, LaneRetries, LaneEnds
<1>4. ASSUME NEW r \in Recoveries, Recovery(r)
      PROVE  claimed' = claimed /\ hist'.turns = hist.turns
  BY <1>4 DEF Recovery, Recover, RecoverFails, RecoverRow, GateOpens, RecoverSignal,
              RecoveredSignalEnds
<1>5. CASE RetryWakes \/ StartRecoveryEnds \/ RetryEnds \/ SenderRecovers \/ UNCHANGED vars
  BY <1>5 DEF RetryWakes, StartRecoveryEnds, RetryEnds, SenderRecovers
<1>6. CASE Supervisor
  BY <1>6 DEF Supervisor, Flushed, Teardown, Away, AwayCloses, Resume, StopBegins, StopEnds,
              Crash
<1>7. ASSUME NEW n, NEW ok, FinishCommits(n, ok)
      PROVE  claimed' = claimed /\ hist'.turns = hist.turns
  BY <1>7 DEF FinishCommits
<1>8. ASSUME NEW k, NEW p, Push(k, p) PROVE claimed' = claimed /\ hist'.turns = hist.turns
  BY <1>8 DEF Push
<1>9. ASSUME NEW granted, SenderConnects(granted)
      PROVE  claimed' = claimed /\ hist'.turns = hist.turns
  BY <1>9 DEF SenderConnects
<1> QED
  BY <1>1, <1>2, <1>3, <1>4, <1>5, <1>6, <1>7, <1>8, <1>9 DEF Next

LEMMA SentKept ==
    ASSUME TypeOK, DurabilityInv, TasksHoldStored, SentInv, [Next]_vars
    PROVE  SentInv'
<1>1. KeysSent \subseteq KeysSent'
  BY BeforeKept
<1>2. StoredKeys \subseteq StoredKeys' /\ StoredKeys' \subseteq KeysSent'
  BY <1>1, StoredByWrites, StoredStays DEF SentInv
<1>3. \A w \in writes' : w.f.key \in KeysSent'
  BY <1>1, WritesGrow, ReadsHeld DEF SentInv
<1>4. claimed' \subseteq KeysSent'
  <2>1. ASSUME NEW c \in Chats, LaneClaims(c) PROVE claimed' \subseteq KeysSent'
    <3>1. claimed' = claimed \cup {Head(lanes[c].q).key} /\ Waiting(c)
      BY <2>1 DEF LaneClaims
    <3>2. lanes[c].q \in Seq(LaneFrame) /\ lanes[c].q # <<>>
      BY <3>1 DEF TypeOK, LaneTask, Waiting
    <3>3. Head(lanes[c].q).key \in StoredKeys
      BY <3>2, TailWithin DEF TasksHoldStored, LaneWithin
    <3> QED
      BY <1>1, <3>1, <3>3 DEF SentInv
  <2> QED
    BY <1>1, <2>1, ClaimedByLanes DEF SentInv
<1>5. ASSUME NEW k \in Keys \cup {Mark}, NEW p \in BOOLEAN, Push(k, p)
      PROVE  Held' \subseteq KeysSent' /\ KeysSent' \subseteq StoredKeys' \cup Held'
  <2>1. Held' = IF k = Mark THEN Held ELSE Held \cup {k}
    BY <1>5, PushedInbox
  <2>2. KeysSent' = IF k = Mark THEN KeysSent ELSE KeysSent \cup {k}
    <3>1. CASE k = Mark \/ k \in KeysSent
      BY <1>5, <3>1 DEF Push, KeysSent
    <3>2. CASE ~(k = Mark \/ k \in KeysSent)
      <4> DEFINE s == hist.sent
      <4>1. s \in Seq(Keys) /\ hist'.sent = Append(s, k)
        BY <1>5, <3>2 DEF Push, TypeOK, History
      <4>2. /\ Len(hist'.sent) = Len(s) + 1 /\ Len(s) \in Nat /\ hist'.sent[Len(s) + 1] = k
            /\ \A i \in 1 .. Len(s) : hist'.sent[i] = s[i]
        BY <4>1
      <4>3. 1 .. Len(s) + 1 = 1 .. Len(s) \cup {Len(s) + 1}
        BY <4>2
      <4>4. KeysSent' = {hist'.sent[i] : i \in 1 .. Len(s) + 1}
        BY <4>2 DEF KeysSent
      <4>5. KeysSent = {s[i] : i \in 1 .. Len(s)}
        BY DEF KeysSent
      <4> HIDE DEF s
      <4>6. \A x : x \in KeysSent' <=> x \in KeysSent \cup {k}
        BY <4>2, <4>3, <4>4, <4>5
      <4> QED
        BY <3>2, <4>6
    <3> QED
      BY <3>1, <3>2
  <2> QED
    BY <1>2, <2>1, <2>2 DEF SentInv
<1>6. CASE Ack
  <2>1. Held' \subseteq Held /\ Held \ Held' \subseteq StoredKeys
    BY <1>6, AckForgets
  <2>2. KeysSent' = KeysSent
    BY <1>6 DEF Ack, KeysSent, TypeOK, History
  <2> QED
    BY <1>2, <1>3, <1>4, <2>1, <2>2 DEF SentInv
<1>7. CASE ~Ack /\ ~ \E k \in Keys \cup {Mark} : \E p \in BOOLEAN : Push(k, p)
  <2>1. Held' = Held
    BY <1>7, OtherStepsKeepHeld DEF Held, KeysIn
  <2>2. KeysSent' = KeysSent
    BY <1>7, SentStep DEF KeysSent
  <2> QED
    BY <1>2, <1>3, <1>4, <2>1, <2>2 DEF SentInv
<1> QED
  BY <1>2, <1>3, <1>4, <1>5, <1>6, <1>7 DEF SentInv

LEMMA UpsertStores ==
    ASSUME TypeOK, DurabilityInv, NEW w \in writes, UpsertOk(w)
    PROVE  w.f.key \in StoredKeys'
<1>1. w \in Write /\ w.f.dseq > 0 /\ w.f.dseq \in Nat /\ w.cs \in Nat /\ w.f.key \in Keys
  BY UpsertRowType DEF DurabilityInv, AbsentInv, Write, Frame
<1>2. rows'[w.f.key] = UpsertRow(rows[w.f.key], w)
  BY <1>1 DEF TypeOK, UpsertOk
<1>3. rows[w.f.key].st = "none" => rows[w.f.key] = NoRow
  BY <1>1 DEF DurabilityInv, AbsentInv
<1>4. rows[w.f.key] = NoRow => Newer(w, rows[w.f.key])
  BY <1>1 DEF Newer, NoRow
<1>5. UpsertRow(rows[w.f.key], w).st # "none"
  BY <1>3, <1>4 DEF UpsertRow
<1> QED
  BY <1>1, <1>2, <1>5 DEF StoredKeys, Stored

\* The place of the reader in the inbox, step by step
ReadsOn ==
    /\ inbox' = inbox /\ base' = base
    /\ trk'.on => /\ trk.on /\ trk'.read = trk.read
                  /\ rd.pc = "upsert" => rd'.pc = "upsert"

LEMMA InboxSteps ==
    ASSUME TypeOK, OwnerInv, [Next]_vars
    PROVE  \/ ReadsOn
           \/ \E k \in Keys \cup {Mark}, p \in BOOLEAN : Push(k, p)
           \/ HelloOk \/ ReadMark \/ ReadFrame \/ Ack
           \/ \E w \in writes : UpsertOk(w) /\ Awaited(w)
<1> DEFINE Quiet == UNCHANGED <<inbox, base, trk, rd>>
<1>1. ASSUME Quiet PROVE ReadsOn
  BY <1>1 DEF ReadsOn
<1>2. CASE Connect
  BY <1>2 DEF Connect, ReadsOn, NoTracker
<1>3. ASSUME NEW g \in regs, Register(g) PROVE ReadsOn
  <2>1. CASE rd.pc = "register" /\ gen = g
    BY <1>3, <2>1 DEF Register, ReadsOn, TypeOK, Tracker
  <2>2. CASE ~(rd.pc = "register" /\ gen = g)
    BY <1>3, <2>2 DEF Register, ReadsOn
  <2> QED
    BY <2>1, <2>2
<1>4. ASSUME NEW g \in regs, RegisterCancelled(g) PROVE ReadsOn
  BY <1>4, ReaderMoves DEF RegisterCancelled, ReadsOn, TypeOK
<1>5. ASSUME NEW g \in regs, RegisterFails(g) PROVE ReadsOn
  BY <1>5, CloseType DEF RegisterFails, ReadsOn, TypeOK
<1>6. CASE ReadGap
  BY <1>6, CloseType DEF ReadGap, ReadsOn, TypeOK
<1>7. CASE ReadEnds \/ GateTimesOut \/ Dispatch \/ GateAbandoned
           \/ \E st \in {"done", "failed"} : InlineEnds(st)
  BY <1>7 DEF ReadEnds, GateTimesOut, Dispatch, GateAbandoned, InlineEnds, ReadsOn
<1>8. ASSUME NEW w \in writes, UpsertOk(w), ~Awaited(w) PROVE ReadsOn
  BY <1>8 DEF UpsertOk, ReadsOn
<1>9. ASSUME NEW w \in writes, UpsertRefused(w) PROVE ReadsOn
  BY <1>9, CloseType DEF UpsertRefused, ReadsOn, TypeOK
<1>10. ASSUME NEW n \in finishes, NEW ok \in BOOLEAN, FinishCommits(n, ok) PROVE ReadsOn
  <2>1. n.by = "reader" => rd.pc = "finish"
    BY DEF OwnerInv, Waits
  <2> QED
    BY <1>10, <2>1 DEF FinishCommits, ReadsOn
<1>11. CASE Teardown \/ StopEnds \/ Crash
  BY <1>11 DEF Teardown, StopEnds, Crash, Reset, NoTracker, ReadsOn
<1>12. ASSUME Flushed \/ Away \/ AwayCloses \/ Resume \/ StopBegins PROVE Quiet
  BY <1>12 DEF Flushed, Away, AwayCloses, Resume, StopBegins
<1>13. ASSUME NEW c \in Chats, Lane(c) PROVE Quiet
  BY <1>13 DEF Lane, LaneClaims, LaneSkips, LaneRetries, LaneEnds
<1>14. ASSUME NEW r \in Recoveries, Recovery(r) PROVE Quiet
  BY <1>14 DEF Recovery, Recover, RecoverFails, RecoverRow, GateOpens, RecoverSignal,
               RecoveredSignalEnds
<1>15. ASSUME Drop \/ RetryWakes \/ StartRecoveryEnds \/ RetryEnds \/ SenderRecovers
              \/ UNCHANGED vars
       PROVE  Quiet
  BY <1>15 DEF Drop, RetryWakes, StartRecoveryEnds, RetryEnds, SenderRecovers
<1>16. ASSUME NEW granted, SenderConnects(granted) PROVE Quiet
  BY <1>16 DEF SenderConnects
<1> HIDE DEF Quiet
<1> QED
  BY <1>1, <1>2, <1>3, <1>4, <1>5, <1>6, <1>7, <1>8, <1>9, <1>10, <1>11, <1>12, <1>13, <1>14,
     <1>15, <1>16 DEF Next, Handshake, Reader, Supervisor

\* What was read is stored, except the frame that is being written.
ReadInv ==
    trk.on => \A i \in 1 .. Len(inbox) :
      base + i <= trk.read /\ inbox[i].key # Mark =>
        inbox[i].key \in StoredKeys \/ (rd.pc = "upsert" /\ base + i = trk.read)

LEMMA AckCuts ==
    ASSUME TypeOK, DurabilityInv, Ack
    PROVE  \E d \in 1 .. Len(inbox) :
             /\ trk' = trk /\ rd' = rd /\ trk.on /\ base' = base + d /\ base + d <= trk.read
             /\ Len(inbox) \in Nat /\ Len(inbox') = Len(inbox) - d
             /\ \A i \in 1 .. Len(inbox') : d + i \in 1 .. Len(inbox) /\ inbox'[i] = inbox[d + i]
             /\ \A i \in 1 .. d : inbox[i].key # Mark => inbox[i].key \in StoredKeys
<1> DEFINE d == trk.acked - base
<1>1. /\ trk.on /\ inbox' = SubSeq(inbox, d + 1, Len(inbox)) /\ base' = trk.acked
      /\ trk' = trk /\ rd' = rd /\ trk.acked > base
  BY DEF Ack
<1>2. /\ base \in Nat /\ trk.acked \in Nat /\ trk.read \in Nat /\ inbox \in Seq(Entry)
      /\ trk.acked <= trk.read /\ trk.read <= base + Len(inbox) /\ Len(inbox) \in Nat
  BY <1>1 DEF TypeOK, Tracker, DurabilityInv, WatermarkInv
<1>3. d \in 1 .. Len(inbox) /\ trk.acked = base + d
  BY <1>1, <1>2
<1>4. \A i \in 1 .. d : base + i <= trk.acked /\ i \in 1 .. Len(inbox)
  BY <1>2, <1>3
<1>5. ASSUME NEW i \in 1 .. d, inbox[i].key # Mark PROVE inbox[i].key \in StoredKeys
  <2>1. Stored(inbox[i].key)
    BY <1>1, <1>4, <1>5 DEF DurabilityInv, WatermarkInv
  <2>2. inbox[i] \in Entry
    BY <1>2, <1>4
  <2> QED
    BY <1>5, <2>1, <2>2 DEF StoredKeys, Entry
<1> HIDE DEF d
<1>6. /\ Len(inbox') = Len(inbox) - d
      /\ \A i \in 1 .. Len(inbox) - d : inbox'[i] = inbox[d + i]
  BY <1>1, <1>2, <1>3, CutSequence
<1>7. \A i \in 1 .. Len(inbox') : d + i \in 1 .. Len(inbox)
  BY <1>2, <1>3, <1>6
<1> QED
  BY <1>1, <1>2, <1>3, <1>5, <1>6, <1>7

LEMMA ReadInvStep ==
    ASSUME TypeOK, DurabilityInv, OwnerInv, ReadInv, [Next]_vars
    PROVE  ReadInv'
<1>1. /\ base \in Nat /\ trk.read \in Nat /\ Len(inbox) \in Nat
      /\ StoredKeys \subseteq StoredKeys'
  BY StoredStays DEF TypeOK, Tracker
<1>2. CASE ReadsOn
  BY <1>1, <1>2 DEF ReadsOn, ReadInv
<1>3. ASSUME NEW k \in Keys \cup {Mark}, NEW p \in BOOLEAN, Push(k, p) PROVE ReadInv'
  <2>1. /\ Len(inbox') = Len(inbox) + 1
        /\ \A i \in 1 .. Len(inbox) : inbox'[i] = inbox[i]
        /\ UNCHANGED <<base, trk, rd>>
    BY <1>3, PushedInbox DEF Push
  <2>2. trk.on => trk.read <= base + Len(inbox)
    BY DEF DurabilityInv, WatermarkInv
  <2>3. ASSUME trk.on, NEW i \in 1 .. Len(inbox'), base + i <= trk.read
        PROVE  i \in 1 .. Len(inbox)
    BY <1>1, <2>1, <2>2, <2>3
  <2> QED
    BY <1>1, <2>1, <2>3 DEF ReadInv
<1>4. CASE HelloOk
  <2>1. base' = 0 /\ trk'.read = 0 /\ inbox' = inbox
    BY <1>4 DEF HelloOk, NoTracker
  <2> QED
    BY <1>1, <2>1 DEF ReadInv
<1>5. CASE ReadMark \/ ReadFrame
  <2> DEFINE j == trk.read + 1 - base
  <2>1. /\ rd.pc = "idle" /\ trk.on /\ UNCHANGED <<inbox, base>> /\ NextEntry = inbox[j]
        /\ j \in 1 .. Len(inbox)
    BY <1>5 DEF ReadMark, ReadFrame, HasNext, NextEntry
  <2>2. trk'.read = trk.read + 1
    <3>1. [trk EXCEPT !.read = @ + 1] \in Tracker /\ [trk EXCEPT !.read = @ + 1].read = trk.read + 1
      BY ReadType DEF TypeOK, Tracker
    <3> QED
      BY <1>5, <3>1 DEF ReadMark, ReadFrame, Record, Tracker
  <2>3. \/ NextEntry.key = Mark
        \/ rd'.pc = "upsert"
    BY <1>5 DEF ReadMark, ReadFrame
  <2>4. ASSUME NEW i \in 1 .. Len(inbox), base + i <= trk.read + 1, inbox[i].key # Mark
        PROVE  inbox[i].key \in StoredKeys' \/ (rd'.pc = "upsert" /\ base + i = trk.read + 1)
    <3>1. base + i <= trk.read \/ (base + i = trk.read + 1 /\ i = j)
      BY <1>1, <2>4
    <3> HIDE DEF j
    <3> QED
      BY <1>1, <2>1, <2>3, <2>4, <3>1 DEF ReadInv
  <2> HIDE DEF j
  <2> QED
    BY <2>1, <2>2, <2>4 DEF ReadInv
<1>6. CASE Ack
  <2>1. PICK d \in 1 .. Len(inbox) :
          /\ trk' = trk /\ rd' = rd /\ trk.on /\ base' = base + d
          /\ Len(inbox') = Len(inbox) - d
          /\ \A i \in 1 .. Len(inbox') : d + i \in 1 .. Len(inbox) /\ inbox'[i] = inbox[d + i]
    BY <1>6, AckCuts
  <2>3. ASSUME NEW i \in 1 .. Len(inbox') PROVE base' + i = base + (d + i)
    BY <1>1, <2>1
  <2>4. ASSUME NEW i \in 1 .. Len(inbox'), base' + i <= trk'.read, inbox'[i].key # Mark
        PROVE  inbox'[i].key \in StoredKeys' \/ (rd'.pc = "upsert" /\ base' + i = trk'.read)
    BY <1>1, <2>1, <2>3, <2>4 DEF ReadInv
  <2> QED
    BY <2>4 DEF ReadInv
<1>7. ASSUME NEW w \in writes, UpsertOk(w), Awaited(w) PROVE ReadInv'
  <2>1. /\ UNCHANGED <<inbox, base>> /\ trk'.on = trk.on /\ trk'.read = trk.read
    BY <1>7 DEF UpsertOk, Record, TypeOK, Tracker
  <2>2. w.f.key \in StoredKeys'
    BY <1>7, UpsertStores
  <2>3. trk.on => inbox[trk.read - base].key = w.f.key
    BY <1>7 DEF DurabilityInv, ReaderInv, Awaited
  <2>4. ASSUME trk.on, NEW i \in 1 .. Len(inbox), base + i <= trk.read, inbox[i].key # Mark
        PROVE  inbox[i].key \in StoredKeys'
    <3>1. base + i = trk.read => i = trk.read - base
      BY <1>1, <2>4
    <3> QED
      BY <1>1, <2>2, <2>3, <2>4, <3>1 DEF ReadInv
  <2> QED
    BY <2>1, <2>4 DEF ReadInv
<1> QED
  BY <1>2, <1>3, <1>4, <1>5, <1>6, <1>7, InboxSteps

\* What was sent before a frame of the inbox is stored, or before it in the inbox.
InboxOrder ==
    \A j \in 1 .. Len(inbox), n \in Messages : Before(n, inbox[j].key) =>
      n \in StoredKeys \/ \E i \in 1 .. j - 1 : inbox[i].key = n

LEMMA InboxOrderStep ==
    ASSUME TypeOK, DurabilityInv, SentInv, InboxOrder, [Next]_vars
    PROVE  InboxOrder'
<1> SUFFICES ASSUME NEW j \in 1 .. Len(inbox'), NEW n \in Messages, NEW m,
                    m = inbox'[j].key, Before(n, m)'
             PROVE  n \in StoredKeys' \/ \E i \in 1 .. j - 1 : inbox'[i].key = n
  BY DEF InboxOrder, Before
<1>1. /\ Len(inbox) \in Nat /\ StoredKeys \subseteq StoredKeys'
      /\ n # Mark /\ m # Mark /\ n \in KeysSent
  BY StoredStays, BeforeKept, KeysAssumption DEF TypeOK, Keys, Before
<1>2. ASSUME NEW i \in 1 .. Len(inbox), m = inbox[i].key
      PROVE  n \in StoredKeys \/ \E x \in 1 .. i - 1 : inbox[x].key = n
  <2>1. m \in KeysSent
    BY <1>1, <1>2 DEF SentInv, Held, KeysIn
  <2>2. Before(n, m)
    BY <2>1, BeforeKept
  <2> QED
    BY <1>2, <2>2 DEF InboxOrder
<1>3. CASE inbox' = inbox
  BY <1>1, <1>2, <1>3
<1>4. ASSUME NEW k \in Keys \cup {Mark}, NEW p \in BOOLEAN, Push(k, p)
      PROVE  n \in StoredKeys' \/ \E i \in 1 .. j - 1 : inbox'[i].key = n
  <2>1. /\ Len(inbox') = Len(inbox) + 1
        /\ \A i \in 1 .. Len(inbox) : inbox'[i] = inbox[i]
    BY <1>4, PushedInbox
  <2>2. CASE j \in 1 .. Len(inbox)
    <3>1. n \in StoredKeys \/ \E i \in 1 .. j - 1 : inbox[i].key = n
      BY <1>2, <2>1, <2>2
    <3>2. \A i \in 1 .. j - 1 : i \in 1 .. Len(inbox)
      BY <1>1, <2>2
    <3> QED
      BY <1>1, <2>1, <3>1, <3>2
  <2>3. CASE j = Len(inbox) + 1
    <3>1. ASSUME n \in Held PROVE \E i \in 1 .. j - 1 : inbox'[i].key = n
      <4>1. PICK i \in 1 .. Len(inbox) : inbox[i].key = n
        BY <3>1 DEF Held, KeysIn
      <4>2. i \in 1 .. j - 1
        BY <1>1, <2>3
      <4> QED
        BY <2>1, <4>1, <4>2
    <3> QED
      BY <1>1, <3>1 DEF SentInv
  <2> QED
    BY <1>1, <2>1, <2>2, <2>3
<1>5. CASE Ack
  <2>1. PICK d \in 1 .. Len(inbox) :
          /\ Len(inbox') = Len(inbox) - d
          /\ \A i \in 1 .. Len(inbox') : d + i \in 1 .. Len(inbox) /\ inbox'[i] = inbox[d + i]
          /\ \A i \in 1 .. d : inbox[i].key # Mark => inbox[i].key \in StoredKeys
    BY <1>5, AckCuts
  <2>2. d + j \in 1 .. Len(inbox) /\ m = inbox[d + j].key
    BY <2>1
  <2>3. n \in StoredKeys \/ \E i \in 1 .. d + j - 1 : inbox[i].key = n
    BY <1>2, <2>2
  <2>4. ASSUME NEW i \in 1 .. d + j - 1, inbox[i].key = n
        PROVE  n \in StoredKeys' \/ \E x \in 1 .. j - 1 : inbox'[x].key = n
    <3>1. CASE i \in 1 .. d
      BY <1>1, <2>1, <2>4, <3>1
    <3>2. CASE i \notin 1 .. d
      <4>1. i - d \in 1 .. j - 1 /\ i - d \in 1 .. Len(inbox') /\ d + (i - d) = i
        BY <1>1, <2>1, <2>4, <3>2
      <4>2. inbox'[i - d].key = n
        BY <2>1, <2>4, <4>1
      <4> QED
        BY <4>1, <4>2
    <3> QED
      BY <3>1, <3>2
  <2> QED
    BY <1>1, <2>3, <2>4
<1> QED
  BY <1>3, <1>4, <1>5, OtherStepsKeepHeld

\* What was sent before a frame that is stored, or being written, is stored.
StoredOrder ==
    /\ \A w \in writes, n \in Messages : Before(n, w.f.key) => n \in StoredKeys
    /\ \A m \in StoredKeys, n \in Messages : Before(n, m) => n \in StoredKeys

LEMMA StoredOrderStep ==
    ASSUME TypeOK, DurabilityInv, SentInv, InboxOrder, ReadInv, StoredOrder, [Next]_vars
    PROVE  StoredOrder'
<1>1. StoredKeys \subseteq StoredKeys'
  BY StoredStays
<1>2. ASSUME NEW m \in StoredKeys, NEW n \in Messages, Before(n, m)' PROVE n \in StoredKeys'
  BY <1>1, <1>2, BeforeKept DEF SentInv, StoredOrder
<1>3. ASSUME NEW w \in writes, NEW n \in Messages, Before(n, w.f.key)' PROVE n \in StoredKeys'
  <2> DEFINE m == w.f.key
  <2>1. Before(n, m)' /\ m \in KeysSent
    BY <1>3 DEF SentInv
  <2>2. Before(n, m)
    BY <2>1, BeforeKept
  <2> QED
    BY <1>1, <2>2 DEF StoredOrder
<1>4. ASSUME NEW m \in StoredKeys', NEW n \in Messages, Before(n, m)' PROVE n \in StoredKeys'
  <2>1. CASE m \in StoredKeys
    BY <1>2, <1>4, <2>1
  <2>2. ASSUME NEW w \in writes, m = w.f.key PROVE n \in StoredKeys'
    BY <1>3, <1>4, <2>2
  <2> QED
    BY <2>1, <2>2, StoredByWrites
<1>5. ASSUME NEW w \in writes', NEW n \in Messages, Before(n, w.f.key)' PROVE n \in StoredKeys'
  <2>1. CASE w \in writes
    BY <1>3, <1>5, <2>1
  <2>2. CASE ReadFrame /\ w \notin writes
    <3> DEFINE j == trk.read + 1 - base
               e == inbox[j]
    <3>1. /\ rd.pc = "idle" /\ trk.on /\ NextEntry = e /\ j \in 1 .. Len(inbox)
          /\ hist' = hist
      BY <2>2 DEF ReadFrame, HasNext, NextEntry
    <3>2. w.f.key = e.key
      BY <2>2, <3>1, <1>5, ReadsHeld
    <3>3. Before(n, inbox[j].key)
      BY <1>5, <3>1, <3>2 DEF Before
    <3>4. n \in StoredKeys \/ \E i \in 1 .. j - 1 : inbox[i].key = n
      BY <3>1, <3>3 DEF InboxOrder
    <3>5. ASSUME NEW i \in 1 .. j - 1, inbox[i].key = n PROVE n \in StoredKeys
      <4>1. base \in Nat /\ trk.read \in Nat /\ Len(inbox) \in Nat
        BY DEF TypeOK, Tracker
      <4>2. i \in 1 .. Len(inbox) /\ base + i <= trk.read
        BY <3>1, <4>1
      <4>3. inbox[i].key # Mark
        BY <3>5, KeysAssumption DEF Keys
      <4> QED
        BY <3>1, <3>5, <4>2, <4>3 DEF ReadInv
    <3> QED
      BY <1>1, <3>4, <3>5
  <2> QED
    BY <1>5, <2>1, <2>2, WritesGrow
<1> QED
  BY <1>4, <1>5 DEF StoredOrder

\* How the place of a row in the order of the table changes
LEMMA AtStep ==
    ASSUME TypeOK, DurabilityInv, [Next]_vars
    PROVE  /\ rowid' >= rowid
           /\ \/ \A k \in Keys : \/ rows'[k].st = "none"
                                 \/ rows'[k].at = rows[k].at /\ rows[k].st # "none"
              \/ \E m \in Keys :
                   /\ rows[m].st = "none" /\ rows'[m].at = rowid + 1 /\ rowid' = rowid + 1
                   /\ \A k \in Keys : k # m => rows'[k] = rows[k]
<1> DEFINE Goal == /\ rowid' >= rowid
                   /\ \/ \A k \in Keys : \/ rows'[k].st = "none"
                                         \/ rows'[k].at = rows[k].at /\ rows[k].st # "none"
                      \/ \E m \in Keys :
                           /\ rows[m].st = "none" /\ rows'[m].at = rowid + 1
                           /\ rowid' = rowid + 1
                           /\ \A k \in Keys : k # m => rows'[k] = rows[k]
<1>1. rowid \in Nat /\ rows \in [Keys -> Row] /\ \A k \in Keys : rows[k].at \in Nat
  BY DEF TypeOK, Row
<1>2. ASSUME NEW w \in writes, UpsertOk(w) PROVE Goal
  <2> DEFINE m == w.f.key
  <2>1. /\ m \in Keys /\ rows' = [rows EXCEPT ![m] = UpsertRow(rows[m], w)]
        /\ rowid' = IF rows[m].st = "none" THEN rowid + 1 ELSE rowid
    BY <1>2, UpsertRowType DEF UpsertOk
  <2>2. rows'[m] = UpsertRow(rows[m], w) /\ \A k \in Keys : k # m => rows'[k] = rows[k]
    BY <1>1, <2>1
  <2>3. rows'[m].st # "none"
    <3>3. CASE rows[m].st = "none"
      <4>1. w \in Write /\ w.f.dseq > 0 /\ w.f.dseq \in Nat /\ w.cs \in Nat
        BY UpsertRowType DEF DurabilityInv, AbsentInv, Write, Frame
      <4>2. rows[m] = NoRow
        BY <2>1, <3>3 DEF DurabilityInv, AbsentInv
      <4>3. Newer(w, rows[m])
        BY <4>1, <4>2 DEF Newer, NoRow
      <4> QED
        BY <2>2, <4>3 DEF UpsertRow
    <3>4. CASE rows[m].st # "none"
      BY <2>2, <3>4 DEF UpsertRow
    <3> QED
      BY <3>3, <3>4
  <2>4. CASE rows[m].st = "none"
    <3>1. rows[m] = NoRow
      BY <2>1, <2>4 DEF DurabilityInv, AbsentInv
    <3>2. w \in Write /\ w.f.dseq > 0 /\ w.f.dseq \in Nat /\ w.cs \in Nat
      BY UpsertRowType DEF DurabilityInv, AbsentInv, Write, Frame
    <3>3. Newer(w, rows[m])
      BY <3>1, <3>2 DEF Newer, NoRow
    <3>4. rows'[m].at = rowid + 1
      BY <2>2, <2>4, <3>3 DEF UpsertRow
    <3> HIDE DEF m
    <3> QED
      BY <1>1, <2>1, <2>2, <2>4, <3>4
  <2>5. CASE rows[m].st # "none"
    <3>1. rows'[m].at = rows[m].at
      BY <2>2, <2>5 DEF UpsertRow
    <3>2. ASSUME NEW k \in Keys
          PROVE  rows'[k].st = "none" \/ (rows'[k].at = rows[k].at /\ rows[k].st # "none")
                 \/ (k # m /\ rows'[k] = rows[k])
      BY <2>2, <2>5, <3>1
    <3>3. ASSUME NEW k \in Keys, k # m, rows[k].st = "none"
          PROVE  rows'[k].st = "none"
      BY <2>2, <3>3
    <3> HIDE DEF m
    <3> QED
      BY <1>1, <2>1, <2>5, <3>2, <3>3
  <2> QED
    BY <2>4, <2>5
<1>3. ASSUME NEW n \in finishes, NEW ok \in BOOLEAN, FinishCommits(n, ok) PROVE Goal
  <2>1. \A k \in Keys : rows'[k] = rows[k] \/ rows'[k] = FinishRow(rows[k], n)
    BY <1>1, <1>3 DEF FinishCommits
  <2>2. \A k \in Keys : /\ FinishRow(rows[k], n).at = rows[k].at
                        /\ rows[k].st = "none" => FinishRow(rows[k], n) = rows[k]
    BY <1>1 DEF FinishRow, Row
  <2>3. rowid' = rowid
    BY <1>3 DEF FinishCommits
  <2> QED
    BY <1>1, <2>1, <2>2, <2>3
<1>4. ASSUME NEW r \in Recoveries, NEW gone \in SUBSET Keys, Recover(r, gone) PROVE Goal
  <2>1. rowid' = rowid /\ \A k \in Keys : rows'[k] = NoRow \/ rows'[k] = rows[k]
    BY <1>4 DEF Recover
  <2> QED
    BY <1>1, <2>1 DEF NoRow
<1>5. rowid' = rowid \/ \E w \in writes : UpsertOk(w)
  <2>1. CASE Drop \/ Handshake
    BY <2>1 DEF Drop, Handshake, Connect, HelloOk, Register, RegisterCancelled, RegisterFails
  <2>2. CASE Reader
    BY <2>2 DEF Reader, ReadMark, ReadFrame, ReadGap, ReadEnds, UpsertRefused,
                GateTimesOut, Dispatch, GateAbandoned, InlineEnds, Ack
  <2>3. ASSUME NEW c \in Chats, Lane(c) PROVE rowid' = rowid
    BY <2>3 DEF Lane, LaneClaims, LaneSkips, LaneRetries, LaneEnds
  <2>4. ASSUME NEW r \in Recoveries, Recovery(r) PROVE rowid' = rowid
    BY <2>4 DEF Recovery, Recover, RecoverFails, RecoverRow, GateOpens, RecoverSignal,
                RecoveredSignalEnds
  <2>5. CASE RetryWakes \/ StartRecoveryEnds \/ RetryEnds \/ SenderRecovers \/ UNCHANGED vars
    BY <2>5 DEF RetryWakes, StartRecoveryEnds, RetryEnds, SenderRecovers
  <2>6. CASE Supervisor
    BY <2>6 DEF Supervisor, Flushed, Teardown, Away, AwayCloses, Resume, StopBegins, StopEnds,
                Crash
  <2>7. ASSUME NEW granted, SenderConnects(granted) PROVE rowid' = rowid
    BY <2>7 DEF SenderConnects
  <2>8. ASSUME NEW n, NEW ok, FinishCommits(n, ok) PROVE rowid' = rowid
    BY <2>8 DEF FinishCommits
  <2>9. ASSUME NEW k, NEW p, Push(k, p) PROVE rowid' = rowid
    BY <2>9 DEF Push
  <2> QED
    BY <2>1, <2>2, <2>3, <2>4, <2>5, <2>6, <2>7, <2>8, <2>9 DEF Next
<1>6. ASSUME rows' = rows, rowid' = rowid PROVE Goal
  BY <1>1, <1>6
<1> HIDE DEF Goal
<1>7. Goal
  BY <1>2, <1>3, <1>4, <1>5, <1>6, OtherStepsKeepRows
<1> QED
  BY <1>7 DEF Goal

\* The rows of one conversation that are still to be handled stand in the order
\* in which they were sent.
AtOrder ==
    /\ \A k \in Keys : rows[k].at <= rowid
    /\ None({"aways", "senders"}) =>
         \A m, n \in Messages :
           Before(n, m) /\ n \notin claimed /\ rows[m].st # "none" /\ rows[n].st # "none"
           => rows[n].at < rows[m].at

LEMMA AtOrderStep ==
    ASSUME TypeOK, DurabilityInv, SentInv, StoredOrder, DoneInv, AtOrder, [Next]_vars
    PROVE  AtOrder'
<1>1. /\ rowid \in Nat /\ rowid' >= rowid /\ rowid' \in Nat
      /\ \A k \in Keys : rows[k].at \in Nat /\ rows'[k].at \in Nat /\ rows[k].at <= rowid
      /\ \A k \in Keys : rows'[k].st = "none" => rows'[k].at = 0
      /\ Messages \subseteq Keys
  <2>1. TypeOK'
    BY NextType
  <2>2. \A k \in Keys : rows[k] \in Row /\ rows'[k] \in Row
    BY <2>1 DEF TypeOK
  <2>3. rowid \in Nat /\ rowid' \in Nat
    BY <2>1 DEF TypeOK
  <2>4. \A k \in Keys : rows'[k].st = "none" => rows'[k].at = 0
    BY RowsStay DEF NoRow
  <2> QED
    BY <2>2, <2>3, <2>4, AtStep DEF AtOrder, Row, Keys
<1> DEFINE Old == \A k \in Keys : \/ rows'[k].st = "none"
                                  \/ rows'[k].at = rows[k].at /\ rows[k].st # "none"
           New(m) == /\ rows[m].st = "none" /\ rows'[m].at = rowid + 1 /\ rowid' = rowid + 1
                     /\ \A k \in Keys : k # m => rows'[k] = rows[k]
<1>2. Old \/ \E m \in Keys : New(m)
  BY AtStep
<1>3. \A k \in Keys : rows'[k].at <= rowid'
  BY <1>1, <1>2
<1>4. ASSUME None({"aways", "senders"})', NEW m \in Messages, NEW n \in Messages,
             Before(n, m)', n \notin claimed', rows'[m].st # "none", rows'[n].st # "none"
      PROVE  rows'[n].at < rows'[m].at
  <2>1. None({"aways", "senders"}) /\ n \notin claimed /\ n # m
    BY <1>4, NoneBefore, ClaimedGrows, Names DEF Before
  <2>2. ASSUME rows[m].st # "none"
        PROVE  Before(n, m) /\ rows[n].st # "none"
    <3>1. m \in StoredKeys
      BY <1>1, <2>2 DEF StoredKeys, Stored
    <3>2. Before(n, m)
      BY <1>4, <3>1, BeforeKept DEF SentInv
    <3>3. n \in StoredKeys
      BY <3>1, <3>2 DEF StoredOrder
    <3> QED
      BY <2>1, <3>2, <3>3 DEF StoredKeys, Stored, DoneInv, DoneRows
  <2>3. ASSUME rows[m].st # "none" PROVE rows[n].at < rows[m].at
    BY <2>1, <2>2, <2>3 DEF AtOrder
  <2>4. CASE Old
    BY <1>1, <1>4, <2>3, <2>4
  <2>5. ASSUME NEW k \in Keys, New(k) PROVE rows'[n].at < rows'[m].at
    <3>1. CASE m = k
      BY <1>1, <2>1, <2>5, <3>1
    <3>2. CASE m # k
      <4>1. rows'[m] = rows[m]
        BY <1>1, <2>5, <3>2
      <4>2. n # k
        BY <1>4, <2>2, <2>5, <4>1
      <4> QED
        BY <1>1, <1>4, <2>3, <2>5, <4>1, <4>2
    <3> QED
      BY <3>1, <3>2
  <2> QED
    BY <1>2, <2>4, <2>5
<1> HIDE DEF Old, New
<1> QED
  BY <1>3, <1>4 DEF AtOrder

-----------------------------------------------------------------------------
(* While nothing failed *)

\* As long as nothing failed there is no retry, a recovery that has the rows
\* read them, and the order gate is shut until the rows are queued.
CalmInv ==
    /\ rec["start"].pc # "sleep"
    /\ None({"faults"}) =>
         /\ rec["retry"].pc = "off"
         /\ rec["start"].pc \in {"rows", "later", "inline", "finish"} => rec["start"].ok
         /\ gate => state # "HANDSHAKING"
         /\ None({"aways", "senders"}) /\ gate /\ state = "READY" =>
              rec["start"].pc \notin {"read", "rows"}

LEMMA NoFaultYet ==
    ASSUME TypeOK, None({"faults"})'
    PROVE  ~Fault
BY Names, Spends DEF None, Fault

\* Who opens and shuts the gate
LEMMA GateSteps ==
    ASSUME [Next]_vars, gate', state' = "HANDSHAKING" \/ ~gate
    PROVE  \/ gate /\ state = "HANDSHAKING"
           \/ \E r \in Recoveries : GateOpens(r)
           \/ Fault
<1> DEFINE Goal == \/ gate /\ state = "HANDSHAKING"
                   \/ \E r \in Recoveries : GateOpens(r)
                   \/ Fault
           Same == gate' = gate /\ (state' = state \/ state' # "HANDSHAKING")
<1>1. ASSUME Same PROVE Goal
  BY <1>1
<1>2. CASE Drop \/ HelloOk \/ \E g \in regs : RegisterCancelled(g) \/ RegisterFails(g)
  BY <1>2 DEF Drop, HelloOk, RegisterCancelled, RegisterFails
<1>3. ASSUME NEW g, Register(g) PROVE Same
  BY <1>3 DEF Register
<1>4. CASE Reader
  BY <1>4 DEF Reader, ReadMark, ReadFrame, ReadGap, ReadEnds, UpsertOk, UpsertRefused,
              GateTimesOut, Dispatch, GateAbandoned, InlineEnds, Ack
<1>5. ASSUME NEW c \in Chats, Lane(c) PROVE Same
  BY <1>5 DEF Lane, LaneClaims, LaneSkips, LaneRetries, LaneEnds
<1>6. ASSUME NEW r \in Recoveries, Recovery(r) PROVE Goal
  BY <1>6 DEF Recovery, Recover, RecoverFails, RecoverRow, RecoverSignal,
              RecoveredSignalEnds
<1>7. ASSUME RetryWakes \/ StartRecoveryEnds \/ RetryEnds \/ SenderRecovers \/ UNCHANGED vars
      PROVE  Same
  BY <1>7 DEF RetryWakes, StartRecoveryEnds, RetryEnds, SenderRecovers
<1>8. ASSUME Supervisor PROVE Same
  BY <1>8 DEF Supervisor, Flushed, Teardown, Away, AwayCloses, Resume, StopBegins, StopEnds,
              Crash, Reset
<1>9. ASSUME NEW granted, SenderConnects(granted) PROVE Same
  BY <1>9 DEF SenderConnects
<1>10. ASSUME NEW n, NEW ok, FinishCommits(n, ok) PROVE Same
  BY <1>10 DEF FinishCommits
<1>11. ASSUME NEW k, NEW p, Push(k, p) PROVE Same
  BY <1>11 DEF Push
<1>12. CASE Connect
  BY <1>12 DEF Connect
<1> QED
  BY <1>1, <1>2, <1>3, <1>4, <1>5, <1>6, <1>7, <1>8, <1>9, <1>10, <1>11, <1>12
     DEF Next, Handshake

\* What becomes of the recovery at READY while nothing fails
LEMMA StartSteps ==
    ASSUME TypeOK, OwnerInv, CalmInv, None({"faults"})', None({"faults"}), [Next]_vars
    PROVE  /\ rec'["retry"].pc = "off"
           /\ \/ rec'["start"] = rec["start"]
              \/ rec'["start"].pc = "off"
              \/ \E g \in regs : Register(g) /\ rec'["start"].pc = "read"
              \/ /\ \E gone \in SUBSET Keys : Recover("start", gone)
                 /\ rec'["start"].pc = "rows" /\ rec'["start"].ok
              \/ /\ RecoverRow("start") /\ rec["start"].pc = "rows"
                 /\ rec'["start"].pc \in {"rows", "finish"}
                 /\ rec'["start"].ok = rec["start"].ok
              \/ /\ rec["start"].pc \in {"rows", "later", "inline"}
                 /\ rec'["start"].pc \in {"later", "inline", "finish"}
                 /\ rec'["start"].ok = rec["start"].ok
              \/ /\ \E n \in finishes : /\ n.by = "start"
                                        /\ n.f.key \in Messages => rec'["start"].pc = "rows"
                                        /\ n.f.key \notin Messages => rec'["start"].pc = "later"
                 /\ rec["start"].pc = "finish" /\ rec'["start"].ok = rec["start"].ok
<1> DEFINE Goal == /\ rec'["retry"].pc = "off"
           /\ \/ rec'["start"] = rec["start"]
              \/ rec'["start"].pc = "off"
              \/ \E g \in regs : Register(g) /\ rec'["start"].pc = "read"
              \/ /\ \E gone \in SUBSET Keys : Recover("start", gone)
                 /\ rec'["start"].pc = "rows" /\ rec'["start"].ok
              \/ /\ RecoverRow("start") /\ rec["start"].pc = "rows"
                 /\ rec'["start"].pc \in {"rows", "finish"}
                 /\ rec'["start"].ok = rec["start"].ok
              \/ /\ rec["start"].pc \in {"rows", "later", "inline"}
                 /\ rec'["start"].pc \in {"later", "inline", "finish"}
                 /\ rec'["start"].ok = rec["start"].ok
              \/ /\ \E n \in finishes : /\ n.by = "start"
                                        /\ n.f.key \in Messages => rec'["start"].pc = "rows"
                                        /\ n.f.key \notin Messages => rec'["start"].pc = "later"
                 /\ rec["start"].pc = "finish" /\ rec'["start"].ok = rec["start"].ok
<1>1. /\ rec["retry"].pc = "off" /\ ~Fault /\ "start" # "retry"
      /\ rec["start"].pc \in {"rows", "later", "inline", "finish"} => rec["start"].ok
  BY NoFaultYet DEF CalmInv
<1>2. ASSUME rec' = rec PROVE Goal
  BY <1>1, <1>2
<1>3. ASSUME NEW g \in regs, Register(g), rec'["retry"] = rec["retry"],
             Fresh(rec'["start"], "read")
      PROVE  Goal
  BY <1>1, <1>3 DEF Fresh
<1>4. ASSUME NEW c \in Chats, LaneRetries(c) PROVE Goal
  BY <1>1, <1>4 DEF LaneRetries
<1>5. ASSUME NEW pc, NEW todo, NEW later, NEW ok, Becomes("start", pc, todo, later, ok)
      PROVE  rec'["retry"] = rec["retry"] /\ rec'["start"].pc = pc /\ rec'["start"].ok = ok
  BY <1>1, <1>5, Names DEF Becomes, Moves
<1>6. ASSUME Recovery("start") PROVE Goal
  <2>1. ASSUME NEW gone \in SUBSET Keys, Recover("start", gone) PROVE Goal
    <3>1. Becomes("start", "rows", PendingRows, rec["start"].later, TRUE)
      BY <2>1, RecoverBecomes, Names
    <3> QED
      BY <1>1, <1>5, <2>1, <3>1
  <2>2. ASSUME RecoverFails("start") PROVE Goal
    BY <1>1, <2>2 DEF RecoverFails
  <2>3. ASSUME RecoverRow("start") PROVE Goal
    <3>1. \E pc \in {"rows", "finish"} : \E todo, later :
             Becomes("start", pc, todo, later, rec["start"].ok)
      BY <2>3, RowBecomes, Names
    <3>2. rec["start"].pc = "rows"
      BY <2>3 DEF RecoverRow
    <3> QED
      BY <1>1, <1>5, <2>3, <3>1, <3>2
  <2>4. ASSUME \/ GateOpens("start") \/ RecoverSignal("start")
               \/ \E st \in {"done", "failed"} : RecoveredSignalEnds("start", st)
        PROVE  Goal
    <3>1. \E pc \in {"later", "inline", "finish"} : \E todo, later :
             Becomes("start", pc, todo, later, rec["start"].ok)
      BY <2>4, RecoverBecomes, SignalBecomes, Names
    <3>2. rec["start"].pc \in {"rows", "later", "inline"}
      BY <2>4 DEF GateOpens, RecoverSignal, RecoveredSignalEnds
    <3> QED
      BY <1>1, <1>5, <3>1, <3>2
  <2> QED
    BY <1>6, <2>1, <2>2, <2>3, <2>4 DEF Recovery
<1>7. ASSUME Recovery("retry") PROVE Goal
  BY <1>1, <1>7 DEF Recovery, Recover, RecoverFails, RecoverRow, GateOpens, RecoverSignal,
                    RecoveredSignalEnds
<1>8. ASSUME RetryWakes \/ RetryEnds PROVE Goal
  BY <1>1, <1>8 DEF RetryWakes, RetryEnds
<1>9. ASSUME StartRecoveryEnds PROVE Goal
  <2>1. rec["start"].ok
    BY <1>1, <1>9 DEF StartRecoveryEnds
  <2>2. rec'["start"] = NoRecovery /\ rec'["retry"] = rec["retry"]
    BY <1>9, <2>1, RetryBecomes
  <2>3. rec'["start"].pc = "off" /\ rec'["retry"].pc = "off"
    BY <1>1, <2>2 DEF NoRecovery
  <2> QED
    BY <2>3
<1>10. ASSUME NEW n \in finishes, n.by \in Recoveries,
              Becomes(n.by, IF n.f.key \in Messages THEN "rows" ELSE "later",
                      rec[n.by].todo, rec[n.by].later, rec[n.by].ok)
       PROVE  Goal
  <2>1. rec[n.by].pc = "finish"
    BY <1>10 DEF OwnerInv, Waits
  <2>2. n.by = "start"
    BY <1>1, <1>10, <2>1, Names
  <2> QED
    BY <1>1, <1>5, <1>10, <2>1, <2>2
<1>11. ASSUME Silenced PROVE Goal
  BY <1>11 DEF Silenced, Fresh
<1> HIDE DEF Goal
<1>13. ASSUME NEW r \in Recoveries, Recovery(r) PROVE Goal
  BY <1>6, <1>7, <1>13, Names
<1>14. (Supervisor /\ Silenced) \/ RetryWakes \/ RetryEnds \/ StartRecoveryEnds => Goal
  BY <1>8, <1>9, <1>11
<1>12. Goal
  BY <1>2, <1>3, <1>4, <1>10, <1>13, <1>14, RecoverySteps
<1> QED
  BY <1>12 DEF Goal

LEMMA CalmStep ==
    ASSUME TypeOK, HandlingInv, ReadyInv, DoneInv, CalmInv, [Next]_vars
    PROVE  CalmInv'
<1>1. rec'["start"].pc # "sleep"
  <2>1. rec'["start"].pc = rec["start"].pc \/ rec'["start"].pc \in
          {"off", "read", "rows", "later", "inline", "finish"}
    <3>1. ASSUME NEW s \in Recoveries, Recovery(s)
          PROVE  \E pc \in {"rows", "later", "inline", "finish"} : Moves(s, pc)
      BY <3>1, RecoverMoves, RowMoves, SignalMoves DEF Recovery
    <3>2. ASSUME NEW s \in Recoveries, NEW pc, Moves(s, pc)
          PROVE  rec'["start"] = rec["start"] \/ rec'["start"].pc = pc
      BY <3>2, Names DEF Moves
    <3>3. RetryWakes \/ RetryEnds \/ StartRecoveryEnds
            => rec'["start"] = rec["start"] \/ rec'["start"].pc = "off"
      BY RetryBecomes DEF NoRecovery
    <3>4. ASSUME NEW n, n.by \in Recoveries,
                 Becomes(n.by, IF n.f.key \in Messages THEN "rows" ELSE "later",
                         rec[n.by].todo, rec[n.by].later, rec[n.by].ok)
          PROVE  rec'["start"] = rec["start"] \/ rec'["start"].pc \in {"rows", "later"}
      BY <3>4, Names DEF Becomes, Moves
    <3>5. Silenced => rec'["start"] = rec["start"] \/ rec'["start"].pc = "off"
      BY DEF Silenced, Fresh
    <3>6. \A t : Fresh(t, "read") => t.pc = "read"
      BY DEF Fresh
    <3> QED
      BY <3>1, <3>2, <3>3, <3>4, <3>5, <3>6, RecoverySteps
  <2> QED
    BY <2>1 DEF CalmInv
<1>2. ASSUME None({"faults"})'
      PROVE  /\ rec'["retry"].pc = "off"
             /\ rec'["start"].pc \in {"rows", "later", "inline", "finish"} => rec'["start"].ok
             /\ gate' => state' # "HANDSHAKING"
             /\ None({"aways", "senders"})' /\ gate' /\ state' = "READY" =>
                  rec'["start"].pc \notin {"read", "rows"}
  <2>1. None({"faults"}) /\ ~Fault
    BY <1>2, NoneBefore, NoFaultYet, Names
  <2>2. rec'["retry"].pc = "off"
    BY <1>2, <2>1, StartSteps DEF HandlingInv
  <2>3. rec'["start"].pc \in {"rows", "later", "inline", "finish"} => rec'["start"].ok
    BY <1>2, <2>1, StartSteps DEF HandlingInv, CalmInv
  <2>4. gate' => state' # "HANDSHAKING"
    <3> SUFFICES ASSUME gate', state' = "HANDSHAKING" PROVE FALSE
      OBVIOUS
    <3>1. PICK r \in Recoveries : GateOpens(r)
      BY <2>1, GateSteps DEF CalmInv
    <3>2. rec[r].pc = "rows" /\ state = "HANDSHAKING"
      BY <3>1 DEF GateOpens
    <3> QED
      BY <3>2, Names DEF HandlingInv, PlaceInv
  <2>5. ASSUME None({"aways", "senders"})', gate', state' = "READY"
        PROVE  rec'["start"].pc \notin {"read", "rows"}
    <3>1. None({"aways", "senders"})
      BY <2>5, NoneBefore, Names
    <3>2. CASE ~gate
      <4>1. PICK r \in Recoveries : GateOpens(r)
        BY <2>1, <2>5, <3>2, GateSteps
      <4>2. r = "start"
        BY <2>1, <4>1, Names DEF GateOpens, CalmInv
      <4>3. Moves("start", "later")
        BY <4>1, <4>2, RecoverMoves
      <4> QED
        BY <4>3 DEF Moves
    <3>3. CASE gate
      <4>1. state = "READY" /\ ~\E g \in regs : Register(g)
        BY <2>1, <2>5, <3>3, StaysReady DEF HandlingInv, CalmInv
      <4>2. rec["start"].pc \notin {"read", "rows"}
        BY <2>1, <3>1, <3>3, <4>1 DEF CalmInv
      <4>3. \A n \in finishes : n.by = "start" => n.f.key \notin Messages
        BY <3>1, Names, KeysAssumption DEF DoneInv, DoneUpdates
      <4>4. ~\E gone \in SUBSET Keys : Recover("start", gone)
        BY <4>2 DEF Recover
      <4> QED
        BY <1>2, <2>1, <4>1, <4>2, <4>3, <4>4, StartSteps DEF HandlingInv
    <3> QED
      BY <3>2, <3>3 DEF TypeOK
  <2> QED
    BY <2>2, <2>3, <2>4, <2>5
<1> QED
  BY <1>1, <1>2 DEF CalmInv

-----------------------------------------------------------------------------
(* The lanes *)

\* The reader, or a recovery with its first row, hands a frame over.
HandsOver(f) ==
    \/ Dispatch /\ f = rd.f
    \/ \E r \in Recoveries : \E u \in rec[r].todo :
         RecoverRow(r) /\ f = u.f /\ \A v \in rec[r].todo : u.at <= v.at

\* How the queues of the lanes change
LEMMA LaneSteps ==
    ASSUME TypeOK, [Next]_vars
    PROVE  \/ \A c \in Chats : lanes'[c].q = lanes[c].q
           \/ \E f \in LaneFrame : HandsOver(f) /\ state = "READY" /\ ToLane(f)
           \/ \E c \in Chats : LaneClaims(c) \/ LaneSkips(c) \/ LaneRetries(c)
           \/ \A c \in Chats : lanes'[c].q = <<>>
<1> DEFINE Same == \A c \in Chats : lanes'[c].q = lanes[c].q
           Pushed == \E f \in LaneFrame : HandsOver(f) /\ state = "READY" /\ ToLane(f)
           Popped == \E c \in Chats : LaneClaims(c) \/ LaneSkips(c) \/ LaneRetries(c)
           Emptied == \A c \in Chats : lanes'[c].q = <<>>
<1>1. ASSUME NEW c \in Chats, NEW t, t.q = lanes[c].q, lanes' = [lanes EXCEPT ![c] = t]
      PROVE  Same
  BY <1>1 DEF TypeOK
<1>2. ASSUME NEW c \in Chats, Lane(c) PROVE Popped \/ Same
  <2>1. ASSUME NEW st \in {"done", "failed"}, LaneEnds(c, st) PROVE Same
    <3> DEFINE t == [lanes[c] EXCEPT !.pc = "finish"]
    <3>1. lanes' = [lanes EXCEPT ![c] = t] /\ t.q = lanes[c].q
      BY <2>1 DEF LaneEnds, TypeOK, LaneTask
    <3> HIDE DEF t, Same
    <3> QED
      BY <1>1, <3>1
  <2> QED
    BY <1>2, <2>1 DEF Lane
<1>3. ASSUME NEW r \in Recoveries, Recovery(r) PROVE Pushed \/ Same
  <2>1. ASSUME RecoverRow(r) PROVE Pushed \/ Same
    <3>1. PICK u \in rec[r].todo :
            /\ u.f \in Frame /\ \A v \in rec[r].todo : u.at <= v.at
            /\ \/ lanes' = lanes
               \/ u.f.key \in Messages /\ state = "READY" /\ ToLane(u.f)
      BY <2>1, RowBecomes
    <3>2. HandsOver(u.f)
      BY <2>1, <3>1 DEF HandsOver
    <3> QED
      BY <3>1, <3>2, LaneFrameIsFrame
  <2>2. ASSUME lanes' = lanes PROVE Same
    BY <2>2
  <2> QED
    BY <1>3, <2>1, <2>2 DEF Recovery, Recover, RecoverFails, GateOpens, RecoverSignal,
                            RecoveredSignalEnds
<1>4. ASSUME Reader PROVE Pushed \/ Same
  <2>1. \/ lanes' = lanes
        \/ /\ Dispatch /\ rd.f \in Frame /\ rd.f.key \in Messages /\ state = "READY"
           /\ ToLane(rd.f)
    BY <1>4 DEF Reader, ReadMark, ReadFrame, ReadGap, ReadEnds, UpsertOk, UpsertRefused,
                GateTimesOut, Dispatch, GateAbandoned, InlineEnds, Ack, TypeOK
  <2> QED
    BY <2>1, LaneFrameIsFrame DEF HandsOver
<1>5. ASSUME NEW n \in finishes, NEW ok \in BOOLEAN, FinishCommits(n, ok) PROVE Same
  <2>1. CASE n.by \in Chats
    <3> DEFINE t == [lanes[n.by] EXCEPT !.pc = "idle", !.f = NothingRead]
    <3>1. lanes' = [lanes EXCEPT ![n.by] = t]
      BY <1>5, <2>1 DEF FinishCommits
    <3>2. t.q = lanes[n.by].q
      BY <2>1 DEF TypeOK, LaneTask
    <3> HIDE DEF t
    <3> QED
      BY <1>1, <2>1, <3>1, <3>2
  <2>2. CASE n.by \notin Chats
    BY <1>5, <2>2 DEF FinishCommits
  <2> QED
    BY <2>1, <2>2
<1>6. ASSUME Supervisor PROVE Same \/ Emptied
  BY <1>6 DEF Supervisor, Flushed, Teardown, Away, AwayCloses, Resume, StopBegins, StopEnds,
              Crash, Reset, IdleLane
<1>7. ASSUME Handshake PROVE Same
  BY <1>7 DEF Handshake, Connect, HelloOk, Register, RegisterCancelled, RegisterFails
<1>8. ASSUME NEW k, NEW p, Push(k, p) PROVE Same
  BY <1>8 DEF Push
<1>9. ASSUME NEW granted, SenderConnects(granted) PROVE Same
  BY <1>9 DEF SenderConnects
<1>10. ASSUME Drop \/ RetryWakes \/ StartRecoveryEnds \/ RetryEnds \/ SenderRecovers
              \/ UNCHANGED vars
       PROVE  Same
  BY <1>10 DEF Drop, RetryWakes, StartRecoveryEnds, RetryEnds, SenderRecovers
<1> HIDE DEF Same, Pushed, Popped, Emptied
<1>11. Same \/ Pushed \/ Popped \/ Emptied
  BY <1>2, <1>3, <1>4, <1>5, <1>6, <1>7, <1>8, <1>9, <1>10 DEF Next
<1> QED
  BY <1>11 DEF Same, Pushed, Popped, Emptied

\* A lane loses its first frame.
LEMMA LanePops ==
    ASSUME TypeOK, NEW c \in Chats, LaneClaims(c) \/ LaneSkips(c) \/ LaneRetries(c)
    PROVE  /\ 1 \in 1 .. Len(lanes[c].q) /\ Head(lanes[c].q) = lanes[c].q[1]
           /\ Len(lanes[c].q) \in Nat /\ Len(lanes'[c].q) = Len(lanes[c].q) - 1
           /\ \A i \in 1 .. Len(lanes'[c].q) :
                i + 1 \in 1 .. Len(lanes[c].q) /\ lanes'[c].q[i] = lanes[c].q[i + 1]
           /\ \A d \in Chats : d # c => lanes'[d] = lanes[d]
<1> DEFINE q == lanes[c].q
<1>1. q \in Seq(LaneFrame) /\ lanes[c] \in LaneTask
  BY DEF TypeOK, LaneTask
<1>2. q # <<>>
  BY DEF LaneClaims, LaneSkips, LaneRetries, Waiting
<1>3. lanes'[c].q = Tail(q) /\ \A d \in Chats : d # c => lanes'[d] = lanes[d]
  <2>1. ASSUME NEW pc, Pop(c, pc)
        PROVE  lanes'[c].q = Tail(q) /\ \A d \in Chats : d # c => lanes'[d] = lanes[d]
    BY <2>1 DEF Pop, TypeOK
  <2>2. CASE LaneRetries(c)
    <3> DEFINE t == [lanes[c] EXCEPT !.q = Tail(q)]
    <3>1. lanes' = [lanes EXCEPT ![c] = t]
      BY <2>2 DEF LaneRetries
    <3>2. t.q = Tail(q)
      BY <1>1 DEF LaneTask
    <3> HIDE DEF t, q
    <3> QED
      BY <3>1, <3>2 DEF TypeOK
  <2> QED
    BY <2>1, <2>2 DEF LaneClaims, LaneSkips
<1> HIDE DEF q
<1>4. /\ Head(q) = q[1] /\ Len(q) \in Nat /\ Len(q) >= 1
      /\ Len(Tail(q)) = Len(q) - 1
      /\ \A i \in 1 .. Len(Tail(q)) : Tail(q)[i] = q[i + 1]
  BY <1>1, <1>2
<1>5. \A i \in 1 .. Len(Tail(q)) : i + 1 \in 1 .. Len(q)
  BY <1>4
<1>6. 1 \in 1 .. Len(q)
  BY <1>4
<1> QED
  BY <1>3, <1>4, <1>5, <1>6 DEF q

\* A lane gets a frame.
LEMMA LanePushes ==
    ASSUME TypeOK, NEW f \in LaneFrame, ToLane(f), NEW c, c = ChatOf[f.key]
    PROVE  /\ c \in Chats /\ Len(lanes[c].q) \in Nat
           /\ Len(lanes'[c].q) = Len(lanes[c].q) + 1
           /\ lanes'[c].q[Len(lanes[c].q) + 1] = f
           /\ \A i \in 1 .. Len(lanes[c].q) : lanes'[c].q[i] = lanes[c].q[i]
           /\ \A d \in Chats : d # c => lanes'[d].q = lanes[d].q
<1>1. f \in Frame /\ f.key \in Messages
  BY LaneFrameIsFrame DEF LaneFrame
<1>2. c \in Chats /\ lanes[c].q \in Seq(LaneFrame)
  BY <1>1, ChatsAssumption DEF TypeOK, LaneTask
<1>3. \A d \in Chats : lanes'[d].q = IF d = c THEN Append(lanes[d].q, f) ELSE lanes[d].q
  BY <1>1, ToLaneQueues
<1>4. lanes'[c].q = Append(lanes[c].q, f)
  BY <1>2, <1>3
<1>5. \A d \in Chats : d # c => lanes'[d].q = lanes[d].q
  BY <1>3
<1> DEFINE q == lanes[c].q
<1>6. /\ Len(q) \in Nat /\ Len(Append(q, f)) = Len(q) + 1 /\ Append(q, f)[Len(q) + 1] = f
      /\ \A i \in 1 .. Len(q) : Append(q, f)[i] = q[i]
  BY <1>2
<1> QED
  BY <1>2, <1>4, <1>5, <1>6

\* A lane holds messages of its own conversation.
LaneChats == \A c \in Chats : \A i \in 1 .. Len(lanes[c].q) : ChatOf[lanes[c].q[i].key] = c

LEMMA LaneChatsStep ==
    ASSUME TypeOK, LaneChats, [Next]_vars
    PROVE  LaneChats'
<1> SUFFICES ASSUME NEW c \in Chats, NEW i \in 1 .. Len(lanes'[c].q)
             PROVE  ChatOf[lanes'[c].q[i].key] = c
  BY DEF LaneChats
<1>1. CASE lanes'[c].q = lanes[c].q
  BY <1>1 DEF LaneChats
<1>2. ASSUME NEW f \in LaneFrame, ToLane(f) PROVE ChatOf[lanes'[c].q[i].key] = c
  <2>1. CASE c = ChatOf[f.key]
    <3>1. \/ i \in 1 .. Len(lanes[c].q) /\ lanes'[c].q[i] = lanes[c].q[i]
          \/ lanes'[c].q[i] = f
      BY <1>2, <2>1, LanePushes
    <3> QED
      BY <2>1, <3>1 DEF LaneChats
  <2>2. CASE c # ChatOf[f.key]
    BY <1>1, <1>2, <2>2, LanePushes
  <2> QED
    BY <2>1, <2>2
<1>3. ASSUME NEW d \in Chats, LaneClaims(d) \/ LaneSkips(d) \/ LaneRetries(d)
      PROVE  ChatOf[lanes'[c].q[i].key] = c
  <2>1. CASE c = d
    <3>1. i + 1 \in 1 .. Len(lanes[c].q) /\ lanes'[c].q[i] = lanes[c].q[i + 1]
      BY <1>3, <2>1, LanePops
    <3> QED
      BY <3>1 DEF LaneChats
  <2>2. CASE c # d
    BY <1>1, <1>3, <2>2, LanePops
  <2> QED
    BY <2>1, <2>2
<1>4. CASE lanes'[c].q = <<>>
  BY <1>4
<1> QED
  BY <1>1, <1>2, <1>3, <1>4, LaneSteps

-----------------------------------------------------------------------------
(* Order in the lanes and among the rows *)

\* Nothing failed, READY was not left and no standalone sender ran.
Calm == None({"faults", "aways", "senders"})

LEMMA CalmBefore ==
    /\ Calm => None({"faults"}) /\ None({"aways", "senders"}) /\ None({"senders"})
    /\ TypeOK /\ [Next]_vars /\ Calm' => Calm /\ None({"faults"})' /\ ~Fault
<1>1. Calm => None({"faults"}) /\ None({"aways", "senders"}) /\ None({"senders"})
  BY DEF Calm, None
<1>2. Calm' => None({"faults"})'
  BY DEF Calm, None
<1>3. ASSUME TypeOK, [Next]_vars, Calm' PROVE Calm
  <2>1. {"faults", "aways", "senders"} \in SUBSET Bounded
    BY Names
  <2>2. None({"faults", "aways", "senders"})'
    BY <1>3 DEF Calm
  <2>3. None({"faults", "aways", "senders"})
    BY <1>3, <2>1, <2>2, NoneBefore
  <2> QED
    BY <2>3 DEF Calm
<1> QED
  BY <1>1, <1>2, <1>3, NoFaultYet

\* In a lane, what was sent before a message was claimed or stands before it.
LaneOrder ==
    Calm => \A c \in Chats : \A i \in 1 .. Len(lanes[c].q), n \in Messages :
              Before(n, lanes[c].q[i].key) =>
                n \in claimed \/ \E j \in 1 .. i - 1 : lanes[c].q[j].key = n

\* What was sent before a row that is to be dispatched was claimed, or waits in
\* a lane or in an earlier row.
RowsOrder ==
    Calm /\ state = "READY" /\ rec["start"].pc = "rows" =>
      \A t \in rec["start"].todo, n \in Messages :
        Before(n, t.f.key) =>
          \/ n \in claimed \/ Queued(n)
          \/ \E u \in rec["start"].todo : u.f.key = n /\ u.at < t.at

LEMMA HandedStored ==
    ASSUME TasksHoldStored, NEW f, HandsOver(f)
    PROVE  f.key \in StoredKeys
<1>1. CASE Dispatch /\ f = rd.f
  BY <1>1 DEF Dispatch, TasksHoldStored, ReaderWithin
<1>2. CASE \E r \in Recoveries : \E u \in rec[r].todo : f = u.f
  BY <1>2 DEF TasksHoldStored, RecoveryWithin
<1> QED
  BY <1>1, <1>2 DEF HandsOver

\* A stored message was claimed, or its row is pending.
LEMMA StoredClaimed ==
    ASSUME TypeOK, DoneInv, Calm, NEW n \in Messages, n \in StoredKeys, n \notin claimed
    PROVE  rows[n].st = "pending"
<1>1. DoneRows /\ n \in Keys
  BY CalmBefore DEF DoneInv, Keys
<1>2. rows[n].st \in Status
  BY <1>1 DEF TypeOK, Row
<1> QED
  BY <1>1, <1>2 DEF DoneRows, StoredKeys, Stored, Status

\* The reader hands a frame over after what was sent before it.
LEMMA ReaderInOrder ==
    ASSUME TypeOK, TasksHoldStored, StoredOrder, HandlingInv, DoneInv, UpInv, CalmInv, Calm,
           Dispatch, state = "READY", NEW n \in Messages, Before(n, rd.f.key)
    PROVE  n \in claimed \/ Queued(n)
<1> SUFFICES ASSUME n \notin claimed PROVE Queued(n)
  OBVIOUS
<1>1. rd.f.key \in StoredKeys /\ rd.pc = "gate" /\ gate
  BY DEF Dispatch, TasksHoldStored, ReaderWithin
<1>2. n \in StoredKeys
  BY <1>1 DEF StoredOrder
<1>3. rows[n].st = "pending" /\ n \in Keys
  BY <1>2, StoredClaimed DEF Keys
<1>4. Owned(n)
  BY <1>1, <1>3, CalmBefore DEF UpInv, AccountInv, Live
<1>5. n \notin seen /\ rd.f.key # n
  BY KeysAssumption DEF TypeOK, Before
<1>6. ~Holds(rec["retry"], n)
  BY CalmBefore DEF CalmInv, Holds
<1>7. ~Holds(rec["start"], n)
  <2>1. rec["start"].pc \in {"off", "later", "inline", "finish"}
    <3>1. rec["start"].pc \notin {"sleep", "read", "rows"}
      BY <1>1, CalmBefore DEF CalmInv
    <3>2. rec["start"] \in RecoveryTask
      BY Names DEF TypeOK
    <3> QED
      BY <3>1, <3>2 DEF RecoveryTask
  <2>2. rec["start"].pc # "off" => rec["start"].ok
    BY <2>1, CalmBefore DEF CalmInv
  <2>3. ~rec["start"].again /\ rec["start"].todo = {}
    BY <2>1, Names DEF UpInv, FreshInv, InHandInv
  <2>4. \A i \in 1 .. Len(rec["start"].later) : rec["start"].later[i].key # n
    BY Names, KeysAssumption DEF HandlingInv, DeferredSignals
  <2> QED
    BY <2>2, <2>3, <2>4 DEF Holds
<1> QED
  BY <1>4, <1>5, <1>6, <1>7, Names DEF Owned

LEMMA HandsInOrder ==
    ASSUME TypeOK, TasksHoldStored, StoredOrder, HandlingInv, DoneInv, UpInv, CalmInv,
           RowsOrder, Calm, NEW f, HandsOver(f), state = "READY",
           NEW n \in Messages, Before(n, f.key)
    PROVE  n \in claimed \/ Queued(n)
<1>1. CASE Dispatch /\ f = rd.f
  BY <1>1, ReaderInOrder
<1>2. ASSUME NEW r \in Recoveries, NEW u \in rec[r].todo, RecoverRow(r), f = u.f,
             \A v \in rec[r].todo : u.at <= v.at
      PROVE  n \in claimed \/ Queued(n)
  <2>1. rec[r].pc = "rows" /\ r = "start"
    BY <1>2, CalmBefore, Names DEF RecoverRow, CalmInv
  <2>2. \A v \in rec[r].todo : v.at \in Nat
    BY DEF TypeOK, RecoveryTask
  <2>3. \A v \in rec[r].todo : ~(v.at < u.at)
    BY <1>2, <2>2
  <2> QED
    BY <1>2, <2>1, <2>3 DEF RowsOrder
<1> QED
  BY <1>1, <1>2 DEF HandsOver

LEMMA LaneOrderStep ==
    ASSUME TypeOK, TasksHoldStored, SentInv, StoredOrder, HandlingInv, DoneInv, UpInv, CalmInv,
           RowsOrder, LaneChats, LaneOrder, [Next]_vars
    PROVE  LaneOrder'
<1> SUFFICES ASSUME Calm', NEW c \in Chats, NEW i \in 1 .. Len(lanes'[c].q),
                    NEW n \in Messages, NEW m, m = lanes'[c].q[i].key, Before(n, m)'
             PROVE  n \in claimed' \/ \E j \in 1 .. i - 1 : lanes'[c].q[j].key = n
  BY DEF LaneOrder, Before
<1>1. Calm /\ ~Fault /\ claimed \subseteq claimed'
  BY CalmBefore, ClaimedGrows
<1>2. Len(lanes[c].q) \in Nat
  BY DEF TypeOK, LaneTask
<1>3. ASSUME NEW x \in 1 .. Len(lanes[c].q), m = lanes[c].q[x].key
      PROVE  n \in claimed \/ \E j \in 1 .. x - 1 : lanes[c].q[j].key = n
  <2>1. m \in KeysSent
    BY <1>3 DEF TasksHoldStored, LaneWithin, SentInv
  <2>2. Before(n, m)
    BY <2>1, BeforeKept
  <2> QED
    BY <1>1, <1>3, <2>2 DEF LaneOrder
<1>4. CASE lanes'[c].q = lanes[c].q
  BY <1>1, <1>3, <1>4
<1>5. ASSUME NEW f \in LaneFrame, HandsOver(f), state = "READY", ToLane(f)
      PROVE  n \in claimed' \/ \E j \in 1 .. i - 1 : lanes'[c].q[j].key = n
  <2>1. CASE c # ChatOf[f.key]
    BY <1>4, <1>5, <2>1, LanePushes
  <2>2. CASE c = ChatOf[f.key]
    <3>1. /\ Len(lanes'[c].q) = Len(lanes[c].q) + 1
          /\ lanes'[c].q[Len(lanes[c].q) + 1] = f
          /\ \A x \in 1 .. Len(lanes[c].q) : lanes'[c].q[x] = lanes[c].q[x]
      BY <1>5, <2>2, LanePushes
    <3>2. CASE i \in 1 .. Len(lanes[c].q)
      <4>1. n \in claimed \/ \E j \in 1 .. i - 1 : lanes[c].q[j].key = n
        BY <1>3, <3>1, <3>2
      <4>2. \A j \in 1 .. i - 1 : j \in 1 .. Len(lanes[c].q)
        BY <1>2, <3>2
      <4> QED
        BY <1>1, <3>1, <4>1, <4>2
    <3>3. CASE i = Len(lanes[c].q) + 1
      <4>1. m = f.key /\ m \in StoredKeys
        BY <1>5, <3>1, <3>3, HandedStored
      <4>2. Before(n, m)
        BY <4>1, BeforeKept DEF SentInv
      <4>3. n \in claimed \/ Queued(n)
        BY <1>1, <1>5, <4>1, <4>2, HandsInOrder
      <4>4. ChatOf[n] = c
        BY <2>2, <4>1, <4>2 DEF Before
      <4>5. ASSUME Queued(n) PROVE \E j \in 1 .. i - 1 : lanes'[c].q[j].key = n
        <5>1. PICK d \in Chats : \E x \in 1 .. Len(lanes[d].q) : lanes[d].q[x].key = n
          BY <4>5 DEF Queued
        <5>2. d = c
          BY <4>4, <5>1 DEF LaneChats
        <5>3. PICK x \in 1 .. Len(lanes[c].q) : lanes[c].q[x].key = n
          BY <5>1, <5>2
        <5>4. x \in 1 .. i - 1
          BY <1>2, <3>3
        <5> QED
          BY <3>1, <5>3, <5>4
      <4> QED
        BY <1>1, <4>3, <4>5
    <3> QED
      BY <1>2, <3>1, <3>2, <3>3
  <2> QED
    BY <2>1, <2>2
<1>6. ASSUME NEW d \in Chats, LaneClaims(d) \/ LaneSkips(d) \/ LaneRetries(d)
      PROVE  n \in claimed' \/ \E j \in 1 .. i - 1 : lanes'[c].q[j].key = n
  <2>1. CASE c # d
    BY <1>4, <1>6, <2>1, LanePops
  <2>2. CASE c = d
    <3>1. /\ Head(lanes[c].q) = lanes[c].q[1] /\ i + 1 \in 1 .. Len(lanes[c].q)
          /\ Len(lanes'[c].q) = Len(lanes[c].q) - 1
          /\ \A x \in 1 .. Len(lanes'[c].q) : lanes'[c].q[x] = lanes[c].q[x + 1]
      BY <1>6, <2>2, LanePops
    <3>2. m = lanes[c].q[i + 1].key
      BY <3>1
    <3>3. n \in claimed \/ \E j \in 1 .. (i + 1) - 1 : lanes[c].q[j].key = n
      BY <1>3, <3>1, <3>2
    <3>4. lanes[c].q[1].key \in claimed'
      BY <1>1, <1>6, <2>2, <3>1 DEF LaneClaims, LaneSkips, LaneRetries
    <3>5. ASSUME NEW j \in 1 .. (i + 1) - 1, lanes[c].q[j].key = n, j # 1
          PROVE  \E x \in 1 .. i - 1 : lanes'[c].q[x].key = n
      <4>1. j - 1 \in 1 .. i - 1 /\ j - 1 \in 1 .. Len(lanes'[c].q) /\ (j - 1) + 1 = j
        BY <1>2, <3>1, <3>5
      <4>2. lanes'[c].q[j - 1] = lanes[c].q[j]
        BY <3>1, <4>1
      <4> QED
        BY <3>5, <4>1, <4>2
    <3> QED
      BY <1>1, <3>3, <3>4, <3>5
  <2> QED
    BY <2>1, <2>2
<1>7. CASE lanes'[c].q = <<>>
  BY <1>7
<1> QED
  BY <1>4, <1>5, <1>6, <1>7, LaneSteps

\* The row of a message among the rows that a recovery reads
LEMMA PendingRowsHave ==
    /\ \A t \in PendingRows : /\ t.f.key \in Keys /\ rows[t.f.key].st = "pending"
                              /\ t.at = rows[t.f.key].at
    /\ \A k \in Keys : rows[k].st = "pending" =>
         \E u \in PendingRows : u.f.key = k /\ u.at = rows[k].at
<1>1. ASSUME NEW k \in Keys, rows[k].st = "pending"
      PROVE  \E u \in PendingRows : u.f.key = k /\ u.at = rows[k].at
  <2> DEFINE f == [key |-> k, gen |-> rows[k].gen, dseq |-> rows[k].dseq]
             u == [at |-> rows[k].at, f |-> f]
  <2>1. u \in PendingRows
    BY <1>1 DEF PendingRows
  <2>2. u.f = f /\ u.at = rows[k].at /\ f.key = k
    OBVIOUS
  <2> HIDE DEF u, f
  <2> QED
    BY <2>1, <2>2
<1>2. ASSUME NEW t \in PendingRows
      PROVE  t.f.key \in Keys /\ rows[t.f.key].st = "pending" /\ t.at = rows[t.f.key].at
  BY <1>2 DEF PendingRows
<1> QED
  BY <1>1, <1>2

LEMMA RowsOrderStep ==
    ASSUME TypeOK, DurabilityInv, TasksHoldStored, SentInv, StoredOrder, AtOrder, HandlingInv,
           ClaimInv, DoneInv, UpInv, CalmInv, RowsOrder, [Next]_vars
    PROVE  RowsOrder'
<1> SUFFICES ASSUME Calm', state' = "READY", rec'["start"].pc = "rows",
                    NEW t \in rec'["start"].todo, NEW n \in Messages, NEW m, m = t.f.key,
                    Before(n, m)'
             PROVE  \/ n \in claimed' \/ Queued(n)'
                    \/ \E u \in rec'["start"].todo : u.f.key = n /\ u.at < t.at
  BY DEF RowsOrder, Before
<1> DEFINE Goal == \/ n \in claimed' \/ Queued(n)'
                   \/ \E u \in rec'["start"].todo : u.f.key = n /\ u.at < t.at
<1>1. /\ Calm /\ ~Fault /\ claimed \subseteq claimed' /\ n \in Keys /\ m \in Keys
      /\ None({"faults"}) /\ None({"faults"})' /\ n \notin Signals
  BY CalmBefore, ClaimedGrows, KeysAssumption DEF Keys, Before
<1>2. ~Reset
  BY DEF Reset
<1>3. n \in claimed \/ Queued(n) => Goal
  <2>1. Queued(n) => Queued(n)' \/ n \in claimed' \/ \E c \in Chats : LaneRetries(c)
    BY <1>2, QueuedStep
  <2>2. ~ \E c \in Chats : LaneRetries(c)
    BY <1>1 DEF LaneRetries
  <2> QED
    BY <1>1, <2>1, <2>2
<1>4. state = "READY"
  <2>1. ASSUME NEW g \in regs, Register(g), rd.pc = "register", gen = g PROVE FALSE
    <3> DEFINE s == [NoRecovery EXCEPT !.pc = "read"]
    <3>1. rec' = [rec EXCEPT !["start"] = s]
      BY <2>1 DEF Register
    <3>2. s.pc = "read"
      BY DEF NoRecovery
    <3> HIDE DEF s
    <3>3. rec'["start"] = s
      BY <3>1, Names DEF TypeOK
    <3> QED
      BY <3>2, <3>3
  <2> QED
    BY <2>1, StaysReady DEF HandlingInv, UpInv
<1>5. ASSUME m \in StoredKeys PROVE Before(n, m)
  BY <1>5, BeforeKept DEF SentInv
<1>6. ASSUME t \in rec["start"].todo, rec["start"].pc = "rows"
      PROVE  \/ n \in claimed \/ Queued(n)
             \/ \E u \in rec["start"].todo : u.f.key = n /\ u.at < t.at
  <2>1. m \in StoredKeys
    BY <1>6, Names DEF TasksHoldStored, RecoveryWithin
  <2> QED
    BY <1>1, <1>4, <1>5, <1>6, <2>1 DEF RowsOrder
<1>7. CASE rec'["start"] = rec["start"]
  BY <1>3, <1>6, <1>7
<1>8. ASSUME NEW gone \in SUBSET Keys, Recover("start", gone) PROVE Goal
  <2>1. rec'["start"].todo = PendingRows
    BY <1>8, RecoverBecomes, Names DEF Becomes, Moves
  <2>2. rows[m].st = "pending" /\ t.at = rows[m].at
    BY <2>1, PendingRowsHave
  <2>3. m \in StoredKeys
    BY <1>1, <2>2 DEF StoredKeys, Stored
  <2>4. Before(n, m) /\ n \in StoredKeys
    BY <1>5, <2>3 DEF StoredOrder
  <2>5. CASE n \notin claimed
    <3>1. rows[n].st = "pending"
      BY <1>1, <2>4, <2>5, StoredClaimed
    <3>2. rows[n].at < rows[m].at
      BY <1>1, <2>2, <2>4, <2>5, <3>1, CalmBefore DEF AtOrder, Before
    <3>3. \E u \in PendingRows : u.f.key = n /\ u.at = rows[n].at
      BY <1>1, <3>1, PendingRowsHave
    <3> QED
      BY <2>1, <2>2, <3>2, <3>3
  <2> QED
    BY <1>3, <2>5
<1>9. ASSUME RecoverRow("start"), rec["start"].pc = "rows" PROVE Goal
  <2>1. PICK u \in rec["start"].todo :
          /\ u.f \in Frame
          /\ rec'["start"].todo = rec["start"].todo \ {u}
          /\ \/ u.f.key \in InFlight
             \/ u.f.key \in Signals
             \/ u.f.key \in Messages /\ ToLane(u.f)
    BY <1>4, <1>9, RowBecomes, Names DEF Becomes, Moves
  <2>2. \/ n \in claimed \/ Queued(n)
        \/ \E v \in rec["start"].todo : v.f.key = n /\ v.at < t.at
    BY <1>6, <1>9, <2>1
  <2>3. ASSUME u.f.key = n PROVE Goal
    <3>1. CASE n \in InFlight
      <4>1. n \in claimed \cup seen \/ Queued(n)
        BY <1>4, <3>1, InFlightOwned DEF HandlingInv, UpInv
      <4> QED
        BY <1>1, <1>3, <4>1 DEF TypeOK
    <3>2. CASE u.f.key \in Messages /\ ToLane(u.f)
      BY <2>1, <2>3, <3>2, ToLaneQueues
    <3> QED
      BY <1>1, <2>1, <2>3, <3>1, <3>2
  <2> QED
    BY <1>3, <2>1, <2>2, <2>3
<1>10. ASSUME NEW f \in finishes, f.by = "start" PROVE f.f.key \notin Messages
  BY <1>1, <1>10, CalmBefore, KeysAssumption, Names DEF DoneInv, DoneUpdates
<1> HIDE DEF Goal
<1>11. Goal
  BY <1>1, <1>8, <1>9, <1>7, <1>10, StartSteps DEF HandlingInv, Goal
<1> QED
  BY <1>11 DEF Goal

\* The turns that began are those of the claimed messages, each once; as long as
\* nothing failed, what was sent before one of them began before it.
TurnsInv ==
    /\ claimed = {hist.turns[i] : i \in 1 .. Len(hist.turns)}
    /\ \A i, j \in 1 .. Len(hist.turns) : i < j => hist.turns[i] # hist.turns[j]
    /\ Calm => \A j \in 1 .. Len(hist.turns), n \in Messages :
                 Before(n, hist.turns[j]) => \E i \in 1 .. j - 1 : hist.turns[i] = n

\* A lane claims the message at its head.
LEMMA ClaimsHead ==
    ASSUME TypeOK, NEW c \in Chats, LaneClaims(c)
    PROVE  \E h \in Messages :
             /\ h = lanes[c].q[1].key /\ 1 \in 1 .. Len(lanes[c].q)
             /\ h \notin claimed /\ claimed' = claimed \cup {h}
             /\ hist'.turns = Append(hist.turns, h)
<1>1. 1 \in 1 .. Len(lanes[c].q) /\ Head(lanes[c].q) = lanes[c].q[1]
  BY LanePops
<1>2. lanes[c].q \in Seq(LaneFrame)
  BY DEF TypeOK, LaneTask
<1>3. lanes[c].q[1].key \in Messages
  <2>1. lanes[c].q[1] \in LaneFrame
    BY <1>1, <1>2
  <2> QED
    BY <2>1 DEF LaneFrame
<1> DEFINE h == Head(lanes[c].q).key
<1>4. hist'.turns = Append(hist.turns, h)
  BY DEF LaneClaims, TypeOK, History
<1>5. h \notin claimed /\ claimed' = claimed \cup {h}
  BY DEF LaneClaims
<1> QED
  BY <1>1, <1>3, <1>4, <1>5

LEMMA TurnsStep ==
    ASSUME TypeOK, TasksHoldStored, SentInv, LaneOrder, TurnsInv, [Next]_vars
    PROVE  TurnsInv'
<1> DEFINE s == hist.turns
           t == hist'.turns
           Claims(c, h) == /\ h = lanes[c].q[1].key /\ 1 \in 1 .. Len(lanes[c].q)
                           /\ h \notin claimed /\ claimed' = claimed \cup {h}
                           /\ t = Append(s, h)
<1>1. s \in Seq(Messages) /\ Len(s) \in Nat /\ claimed = {s[i] : i \in 1 .. Len(s)}
  BY DEF TypeOK, History, TurnsInv
<1>2. \/ claimed' = claimed /\ t = s
      \/ \E c \in Chats : \E h \in Messages : Claims(c, h)
  BY ClaimedByLanes, ClaimsHead
<1>3. \A h : t = Append(s, h) =>
        /\ Len(t) = Len(s) + 1 /\ t[Len(s) + 1] = h
        /\ \A i \in 1 .. Len(s) : t[i] = s[i]
        /\ 1 .. Len(t) = 1 .. Len(s) \cup {Len(s) + 1}
  <2>1. ASSUME NEW h, t = Append(s, h)
        PROVE  /\ Len(t) = Len(s) + 1 /\ t[Len(s) + 1] = h
               /\ \A i \in 1 .. Len(s) : t[i] = s[i]
    BY <1>1, <2>1
  <2>2. ASSUME NEW h, t = Append(s, h) PROVE 1 .. Len(t) = 1 .. Len(s) \cup {Len(s) + 1}
    <3>1. Len(t) = Len(s) + 1
      BY <2>1, <2>2
    <3> HIDE DEF s, t
    <3> QED
      BY <1>1, <3>1
  <2> QED
    BY <2>1, <2>2
<1>4. \A i, j \in 1 .. Len(s) : i < j => s[i] # s[j]
  BY DEF TurnsInv
<1>5. claimed' = {t[i] : i \in 1 .. Len(t)}
  <2>1. CASE claimed' = claimed /\ t = s
    BY <1>1, <2>1
  <2>2. ASSUME NEW c \in Chats, NEW h \in Messages, Claims(c, h)
        PROVE  claimed' = {t[i] : i \in 1 .. Len(t)}
    <3> HIDE DEF s, t
    <3>1. \A i \in 1 .. Len(t) : t[i] \in claimed'
      BY <1>1, <1>3, <2>2
    <3>2. \A k \in claimed' : \E i \in 1 .. Len(t) : t[i] = k
      BY <1>1, <1>3, <2>2
    <3> QED
      BY <3>1, <3>2
  <2> HIDE DEF s, t, Claims
  <2> QED
    BY <1>2, <2>1, <2>2
<1>6. \A i, j \in 1 .. Len(t) : i < j => t[i] # t[j]
  <2>1. CASE claimed' = claimed /\ t = s
    BY <1>4, <2>1
  <2>2. ASSUME NEW c \in Chats, NEW h \in Messages, Claims(c, h)
        PROVE  \A i, j \in 1 .. Len(t) : i < j => t[i] # t[j]
    <3> HIDE DEF s, t
    <3> SUFFICES ASSUME NEW i \in 1 .. Len(t), NEW j \in 1 .. Len(t), i < j PROVE t[i] # t[j]
      OBVIOUS
    <3>1. i \in 1 .. Len(s) /\ t[i] = s[i] /\ s[i] \in claimed
      BY <1>1, <1>3, <2>2
    <3>2. j \in 1 .. Len(s) \/ t[j] = h
      BY <1>3, <2>2
    <3> QED
      BY <1>3, <1>4, <2>2, <3>1, <3>2
  <2> HIDE DEF s, t, Claims
  <2> QED
    BY <1>2, <2>1, <2>2
<1>7. ASSUME Calm', NEW j \in 1 .. Len(t), NEW n \in Messages, NEW m, m = t[j], Before(n, m)'
      PROVE  \E i \in 1 .. j - 1 : t[i] = n
  <2>1. Calm
    BY <1>7, CalmBefore
  <2>2. ASSUME j \in 1 .. Len(s), m = s[j] PROVE \E i \in 1 .. j - 1 : s[i] = n
    <3>1. m \in KeysSent
      BY <1>1, <2>2 DEF SentInv
    <3>2. Before(n, m)
      BY <1>7, <3>1, BeforeKept
    <3> QED
      BY <2>1, <2>2, <3>2 DEF TurnsInv
  <2>3. CASE claimed' = claimed /\ t = s
    BY <1>7, <2>2, <2>3
  <2>4. ASSUME NEW c \in Chats, NEW h \in Messages, Claims(c, h)
        PROVE  \E i \in 1 .. j - 1 : t[i] = n
    <3>1. CASE j \in 1 .. Len(s)
      <4>1. \E i \in 1 .. j - 1 : s[i] = n
        BY <1>3, <1>7, <2>2, <2>4, <3>1
      <4>2. \A i \in 1 .. j - 1 : i \in 1 .. Len(s)
        BY <1>1, <3>1
      <4> QED
        BY <1>3, <2>4, <4>1, <4>2
    <3>2. CASE j = Len(s) + 1
      <4>1. m = h
        BY <1>3, <1>7, <2>4, <3>2
      <4>2. h \in KeysSent
        BY <2>4 DEF TasksHoldStored, LaneWithin, SentInv
      <4>3. Before(n, h)
        BY <1>7, <4>1, <4>2, BeforeKept
      <4>4. n \in claimed \/ \E i \in 1 .. 1 - 1 : lanes[c].q[i].key = n
        BY <2>1, <2>4, <4>3 DEF LaneOrder
      <4>5. n \in claimed
        BY <4>4
      <4>6. PICK i \in 1 .. Len(s) : s[i] = n
        BY <1>1, <4>5
      <4>7. t[i] = n /\ i \in 1 .. j - 1
        <5> HIDE DEF s, t
        <5> QED
          BY <1>1, <1>3, <2>4, <3>2, <4>6
      <4> QED
        BY <4>7
    <3> QED
      BY <1>3, <1>7, <2>4, <3>1, <3>2
  <2> HIDE DEF s, t, Claims
  <2> QED
    BY <1>2, <2>3, <2>4
<1> QED
  BY <1>5, <1>6, <1>7 DEF TurnsInv, Before

\* The turns of one conversation begin in the order of sending.
LEMMA TurnsFollow ==
    ASSUME TypeOK, SentInv, TurnsInv, Calm
    PROVE  TurnsInOrder
<1> DEFINE s == hist.turns
           q == hist.sent
<1> SUFFICES ASSUME NEW i \in 1 .. Len(s), NEW j \in 1 .. Len(s), i < j,
                    ChatOf[s[i]] = ChatOf[s[j]]
             PROVE  \E a, b \in 1 .. Len(q) : a < b /\ q[a] = s[i] /\ q[b] = s[j]
  BY DEF TurnsInOrder
<1>1. s[i] \in claimed /\ s[j] \in claimed /\ s[i] # s[j] /\ claimed \subseteq Messages
  BY DEF TurnsInv, TypeOK
<1>2. PICK a, b \in 1 .. Len(q) : q[a] = s[i] /\ q[b] = s[j]
  BY <1>1 DEF SentInv, KeysSent
<1>3. Len(q) \in Nat /\ Len(s) \in Nat
  BY DEF TypeOK, History
<1>4. ASSUME b < a PROVE FALSE
  <2>1. Before(s[j], s[i])
    BY <1>1, <1>2, <1>4 DEF Before
  <2>2. PICK x \in 1 .. i - 1 : s[x] = s[j]
    BY <1>1, <2>1 DEF TurnsInv
  <2>3. x \in 1 .. Len(s) /\ x < j
    BY <1>3
  <2> QED
    BY <2>2, <2>3 DEF TurnsInv
<1>5. a # b
  BY <1>1, <1>2
<1>6. a < b
  BY <1>3, <1>4, <1>5
<1> QED
  BY <1>2, <1>6

\* From the inbox of the server to the turn of the agent nothing overtakes.
OrderInv ==
    /\ SentInv /\ InboxOrder /\ ReadInv /\ StoredOrder
    /\ AtOrder /\ CalmInv /\ LaneChats /\ LaneOrder /\ RowsOrder /\ TurnsInv

LEMMA OrderInit == Init => OrderInv
<1> SUFFICES ASSUME Init PROVE OrderInv
  OBVIOUS
<1>1. /\ rows = [k \in Keys |-> NoRow] /\ rowid = 0 /\ claimed = {} /\ inbox = <<>>
      /\ trk = NoTracker /\ lanes = [c \in Chats |-> IdleLane] /\ writes = {}
      /\ rec = [r \in Recoveries |-> NoRecovery] /\ state = "DISCONNECTED" /\ ~gate
      /\ hist.sent = <<>> /\ hist.turns = <<>> /\ hist.pruned = {}
  BY DEF Init
<1>2. KeysSent = {} /\ StoredKeys = {} /\ Held = {}
  BY <1>1 DEF KeysSent, StoredKeys, Stored, Held, KeysIn, NoRow
<1>3. SentInv /\ InboxOrder /\ ReadInv /\ StoredOrder
  BY <1>1, <1>2 DEF SentInv, InboxOrder, ReadInv, StoredOrder, NoTracker
<1>4. AtOrder
  BY <1>1 DEF AtOrder, NoRow, Keys
<1>5. CalmInv
  BY <1>1, Names DEF CalmInv, NoRecovery
<1>6. LaneChats /\ LaneOrder
  BY <1>1 DEF LaneChats, LaneOrder, IdleLane
<1>7. RowsOrder /\ TurnsInv
  BY <1>1 DEF RowsOrder, TurnsInv
<1> QED
  BY <1>3, <1>4, <1>5, <1>6, <1>7 DEF OrderInv

LEMMA OrderStep ==
    ASSUME TypeOK, DurabilityInv, TasksHoldStored, HandlingInv, ClaimInv, DoneInv, UpInv,
           OrderInv, [Next]_vars
    PROVE  OrderInv'
<1> USE DEF OrderInv, HandlingInv, UpInv
<1>1. SentInv' /\ InboxOrder' /\ ReadInv' /\ StoredOrder'
  BY SentKept, InboxOrderStep, ReadInvStep, StoredOrderStep
<1>2. AtOrder' /\ CalmInv' /\ LaneChats'
  BY AtOrderStep, CalmStep, LaneChatsStep
<1>3. LaneOrder' /\ RowsOrder' /\ TurnsInv'
  BY LaneOrderStep, RowsOrderStep, TurnsStep
<1> QED
  BY <1>1, <1>2, <1>3

\* Turns of one conversation begin in the order in which its messages were first
\* sent as long as nothing failed, across reconnects, replays, recovery, stops and
\* crashes; and while the connection is up, each pending receipt that was not
\* handled is in somebody's hands, whatever fails (connection.py, the order gate,
\* the lanes, the recovery at READY and the retry task).
THEOREM OrderedHandling == Spec => []HandledInOrder
<1>1. TypeOK /\ DurabilityInv /\ TasksHoldStored /\ HandlingInv /\ ClaimInv /\ DoneInv /\ UpInv
        /\ OrderInv /\ [Next]_vars
        => OrderInv'
  BY OrderStep
<1>2. TypeOK /\ HandlingInv /\ ClaimInv /\ UpInv /\ OrderInv => HandledInOrder
  BY TurnsFollow, OwnersStay DEF OrderInv, HandledInOrder, Calm
<1> QED
  BY <1>1, <1>2, OrderInit, HeldInductive, UpInductive, PTL DEF Spec
=============================================================================
