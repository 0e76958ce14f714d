----------------------- MODULE ReliableDeliveryProofs -----------------------
(***************************************************************************)
(* Proofs about reliable inbound delivery for every number of messages,    *)
(* signals, chats, connections and faults: its types, that nothing is      *)
(* acknowledged before it is durable, and that the delivery implements its *)
(* contract.                                                               *)
(***************************************************************************)
EXTENDS ReliableDelivery, SequenceTheorems, TLAPS

USE DEF durable, server, conn, threads, vars

-----------------------------------------------------------------------------
(* The values that actions assign have the types of their variables. *)

LEMMA ConstantTypes ==
    /\ NoTracker \in Tracker /\ NoReader \in ReaderTask /\ IdleLane \in LaneTask
    /\ NoRecovery \in RecoveryTask /\ NoRow \in Row
    /\ NoRecovery.pc = "off" /\ IdleLane.pc = "idle" /\ NoReader.pc = "none"
<1>1. NoTracker \in Tracker /\ NoRow \in Row
  BY DEF NoTracker, Tracker, NoRow, Row, Status
<1>2. NoReader \in ReaderTask /\ IdleLane \in LaneTask
  BY DEF NoReader, ReaderTask, IdleLane, LaneTask
<1>3. NoRecovery \in RecoveryTask
  BY DEF NoRecovery, RecoveryTask
<1>4. NoRecovery.pc = "off" /\ IdleLane.pc = "idle" /\ NoReader.pc = "none"
  BY DEF NoRecovery, IdleLane, NoReader
<1> QED
  BY <1>1, <1>2, <1>3, <1>4

LEMMA LaneFrameIsFrame ==
    /\ LaneFrame \subseteq Frame
    /\ \A f \in Frame : f.key \in Messages => f \in LaneFrame
BY DEF LaneFrame, Frame, Keys

LEMMA RecordType ==
    ASSUME NEW t \in Tracker, NEW d \in Nat, Record(t, d)
    PROVE  trk' \in Tracker
<1> DEFINE p == t.pend \cup {d}
<1>1. p \in SUBSET Nat /\ t.acked \in Nat /\ t.read \in Nat
  BY DEF Tracker
<1>2. PICK a \in t.acked .. t.read :
        trk' = [t EXCEPT !.acked = a, !.pend = p \ (t.acked + 1 .. a)]
  BY DEF Record
<1>3. a \in Nat /\ p \ (t.acked + 1 .. a) \in SUBSET Nat
  BY <1>1
<1> QED
  BY <1>2, <1>3 DEF Tracker

LEMMA ReadType ==
    ASSUME trk \in Tracker
    PROVE  trk.read + 1 \in Nat /\ [trk EXCEPT !.read = @ + 1] \in Tracker
<1>1. trk.read + 1 \in Nat
  BY DEF Tracker
<1> QED
  BY <1>1 DEF Tracker

LEMMA SpendType ==
    ASSUME NEW kind \in Bounded, NEW bound, Spend(kind, bound), used \in [Bounded -> Nat]
    PROVE  used' \in [Bounded -> Nat]
BY DEF Spend

LEMMA BoundedKinds ==
    {"sends", "faults", "stops", "aways", "senders"} \subseteq Bounded
BY DEF Bounded

\* A move of the reader that keeps its frame
LEMMA ReaderMoves ==
    ASSUME rd \in ReaderTask,
           NEW pc \in {"none", "hello", "register", "idle", "upsert", "gate", "inline",
                       "finish", "over"},
           rd' = [rd EXCEPT !.pc = pc]
    PROVE  rd' \in ReaderTask /\ rd'.pc = pc /\ rd'.f = rd.f
BY DEF ReaderTask

LEMMA CloseType ==
    ASSUME CloseFromReader, trk \in Tracker, rd \in ReaderTask
    PROVE  /\ trk' \in Tracker /\ rd' \in ReaderTask
           /\ link' = "closed" /\ rd'.pc = "over" /\ ~trk'.on
<1>1. trk' \in Tracker /\ ~trk'.on
  BY DEF CloseFromReader, Tracker
<1> QED
  BY <1>1, ReaderMoves DEF CloseFromReader

LEMMA ScheduleRetryType ==
    ASSUME NEW tasks \in [Recoveries -> RecoveryTask]
    PROVE  /\ ScheduleRetry(tasks) \in [Recoveries -> RecoveryTask]
           /\ \A r \in Recoveries : ScheduleRetry(tasks)[r].pc \in {tasks[r].pc, "sleep"}
           /\ \A r \in Recoveries : \/ ScheduleRetry(tasks)[r].f = tasks[r].f
                                    \/ ScheduleRetry(tasks)[r].pc = "sleep"
<1> DEFINE asleep == [NoRecovery EXCEPT !.pc = "sleep"]
           again  == [tasks["retry"] EXCEPT !.again = TRUE]
<1>1. asleep \in RecoveryTask /\ asleep.pc = "sleep"
  BY ConstantTypes DEF RecoveryTask
<1>2. "retry" \in Recoveries
  BY DEF Recoveries
<1>3. again \in RecoveryTask /\ again.pc = tasks["retry"].pc /\ again.f = tasks["retry"].f
  BY <1>2 DEF RecoveryTask
<1>4. ScheduleRetry(tasks) \in {tasks, [tasks EXCEPT !["retry"] = asleep],
                                [tasks EXCEPT !["retry"] = again]}
  BY DEF ScheduleRetry
<1> HIDE DEF asleep, again
<1> QED
  BY <1>1, <1>2, <1>3, <1>4

LEMMA StartFinishType ==
    ASSUME NEW f \in Frame, NEW st \in {"done", "failed"}, NEW by \in Tasks \cup Chats,
           StartFinish(f, st, by), finishes \subseteq Finish
    PROVE  finishes' \subseteq Finish
BY DEF StartFinish, Finish

LEMMA OrphanedType ==
    ASSUME finishes \subseteq Finish, NEW tasks
    PROVE  Orphaned(tasks) \subseteq Finish
BY DEF Orphaned, Finish, Tasks

LEMMA LaneMoves ==
    ASSUME TypeOK, NEW c \in Chats, NEW t \in LaneTask,
           t.pc # "idle" => t.f \in LaneFrame, lanes' = [lanes EXCEPT ![c] = t]
    PROVE  /\ lanes' \in [Chats -> LaneTask]
           /\ \A d \in Chats : lanes'[d].pc # "idle" => lanes'[d].f \in LaneFrame
BY DEF TypeOK

LEMMA ToLaneType ==
    ASSUME TypeOK, NEW f \in Frame, f.key \in Messages, ToLane(f)
    PROVE  /\ lanes' \in [Chats -> LaneTask]
           /\ \A d \in Chats : lanes'[d].pc # "idle" => lanes'[d].f \in LaneFrame
<1> DEFINE c == ChatOf[f.key]
           t == [lanes[c] EXCEPT !.q = Append(@, f)]
<1>1. c \in Chats /\ lanes[c] \in LaneTask
  BY ChatsAssumption DEF TypeOK
<1>2. Append(lanes[c].q, f) \in Seq(LaneFrame)
  BY <1>1, LaneFrameIsFrame DEF LaneTask
<1>3. t \in LaneTask /\ t.pc = lanes[c].pc /\ t.f = lanes[c].f
  BY <1>1, <1>2 DEF LaneTask
<1>4. lanes' = [lanes EXCEPT ![c] = t]
  BY DEF ToLane
<1>5. t.pc # "idle" => t.f \in LaneFrame
  BY <1>1, <1>3 DEF TypeOK
<1> HIDE DEF t, c
<1> QED
  BY <1>1, <1>3, <1>4, <1>5, LaneMoves

LEMMA PopType ==
    ASSUME TypeOK, NEW c \in Chats, NEW pc \in {"handling", "finish"}, Waiting(c), Pop(c, pc)
    PROVE  /\ lanes' \in [Chats -> LaneTask]
           /\ \A d \in Chats : lanes'[d].pc # "idle" => lanes'[d].f \in LaneFrame
           /\ Head(lanes[c].q) \in LaneFrame /\ Head(lanes[c].q).key \in Messages
<1> DEFINE h == Head(lanes[c].q)
           t == [pc |-> pc, q |-> Tail(lanes[c].q), f |-> h]
<1>1. lanes[c].q \in Seq(LaneFrame) /\ lanes[c].q # <<>>
  BY DEF TypeOK, LaneTask, Waiting
<1>2. h \in LaneFrame /\ Tail(lanes[c].q) \in Seq(LaneFrame)
  BY <1>1
<1>3. t \in LaneTask /\ t.f = h
  BY <1>2 DEF LaneTask
<1>4. lanes' = [lanes EXCEPT ![c] = t] /\ h.key \in Messages
  BY <1>2 DEF Pop, LaneFrame
<1> HIDE DEF t, h
<1> QED
  BY <1>2, <1>3, <1>4, LaneMoves DEF h

LEMMA RecoveryMoves ==
    ASSUME TypeOK, NEW r \in Recoveries, NEW t \in RecoveryTask,
           t.pc \in {"inline", "finish"} => t.f \in Frame, rec' = [rec EXCEPT ![r] = t]
    PROVE  /\ rec' \in [Recoveries -> RecoveryTask]
           /\ \A s \in Recoveries : rec'[s].pc \in {"inline", "finish"} => rec'[s].f \in Frame
BY DEF TypeOK

LEMMA PendingType ==
    ASSUME rows \in [Keys -> Row]
    PROVE  PendingRows \subseteq [at : Nat, f : Frame]
BY DEF PendingRows, Row, Frame

-----------------------------------------------------------------------------
(* Types, step by step *)

LEMMA InitType == Init => TypeOK
<1> SUFFICES ASSUME Init PROVE TypeOK
  OBVIOUS
<1>1. hist \in History
  BY DEF Init, History
<1>2. inbox \in Seq(Entry) /\ used \in [Bounded -> Nat]
  BY DEF Init
<1>3. rows \in [Keys -> Row] /\ lanes \in [Chats -> LaneTask]
      /\ rec \in [Recoveries -> RecoveryTask] /\ trk \in Tracker /\ rd \in ReaderTask
  BY ConstantTypes DEF Init
<1> QED
  BY <1>1, <1>2, <1>3, ConstantTypes DEF Init, TypeOK

LEMMA ServerType ==
    ASSUME TypeOK, DurabilityInv,
           \/ \E k \in Keys, p \in BOOLEAN : Push(k, p)
           \/ Push(Mark, FALSE) \/ Drop \/ Ack
    PROVE  TypeOK'
<1>1. ASSUME NEW k \in Keys \cup {Mark}, NEW p \in BOOLEAN, Push(k, p) PROVE TypeOK'
  <2>1. inbox' \in Seq(Entry)
    BY <1>1 DEF TypeOK, Push, Entry
  <2>2. CASE k = Mark \/ k \in KeysSent
    BY SMTT(20), <1>1, <2>1, <2>2, SpendType, BoundedKinds DEF TypeOK, Push
  <2>3. CASE ~(k = Mark \/ k \in KeysSent)
    <3>1. hist.sent \in Seq(Keys) /\ k \in Keys
      BY <2>3 DEF TypeOK, History
    <3>2. Append(hist.sent, k) \in Seq(Keys)
      BY <3>1
    <3>3. hist' \in History
      BY <1>1, <2>3, <3>2 DEF TypeOK, Push, History
    <3> QED
      BY SMTT(20), <1>1, <2>1, <3>3, SpendType, BoundedKinds DEF TypeOK, Push
  <2> QED
    BY <2>2, <2>3
<1>2. CASE Drop
  BY <1>2 DEF TypeOK, Drop
<1>3. CASE Ack
  <2> DEFINE n == trk.acked - base
  <2>1. /\ trk.acked \in Nat /\ base \in Nat /\ inbox \in Seq(Entry)
        /\ n \in 1 .. Len(inbox)
    BY <1>3 DEF TypeOK, Ack, Tracker, DurabilityInv, WatermarkInv
  <2>2. inbox' \in Seq(Entry)
    <3>1. \A i \in n + 1 .. Len(inbox) : inbox[i] \in Entry
      BY <2>1
    <3> QED
      BY <1>3, <2>1, <3>1, SubSeqProperties DEF Ack
  <2>3. KeysIn(SubSeq(inbox, 1, n)) \ {Mark} \subseteq Keys
    <3>1. \A i \in 1 .. n : inbox[i] \in Entry
      BY <2>1
    <3>2. SubSeq(inbox, 1, n) \in Seq(Entry)
      BY <2>1, <3>1, SubSeqProperties
    <3> QED
      BY <3>2 DEF KeysIn, Entry
  <2>4. hist' \in History
    BY <1>3, <2>3 DEF TypeOK, Ack, History
  <2> QED
    BY <1>3, <2>1, <2>2, <2>4 DEF TypeOK, Ack
<1> QED
  BY <1>1, <1>2, <1>3

LEMMA HandshakeType == TypeOK /\ Handshake => TypeOK'
<1> SUFFICES ASSUME TypeOK, Handshake PROVE TypeOK'
  OBVIOUS
<1>1. CASE Connect
  <2>1. rd' \in ReaderTask /\ rd'.pc = "hello"
    BY <1>1 DEF Connect, ReaderTask
  <2>2. gen' \in Nat /\ trk' \in Tracker
    BY <1>1, ConstantTypes DEF TypeOK, Connect
  <2> QED
    BY <1>1, <2>1, <2>2 DEF TypeOK, Connect
<1>2. CASE HelloOk
  <2>1. trk' \in Tracker
    BY <1>2, ConstantTypes DEF HelloOk, Tracker
  <2>2. rd' \in ReaderTask /\ rd'.pc = "register"
    BY <1>2, ReaderMoves DEF TypeOK, HelloOk
  <2> QED
    BY <1>2, <2>1, <2>2 DEF TypeOK, HelloOk
<1>3. ASSUME NEW g \in regs, Register(g) PROVE TypeOK'
  <2>1. CASE rd.pc = "register" /\ gen = g
    <3>1. seq + 1 \in Nat
      BY DEF TypeOK
    <3>2. trk' \in Tracker
      BY <1>3, <2>1, <3>1 DEF TypeOK, Register, Tracker
    <3>3. rd' \in ReaderTask /\ rd'.pc = "idle"
      BY <1>3, <2>1, ReaderMoves DEF TypeOK, Register
    <3> DEFINE t == [NoRecovery EXCEPT !.pc = "read"]
    <3>4. t \in RecoveryTask /\ t.pc = "read"
      BY ConstantTypes DEF RecoveryTask
    <3>5. rec' = [rec EXCEPT !["start"] = t] /\ "start" \in Recoveries
      BY <1>3, <2>1 DEF Register, Recoveries
    <3> HIDE DEF t
    <3>6. /\ rec' \in [Recoveries -> RecoveryTask]
          /\ \A s \in Recoveries : rec'[s].pc \in {"inline", "finish"} => rec'[s].f \in Frame
      BY <3>4, <3>5, RecoveryMoves
    <3> QED
      BY <1>3, <2>1, <3>1, <3>2, <3>3, <3>6 DEF TypeOK, Register
  <2>2. CASE ~(rd.pc = "register" /\ gen = g)
    BY <1>3, <2>2 DEF TypeOK, Register
  <2> QED
    BY <2>1, <2>2
<1>4. ASSUME NEW g \in regs, RegisterCancelled(g) PROVE TypeOK'
  <2>1. rd' = rd \/ rd' = [rd EXCEPT !.pc = "over"]
    BY <1>4 DEF RegisterCancelled
  <2>2. rd' \in ReaderTask /\ (rd'.pc = "over" \/ rd' = rd)
    BY <2>1, ReaderMoves DEF TypeOK
  <2> QED
    BY <1>4, <2>2 DEF TypeOK, RegisterCancelled
<1>5. ASSUME NEW g \in regs, RegisterFails(g) PROVE TypeOK'
  BY <1>5, CloseType, SpendType, BoundedKinds DEF TypeOK, RegisterFails, Fault
<1> QED
  BY <1>1, <1>2, <1>3, <1>4, <1>5 DEF Handshake

LEMMA ReaderType ==
    ASSUME TypeOK, ReadMark \/ ReadFrame \/ ReadGap \/ ReadEnds
    PROVE  TypeOK'
<1>1. trk.read + 1 \in Nat /\ [trk EXCEPT !.read = @ + 1] \in Tracker
  BY ReadType DEF TypeOK
<1>2. CASE ReadMark
  BY <1>1, <1>2, RecordType DEF TypeOK, ReadMark
<1>3. CASE ReadFrame
  <2> DEFINE f == [key |-> NextEntry.key, gen |-> gen, dseq |-> trk.read + 1]
  <2>1. NextEntry \in Entry
    BY <1>3 DEF TypeOK, ReadFrame, HasNext, NextEntry, Tracker
  <2>2. f \in Frame
    BY <1>1, <1>3, <2>1 DEF TypeOK, ReadFrame, Entry, Frame
  <2>3. rd' \in ReaderTask /\ rd'.f = f
    BY <1>3, <2>2 DEF ReadFrame, ReaderTask
  <2>4. [f |-> f, prov |-> NextEntry.prov, cs |-> trk.seq] \in Write
    BY <2>1, <2>2 DEF TypeOK, Entry, Write, Tracker
  <2> QED
    BY <1>1, <1>3, <2>2, <2>3, <2>4 DEF TypeOK, ReadFrame
<1>4. CASE ReadGap
  BY <1>4, CloseType, SpendType, BoundedKinds DEF TypeOK, ReadGap, Fault
<1>5. CASE ReadEnds
  BY <1>5, ReaderMoves DEF TypeOK, ReadEnds
<1> QED
  BY <1>2, <1>3, <1>4, <1>5

LEMMA UpsertRowType ==
    ASSUME TypeOK, NEW w \in writes
    PROVE  w \in Write /\ w.f \in Frame /\ w.f.key \in Keys
           /\ UpsertRow(rows[w.f.key], w) \in Row
<1>1. w \in Write /\ w.f \in Frame /\ w.f.key \in Keys
  BY DEF TypeOK, Write, Frame
<1>2. rows[w.f.key] \in Row /\ rowid \in Nat
  BY <1>1 DEF TypeOK
<1> QED
  BY <1>1, <1>2 DEF UpsertRow, Row, Write, Frame, Status

LEMMA UpsertType ==
    ASSUME TypeOK, NEW w \in writes, UpsertOk(w) \/ UpsertRefused(w)
    PROVE  TypeOK'
<1>1. CASE UpsertOk(w)
  <2>1. rows' \in [Keys -> Row]
    BY <1>1, UpsertRowType DEF TypeOK, UpsertOk
  <2>2. trk' \in Tracker
    <3>1. w.f.dseq \in Nat
      BY UpsertRowType DEF Frame
    <3> QED
      BY <1>1, <3>1, RecordType DEF TypeOK, UpsertOk
  <2>3. \/ rd' = rd
        \/ rd' = [rd EXCEPT !.pc = "over"]
        \/ rd.pc = "upsert" /\ rd' = [rd EXCEPT !.pc = "gate"]
    BY <1>1 DEF UpsertOk, Awaited
  <2>4. /\ rd' \in ReaderTask
        /\ rd'.pc \in {"upsert", "gate", "inline", "finish"} => rd'.f \in Frame
    BY <2>3, ReaderMoves DEF TypeOK
  <2>5. rowid' \in Nat
    BY <1>1 DEF TypeOK, UpsertOk
  <2>6. writes' \subseteq Write
    BY <1>1 DEF TypeOK, UpsertOk
  <2> QED
    BY <1>1, <2>1, <2>2, <2>4, <2>5, <2>6 DEF TypeOK, UpsertOk
<1>2. CASE UpsertRefused(w)
  <2>1. CASE Awaited(w)
    BY <1>2, <2>1, CloseType, SpendType, BoundedKinds DEF TypeOK, UpsertRefused, Fault
  <2>2. CASE ~Awaited(w)
    BY <1>2, <2>2, SpendType, BoundedKinds DEF TypeOK, UpsertRefused, Fault
  <2> QED
    BY <2>1, <2>2
<1> QED
  BY <1>1, <1>2

LEMMA DispatchType ==
    ASSUME TypeOK, \/ GateTimesOut \/ Dispatch \/ GateAbandoned
                   \/ \E st \in {"done", "failed"} : InlineEnds(st)
    PROVE  TypeOK'
<1>1. "reader" \in Tasks
  BY DEF Tasks
<1>2. CASE GateTimesOut
  BY <1>2, SpendType, BoundedKinds DEF TypeOK, GateTimesOut, Fault
<1>3. CASE Dispatch
  <2>1. rd.f \in Frame
    BY <1>3 DEF TypeOK, Dispatch
  <2>2. /\ rd' \in ReaderTask
        /\ rd'.pc \in {"upsert", "gate", "inline", "finish"} => rd'.f \in Frame
    <3>1. \/ rd' = [pc |-> "idle", f |-> NothingRead]
          \/ rd' = [rd EXCEPT !.pc = "inline"]
          \/ rd' = [rd EXCEPT !.pc = "finish"]
      BY <1>3 DEF Dispatch
    <3>2. CASE rd' = [pc |-> "idle", f |-> NothingRead]
      BY <3>2 DEF ReaderTask
    <3> QED
      BY <2>1, <3>1, <3>2, ReaderMoves DEF TypeOK
  <2>3. /\ lanes' \in [Chats -> LaneTask]
        /\ \A d \in Chats : lanes'[d].pc # "idle" => lanes'[d].f \in LaneFrame
    <3>1. lanes' = lanes \/ (rd.f.key \in Messages /\ ToLane(rd.f))
      BY <1>3 DEF Dispatch
    <3>2. CASE lanes' = lanes
      BY <3>2 DEF TypeOK
    <3> QED
      BY <2>1, <3>1, <3>2, ToLaneType
  <2>4. finishes' \subseteq Finish
    <3>1. finishes' = finishes \/ StartFinish(rd.f, "done", "reader")
      BY <1>3 DEF Dispatch
    <3> QED
      BY <1>1, <2>1, <3>1, StartFinishType DEF TypeOK
  <2>5. seen' \subseteq Signals
    BY <1>3 DEF TypeOK, Dispatch, NewSignal
  <2> QED
    BY <1>3, <2>2, <2>3, <2>4, <2>5 DEF TypeOK, Dispatch
<1>4. CASE GateAbandoned
  BY <1>4, ReaderMoves DEF TypeOK, GateAbandoned
<1>5. ASSUME NEW st \in {"done", "failed"}, InlineEnds(st) PROVE TypeOK'
  <2>1. rd.f \in Frame /\ rd.f.key \in Keys
    BY <1>5 DEF TypeOK, InlineEnds, Frame
  <2>2. rd' \in ReaderTask /\ rd'.f = rd.f
    BY <1>5, ReaderMoves DEF TypeOK, InlineEnds
  <2>3. finishes' \subseteq Finish
    BY <1>1, <1>5, <2>1, StartFinishType DEF TypeOK, InlineEnds
  <2>4. hist' \in History
    BY <1>5, <2>1 DEF TypeOK, InlineEnds, History
  <2> QED
    BY <1>5, <2>1, <2>2, <2>3, <2>4 DEF TypeOK, InlineEnds
<1> QED
  BY <1>2, <1>3, <1>4, <1>5

LEMMA LaneType ==
    ASSUME TypeOK, NEW c \in Chats, Lane(c)
    PROVE  TypeOK'
<1>1. CASE LaneClaims(c)
  <2>1. /\ lanes' \in [Chats -> LaneTask]
        /\ \A d \in Chats : lanes'[d].pc # "idle" => lanes'[d].f \in LaneFrame
        /\ Head(lanes[c].q).key \in Messages
    BY <1>1, PopType DEF LaneClaims
  <2> DEFINE k == Head(lanes[c].q).key
  <2>2. hist' \in History
    <3>1. Append(hist.turns, k) \in Seq(Messages)
      BY <2>1 DEF TypeOK, History
    <3> HIDE DEF k
    <3>2. hist.handled \cup {k} \in SUBSET Keys
      BY <2>1 DEF TypeOK, History, Keys, k
    <3>3. hist' = [hist EXCEPT !.handled = hist.handled \cup {k},
                               !.turns = Append(hist.turns, k)]
      BY <1>1 DEF LaneClaims, k
    <3> QED
      BY <3>1, <3>2, <3>3 DEF TypeOK, History
  <2>3. claimed' \subseteq Messages
    BY <1>1, <2>1 DEF TypeOK, LaneClaims
  <2> QED
    BY <1>1, <2>1, <2>2, <2>3 DEF TypeOK, LaneClaims
<1>2. CASE LaneSkips(c)
  <2>1. /\ lanes' \in [Chats -> LaneTask]
        /\ \A d \in Chats : lanes'[d].pc # "idle" => lanes'[d].f \in LaneFrame
        /\ Head(lanes[c].q) \in Frame
    BY <1>2, PopType, LaneFrameIsFrame DEF LaneSkips
  <2>2. finishes' \subseteq Finish
    BY <1>2, <2>1, StartFinishType DEF TypeOK, LaneSkips
  <2> QED
    BY <1>2, <2>1, <2>2 DEF TypeOK, LaneSkips
<1>3. CASE LaneRetries(c)
  <2> DEFINE t == [lanes[c] EXCEPT !.q = Tail(@)]
  <2>1. lanes[c] \in LaneTask /\ lanes[c].pc = "idle" /\ lanes[c].q # <<>>
    BY <1>3 DEF TypeOK, LaneRetries, Waiting
  <2>2. lanes[c].q \in Seq(LaneFrame) /\ Tail(lanes[c].q) \in Seq(LaneFrame)
    BY <2>1 DEF LaneTask
  <2>3. t \in LaneTask /\ t.pc = "idle"
    BY <2>1, <2>2 DEF LaneTask
  <2>4. lanes' = [lanes EXCEPT ![c] = t]
    BY <1>3 DEF LaneRetries
  <2> HIDE DEF t
  <2>5. /\ lanes' \in [Chats -> LaneTask]
        /\ \A d \in Chats : lanes'[d].pc # "idle" => lanes'[d].f \in LaneFrame
    BY <2>3, <2>4, LaneMoves
  <2>6. /\ rec' \in [Recoveries -> RecoveryTask]
        /\ \A r \in Recoveries : rec'[r].pc \in {"inline", "finish"} => rec'[r].f \in Frame
    BY <1>3, ScheduleRetryType DEF TypeOK, LaneRetries
  <2> QED
    BY SMTT(20), <1>3, <2>5, <2>6, SpendType, BoundedKinds DEF TypeOK, LaneRetries, Fault
<1>4. ASSUME NEW st \in {"done", "failed"}, LaneEnds(c, st) PROVE TypeOK'
  <2> DEFINE t == [lanes[c] EXCEPT !.pc = "finish"]
  <2>1. lanes[c] \in LaneTask /\ lanes[c].f \in LaneFrame /\ lanes[c].f \in Frame
    BY <1>4, LaneFrameIsFrame DEF TypeOK, LaneEnds
  <2>2. t \in LaneTask /\ t.f = lanes[c].f
    BY <2>1 DEF LaneTask
  <2>3. lanes' = [lanes EXCEPT ![c] = t]
    BY <1>4 DEF LaneEnds
  <2> HIDE DEF t
  <2>4. /\ lanes' \in [Chats -> LaneTask]
        /\ \A d \in Chats : lanes'[d].pc # "idle" => lanes'[d].f \in LaneFrame
    BY <2>1, <2>2, <2>3, LaneMoves
  <2>5. finishes' \subseteq Finish
    BY <1>4, <2>1, StartFinishType DEF TypeOK, LaneEnds
  <2> QED
    BY <1>4, <2>4, <2>5 DEF TypeOK, LaneEnds
<1> QED
  BY <1>1, <1>2, <1>3, <1>4 DEF Lane

LEMMA RecoveryType ==
    ASSUME TypeOK, NEW r \in Recoveries, Recovery(r)
    PROVE  TypeOK'
<1>1. rec[r] \in RecoveryTask /\ r \in Tasks
  BY DEF TypeOK, Tasks
<1>2. ASSUME NEW gone \in SUBSET Keys, Recover(r, gone) PROVE TypeOK'
  <2> DEFINE t == [rec[r] EXCEPT !.pc = "rows", !.todo = PendingRows, !.ok = TRUE]
  <2>1. PendingRows \in SUBSET [at : Nat, f : Frame]
    BY PendingType DEF TypeOK
  <2>2. t \in RecoveryTask /\ t.pc = "rows"
    BY <1>1, <2>1 DEF RecoveryTask
  <2>3. rec' = [rec EXCEPT ![r] = t]
    BY <1>2 DEF Recover
  <2> HIDE DEF t
  <2>4. /\ rec' \in [Recoveries -> RecoveryTask]
        /\ \A s \in Recoveries : rec'[s].pc \in {"inline", "finish"} => rec'[s].f \in Frame
    BY <2>2, <2>3, RecoveryMoves
  <2>5. rows' \in [Keys -> Row]
    BY <1>2, ConstantTypes DEF TypeOK, Recover
  <2>6. hist' \in History
    BY <1>2 DEF TypeOK, Recover, History
  <2> QED
    BY <1>2, <2>4, <2>5, <2>6 DEF TypeOK, Recover
<1>3. CASE RecoverFails(r)
  <2> DEFINE t == [rec[r] EXCEPT !.pc = "later"]
  <2>1. t \in RecoveryTask /\ t.pc = "later"
    BY <1>1 DEF RecoveryTask
  <2>2. rec' = [rec EXCEPT ![r] = t]
    BY <1>3 DEF RecoverFails
  <2> HIDE DEF t
  <2>3. /\ rec' \in [Recoveries -> RecoveryTask]
        /\ \A s \in Recoveries : rec'[s].pc \in {"inline", "finish"} => rec'[s].f \in Frame
    BY <2>1, <2>2, RecoveryMoves
  <2> QED
    BY <1>3, <2>3, SpendType, BoundedKinds DEF TypeOK, RecoverFails, Fault
<1>4. CASE RecoverRow(r)
  <2>1. PICK t \in rec[r].todo :
          LET f    == t.f
              rest == [rec[r] EXCEPT !.todo = @ \ {t}]
          IN  \/ /\ rec' = [rec EXCEPT ![r] = rest]
                 /\ UNCHANGED <<lanes, finishes>>
              \/ /\ rec' = [rec EXCEPT ![r] = [rest EXCEPT !.later = Append(@, f)]]
                 /\ UNCHANGED <<lanes, finishes>>
              \/ /\ f.key \in Messages
                 /\ ToLane(f)
                 /\ rec' = [rec EXCEPT ![r] = rest]
                 /\ UNCHANGED finishes
              \/ /\ StartFinish(f, "done", r)
                 /\ rec' = [rec EXCEPT ![r] = [rest EXCEPT !.pc = "finish", !.f = f]]
                 /\ UNCHANGED lanes
    BY <1>4 DEF RecoverRow
  <2> DEFINE f    == t.f
             rest == [rec[r] EXCEPT !.todo = @ \ {t}]
             more == [rest EXCEPT !.later = Append(@, f)]
             last == [rest EXCEPT !.pc = "finish", !.f = f]
  <2>2. f \in Frame
    BY <1>1 DEF RecoveryTask
  <2>3. rest \in RecoveryTask /\ rest.pc = "rows"
    BY <1>1, <1>4 DEF RecoveryTask, RecoverRow
  <2>4. more \in RecoveryTask /\ more.pc = "rows"
    <3> HIDE DEF rest, f
    <3>1. Append(rest.later, f) \in Seq(Frame)
      BY <2>2, <2>3 DEF RecoveryTask
    <3> QED
      BY <2>3, <3>1 DEF RecoveryTask
  <2>5. last \in RecoveryTask /\ last.f = f
    <3> HIDE DEF rest, f
    <3> QED
      BY <2>2, <2>3 DEF RecoveryTask
  <2>6. rec' \in {[rec EXCEPT ![r] = rest], [rec EXCEPT ![r] = more], [rec EXCEPT ![r] = last]}
    BY <2>1
  <2>7. /\ lanes' \in [Chats -> LaneTask]
        /\ \A d \in Chats : lanes'[d].pc # "idle" => lanes'[d].f \in LaneFrame
    <3>1. lanes' = lanes \/ (f.key \in Messages /\ ToLane(f))
      BY <2>1
    <3>2. CASE lanes' = lanes
      BY <3>2 DEF TypeOK
    <3> HIDE DEF f
    <3> QED
      BY <2>2, <3>1, <3>2, ToLaneType
  <2>8. finishes' \subseteq Finish
    <3>1. finishes' = finishes \/ StartFinish(f, "done", r)
      BY <2>1
    <3> HIDE DEF f
    <3> QED
      BY <1>1, <2>2, <3>1, StartFinishType DEF TypeOK
  <2> HIDE DEF f, rest, more, last
  <2>9. /\ rec' \in [Recoveries -> RecoveryTask]
        /\ \A s \in Recoveries : rec'[s].pc \in {"inline", "finish"} => rec'[s].f \in Frame
    BY <2>2, <2>3, <2>4, <2>5, <2>6, RecoveryMoves
  <2> QED
    BY <1>4, <2>7, <2>8, <2>9 DEF TypeOK, RecoverRow
<1>5. CASE GateOpens(r)
  <2> DEFINE t == [rec[r] EXCEPT !.pc = "later", !.todo = {}]
  <2>1. t \in RecoveryTask /\ t.pc = "later"
    BY <1>1 DEF RecoveryTask
  <2>2. rec' = [rec EXCEPT ![r] = t]
    BY <1>5 DEF GateOpens
  <2> HIDE DEF t
  <2>3. /\ rec' \in [Recoveries -> RecoveryTask]
        /\ \A s \in Recoveries : rec'[s].pc \in {"inline", "finish"} => rec'[s].f \in Frame
    BY <2>1, <2>2, RecoveryMoves
  <2> QED
    BY <1>5, <2>3 DEF TypeOK, GateOpens
<1>6. CASE RecoverSignal(r)
  <2> DEFINE f    == Head(rec[r].later)
             rest == [rec[r] EXCEPT !.later = Tail(@), !.f = f]
             run  == [rest EXCEPT !.pc = "inline"]
             last == [rest EXCEPT !.pc = "finish"]
  <2>1. rec[r].later \in Seq(Frame) /\ rec[r].later # <<>>
    BY <1>1, <1>6 DEF RecoveryTask, RecoverSignal
  <2>2. f \in Frame /\ Tail(rec[r].later) \in Seq(Frame)
    BY <2>1
  <2>3. rest \in RecoveryTask /\ rest.f = f
    BY <1>1, <2>2 DEF RecoveryTask
  <2>4. run \in RecoveryTask /\ last \in RecoveryTask /\ run.f = f /\ last.f = f
    <3> HIDE DEF rest, f
    <3> QED
      BY <2>3 DEF RecoveryTask
  <2>5. rec' \in {[rec EXCEPT ![r] = run], [rec EXCEPT ![r] = last]}
    BY <1>6 DEF RecoverSignal
  <2>6. finishes' = finishes \/ StartFinish(f, "done", r)
    BY <1>6 DEF RecoverSignal
  <2>7. seen' \subseteq Signals
    BY <1>6 DEF TypeOK, RecoverSignal, NewSignal
  <2> HIDE DEF f, run, last
  <2>8. finishes' \subseteq Finish
    BY <1>1, <2>2, <2>6, StartFinishType DEF TypeOK
  <2>9. /\ rec' \in [Recoveries -> RecoveryTask]
        /\ \A s \in Recoveries : rec'[s].pc \in {"inline", "finish"} => rec'[s].f \in Frame
    BY <2>2, <2>4, <2>5, RecoveryMoves
  <2> QED
    BY <1>6, <2>7, <2>8, <2>9 DEF TypeOK, RecoverSignal
<1>7. ASSUME NEW st \in {"done", "failed"}, RecoveredSignalEnds(r, st) PROVE TypeOK'
  <2> DEFINE t == [rec[r] EXCEPT !.pc = "finish"]
  <2>1. rec[r].f \in Frame /\ rec[r].f.key \in Keys
    BY <1>7 DEF TypeOK, RecoveredSignalEnds, Frame
  <2>2. t \in RecoveryTask /\ t.f = rec[r].f
    BY <1>1 DEF RecoveryTask
  <2>3. rec' = [rec EXCEPT ![r] = t]
    BY <1>7 DEF RecoveredSignalEnds
  <2> HIDE DEF t
  <2>4. /\ rec' \in [Recoveries -> RecoveryTask]
        /\ \A s \in Recoveries : rec'[s].pc \in {"inline", "finish"} => rec'[s].f \in Frame
    BY <2>1, <2>2, <2>3, RecoveryMoves
  <2>5. finishes' \subseteq Finish
    BY <1>1, <1>7, <2>1, StartFinishType DEF TypeOK, RecoveredSignalEnds
  <2>6. hist' \in History
    BY <1>7, <2>1 DEF TypeOK, RecoveredSignalEnds, History
  <2> QED
    BY <1>7, <2>4, <2>5, <2>6 DEF TypeOK, RecoveredSignalEnds
<1> QED
  BY <1>2, <1>3, <1>4, <1>5, <1>6, <1>7 DEF Recovery

LEMMA RetryType ==
    ASSUME TypeOK, RetryWakes \/ StartRecoveryEnds \/ RetryEnds
    PROVE  TypeOK'
<1>1. "start" \in Recoveries /\ "retry" \in Recoveries
  BY DEF Recoveries
<1>2. CASE RetryWakes
  <2> DEFINE t == [NoRecovery EXCEPT !.pc = "read"]
  <2>1. t \in RecoveryTask /\ t.pc = "read"
    BY ConstantTypes DEF RecoveryTask
  <2>2. rec' = [rec EXCEPT !["retry"] = t]
    BY <1>2 DEF RetryWakes
  <2> HIDE DEF t
  <2>3. /\ rec' \in [Recoveries -> RecoveryTask]
        /\ \A s \in Recoveries : rec'[s].pc \in {"inline", "finish"} => rec'[s].f \in Frame
    BY <1>1, <2>1, <2>2, RecoveryMoves
  <2> QED
    BY <1>2, <2>3 DEF TypeOK, RetryWakes
<1>3. CASE StartRecoveryEnds
  <2> DEFINE off == [rec EXCEPT !["start"] = NoRecovery]
  <2>1. /\ off \in [Recoveries -> RecoveryTask]
        /\ \A s \in Recoveries : off[s].pc \in {"inline", "finish"} => off[s].f \in Frame
    BY <1>1, ConstantTypes DEF TypeOK
  <2>2. rec' = off \/ rec' = ScheduleRetry(off)
    BY <1>3 DEF StartRecoveryEnds
  <2> HIDE DEF off
  <2>3. /\ rec' \in [Recoveries -> RecoveryTask]
        /\ \A s \in Recoveries : rec'[s].pc \in {"inline", "finish"} => rec'[s].f \in Frame
    BY <2>1, <2>2, ScheduleRetryType
  <2> QED
    BY <1>3, <2>3 DEF TypeOK, StartRecoveryEnds
<1>4. CASE RetryEnds
  <2> DEFINE asleep == [NoRecovery EXCEPT !.pc = "sleep"]
  <2>1. asleep \in RecoveryTask /\ asleep.pc = "sleep"
    BY ConstantTypes DEF RecoveryTask
  <2>2. PICK t \in {NoRecovery, asleep} : rec' = [rec EXCEPT !["retry"] = t]
    BY <1>4 DEF RetryEnds
  <2> HIDE DEF asleep
  <2>3. /\ rec' \in [Recoveries -> RecoveryTask]
        /\ \A s \in Recoveries : rec'[s].pc \in {"inline", "finish"} => rec'[s].f \in Frame
    BY <1>1, <2>1, <2>2, ConstantTypes, RecoveryMoves
  <2> QED
    BY <1>4, <2>3 DEF TypeOK, RetryEnds
<1> QED
  BY <1>2, <1>3, <1>4

LEMMA FinishRowType ==
    ASSUME TypeOK, NEW n \in finishes
    PROVE  /\ n \in Finish /\ n.f \in Frame /\ n.f.key \in Keys
           /\ FinishRow(rows[n.f.key], n) \in Row
<1>1. n \in Finish /\ n.f \in Frame /\ n.f.key \in Keys /\ n.st \in {"done", "failed"}
  BY DEF TypeOK, Finish, Frame
<1>2. rows[n.f.key] \in Row
  BY <1>1 DEF TypeOK
<1> QED
  BY <1>1, <1>2 DEF FinishRow, Row, Status

LEMMA FinishType ==
    ASSUME TypeOK, NEW n \in finishes, NEW ok \in BOOLEAN, FinishCommits(n, ok)
    PROVE  TypeOK'
<1>1. rows' \in [Keys -> Row]
  BY FinishRowType DEF TypeOK, FinishCommits
<1>2. /\ rd' \in ReaderTask
      /\ rd'.pc \in {"upsert", "gate", "inline", "finish"} => rd'.f \in Frame
  <2>1. rd' \in {rd, [pc |-> "idle", f |-> NothingRead]}
    BY DEF FinishCommits
  <2>2. CASE rd' = [pc |-> "idle", f |-> NothingRead]
    BY <2>2 DEF ReaderTask
  <2> QED
    BY <2>1, <2>2 DEF TypeOK
<1>3. /\ lanes' \in [Chats -> LaneTask]
      /\ \A d \in Chats : lanes'[d].pc # "idle" => lanes'[d].f \in LaneFrame
  <2>1. CASE n.by \notin Chats
    BY <2>1 DEF TypeOK, FinishCommits
  <2>2. CASE n.by \in Chats
    <3> DEFINE t == [lanes[n.by] EXCEPT !.pc = "idle", !.f = NothingRead]
    <3>1. t \in LaneTask /\ t.pc = "idle"
      BY <2>2 DEF TypeOK, LaneTask
    <3>2. lanes' = [lanes EXCEPT ![n.by] = t]
      BY <2>2 DEF FinishCommits
    <3> HIDE DEF t
    <3> QED
      BY <2>2, <3>1, <3>2, LaneMoves
  <2> QED
    BY <2>1, <2>2
<1>4. /\ rec' \in [Recoveries -> RecoveryTask]
      /\ \A s \in Recoveries : rec'[s].pc \in {"inline", "finish"} => rec'[s].f \in Frame
  <2>1. CASE n.by \notin Recoveries
    BY <2>1 DEF TypeOK, FinishCommits
  <2>2. CASE n.by \in Recoveries
    <3> DEFINE pc == IF n.f.key \in Messages THEN "rows" ELSE "later"
               t  == [rec[n.by] EXCEPT !.pc = pc, !.f = NothingRead]
    <3>1. t \in RecoveryTask /\ t.pc \in {"rows", "later"}
      <4>1. rec[n.by] \in RecoveryTask
        BY <2>2 DEF TypeOK
      <4>2. pc \in {"rows", "later"}
        OBVIOUS
      <4> HIDE DEF pc
      <4> QED
        BY <4>1, <4>2 DEF RecoveryTask
    <3>2. rec' = [rec EXCEPT ![n.by] = t]
      BY <2>2 DEF FinishCommits
    <3> HIDE DEF t
    <3> QED
      BY <2>2, <3>1, <3>2, RecoveryMoves
  <2> QED
    BY <2>1, <2>2
<1>5. used' \in [Bounded -> Nat]
  BY SpendType, BoundedKinds DEF TypeOK, FinishCommits, Fault
<1> QED
  BY <1>1, <1>2, <1>3, <1>4, <1>5 DEF TypeOK, FinishCommits

LEMMA ResetType ==
    ASSUME Reset
    PROVE  /\ trk' \in Tracker /\ rd' \in ReaderTask /\ rd'.pc = "none"
           /\ lanes' \in [Chats -> LaneTask] /\ rec' \in [Recoveries -> RecoveryTask]
           /\ \A c \in Chats : lanes'[c].pc = "idle"
           /\ \A r \in Recoveries : rec'[r].pc = "off"
BY ConstantTypes DEF Reset

LEMMA SupervisorType == TypeOK /\ Supervisor => TypeOK'
<1> SUFFICES ASSUME TypeOK, Supervisor PROVE TypeOK'
  OBVIOUS
<1>1. "retry" \in Recoveries
  BY DEF Recoveries
<1>2. ASSUME rec' = [rec EXCEPT !["retry"] = NoRecovery]
      PROVE  /\ rec' \in [Recoveries -> RecoveryTask]
             /\ \A s \in Recoveries :
                  rec'[s].pc \in {"inline", "finish"} => rec'[s].f \in Frame
  BY <1>1, <1>2, ConstantTypes, RecoveryMoves
<1>3. CASE Flushed
  BY <1>3 DEF TypeOK, Flushed
<1>4. CASE Teardown
  <2>1. /\ rec' \in [Recoveries -> RecoveryTask]
        /\ \A s \in Recoveries : rec'[s].pc \in {"inline", "finish"} => rec'[s].f \in Frame
    BY <1>2, <1>4 DEF Teardown
  <2>2. finishes' \subseteq Finish
    BY <1>4, OrphanedType DEF TypeOK, Teardown
  <2> QED
    BY <1>4, <2>1, <2>2, ConstantTypes DEF TypeOK, Teardown
<1>5. CASE Away
  BY <1>5, SpendType, BoundedKinds DEF TypeOK, Away
<1>6. CASE AwayCloses
  BY <1>6 DEF TypeOK, AwayCloses
<1>7. CASE Resume
  BY <1>7 DEF TypeOK, Resume
<1>8. CASE StopBegins
  <2>1. /\ rec' \in [Recoveries -> RecoveryTask]
        /\ \A s \in Recoveries : rec'[s].pc \in {"inline", "finish"} => rec'[s].f \in Frame
    BY <1>2, <1>8 DEF StopBegins
  <2>2. finishes' \subseteq Finish
    BY <1>8, OrphanedType DEF TypeOK, StopBegins
  <2> QED
    BY <1>8, <2>1, <2>2, SpendType, BoundedKinds DEF TypeOK, StopBegins
<1>9. CASE StopEnds
  <2>1. finishes' \subseteq Finish
    BY <1>9, OrphanedType DEF TypeOK, StopEnds
  <2>2. /\ stopping' \in BOOLEAN /\ state' = "DISCONNECTED" /\ link' = "none"
        /\ main' = "idle" /\ gate' \in BOOLEAN /\ seen' \subseteq Signals
    BY <1>9 DEF StopEnds, Reset
  <2> QED
    BY <1>9, <2>1, <2>2, ResetType DEF TypeOK, StopEnds
<1>10. CASE Crash
  <2>1. /\ stopping' \in BOOLEAN /\ state' = "DISCONNECTED" /\ link' = "none"
        /\ main' = "idle" /\ gate' \in BOOLEAN /\ seen' \subseteq Signals
    BY <1>10 DEF Crash, Reset
  <2> QED
    BY <1>10, <2>1, ResetType, SpendType, BoundedKinds DEF TypeOK, Crash
<1> QED
  BY <1>3, <1>4, <1>5, <1>6, <1>7, <1>8, <1>9, <1>10 DEF Supervisor

LEMMA SenderType ==
    ASSUME TypeOK, \/ \E granted \in BOOLEAN : SenderConnects(granted)
                   \/ SenderRecovers
    PROVE  TypeOK'
<1>1. ASSUME NEW granted \in BOOLEAN, SenderConnects(granted) PROVE TypeOK'
  BY SMTT(20), <1>1, SpendType, BoundedKinds DEF TypeOK, SenderConnects
<1>2. CASE SenderRecovers
  <2>1. \A t \in PendingRows : [f |-> t.f, st |-> "done", by |-> "nobody"] \in Finish
    BY PendingType DEF TypeOK, Finish, Tasks
  <2> QED
    BY <1>2, <2>1 DEF TypeOK, SenderRecovers
<1> QED
  BY <1>1, <1>2

LEMMA NextType == TypeOK /\ DurabilityInv /\ [Next]_vars => TypeOK'
<1> SUFFICES ASSUME TypeOK, DurabilityInv, [Next]_vars PROVE TypeOK'
  OBVIOUS
<1>1. CASE UNCHANGED vars
  BY <1>1 DEF TypeOK
<1> QED
  BY <1>1, ServerType, HandshakeType, ReaderType, UpsertType, DispatchType, LaneType,
     RecoveryType, RetryType, FinishType, SupervisorType, SenderType
     DEF Next, Reader

-----------------------------------------------------------------------------
(* Acknowledged frames are durable *)

\* Only a receipt's write, finish or pruning changes the table.
LEMMA OtherStepsKeepRows ==
    ASSUME TypeOK, [Next]_vars,
           ~ \E w \in writes : UpsertOk(w),
           ~ \E r \in Recoveries : \E gone \in SUBSET Keys : Recover(r, gone),
           ~ \E n \in finishes, ok \in BOOLEAN : FinishCommits(n, ok)
    PROVE  rows' = rows /\ hist'.pruned = hist.pruned
<1> USE DEF TypeOK, History
<1>1. ASSUME NEW k, NEW p, Push(k, p) PROVE rows' = rows /\ hist'.pruned = hist.pruned
  BY <1>1 DEF Push
<1>2. CASE Drop \/ Handshake
  BY <1>2 DEF Drop, Handshake, Connect, HelloOk, Register, RegisterCancelled, RegisterFails
<1>3. CASE Reader
  BY <1>3 DEF Reader, ReadMark, ReadFrame, ReadGap, ReadEnds, UpsertRefused,
              GateTimesOut, Dispatch, GateAbandoned, InlineEnds, Ack
<1>4. ASSUME NEW c \in Chats, Lane(c) PROVE rows' = rows /\ hist'.pruned = hist.pruned
  BY <1>4 DEF Lane, LaneClaims, LaneSkips, LaneRetries, LaneEnds
<1>5. ASSUME NEW r \in Recoveries, Recovery(r)
      PROVE  rows' = rows /\ hist'.pruned = hist.pruned
  BY <1>5 DEF Recovery, RecoverFails, RecoverRow, GateOpens, RecoverSignal,
              RecoveredSignalEnds
<1>6. CASE RetryWakes \/ StartRecoveryEnds \/ RetryEnds
  BY <1>6 DEF RetryWakes, StartRecoveryEnds, RetryEnds
<1>7. CASE Supervisor
  BY <1>7 DEF Supervisor, Flushed, Teardown, Away, AwayCloses, Resume, StopBegins,
              StopEnds, Crash
<1>8. ASSUME NEW granted, SenderConnects(granted)
      PROVE  rows' = rows /\ hist'.pruned = hist.pruned
  BY <1>8 DEF SenderConnects
<1>9. CASE SenderRecovers \/ UNCHANGED vars
  BY <1>9 DEF SenderRecovers
<1> QED
  BY <1>1, <1>2, <1>3, <1>4, <1>5, <1>6, <1>7, <1>8, <1>9 DEF Next

\* What is stored stays stored, and an absent row is like new.
LEMMA RowsStay ==
    ASSUME TypeOK, DurabilityInv, [Next]_vars
    PROVE  /\ \A k \in Keys : Stored(k) => Stored(k)'
           /\ \A k \in Keys : rows'[k].st = "none" => rows'[k] = NoRow
<1> DEFINE Stays == /\ \A k \in Keys : Stored(k) => Stored(k)'
                    /\ \A k \in Keys : rows'[k].st = "none" => rows'[k] = NoRow
<1>1. ASSUME rows' = rows, hist'.pruned = hist.pruned PROVE Stays
  BY <1>1 DEF Stored, DurabilityInv, AbsentInv
<1>2. ASSUME NEW w \in writes, UpsertOk(w) PROVE Stays
  <2>1. /\ w.f.key \in Keys /\ hist' = hist
        /\ rows' = [rows EXCEPT ![w.f.key] = UpsertRow(rows[w.f.key], w)]
    BY <1>2, UpsertRowType DEF UpsertOk
  <2>2. rows[w.f.key].st # "none" => UpsertRow(rows[w.f.key], w).st # "none"
    BY DEF UpsertRow
  <2>3. UpsertRow(rows[w.f.key], w).st = "none" => UpsertRow(rows[w.f.key], w) = NoRow
    BY <2>1 DEF UpsertRow, DurabilityInv, AbsentInv
  <2> QED
    BY <2>1, <2>2, <2>3 DEF TypeOK, Stored, DurabilityInv, AbsentInv
<1>3. ASSUME NEW r \in Recoveries, NEW gone \in SUBSET Keys, Recover(r, gone) PROVE Stays
  <2>1. rows' = [k \in Keys |-> IF k \in gone THEN NoRow ELSE rows[k]]
    BY <1>3 DEF Recover
  <2>2. hist'.pruned = hist.pruned \cup gone
    BY <1>3 DEF TypeOK, History, Recover
  <2> QED
    BY <2>1, <2>2 DEF Stored, DurabilityInv, AbsentInv
<1>4. ASSUME NEW n \in finishes, NEW ok \in BOOLEAN, FinishCommits(n, ok) PROVE Stays
  <2>1. CASE ~ok
    BY <1>1, <1>4, <2>1 DEF FinishCommits
  <2>2. CASE ok
    <3>1. /\ n.f.key \in Keys /\ hist' = hist
          /\ rows' = [rows EXCEPT ![n.f.key] = FinishRow(rows[n.f.key], n)]
      BY <1>4, <2>2, FinishRowType DEF FinishCommits
    <3>2. rows[n.f.key].st # "none" => FinishRow(rows[n.f.key], n).st # "none"
      <4>1. n.st # "none" /\ rows[n.f.key] \in Row
        BY <3>1, FinishRowType DEF TypeOK, Finish
      <4> QED
        BY <4>1 DEF FinishRow, Row
    <3>3. rows[n.f.key].st = "none" => FinishRow(rows[n.f.key], n) = rows[n.f.key]
      BY DEF FinishRow
    <3> QED
      BY <3>1, <3>2, <3>3 DEF TypeOK, Stored, DurabilityInv, AbsentInv
  <2> QED
    BY <2>1, <2>2
<1> HIDE DEF Stays
<1>5. Stays
  BY <1>1, <1>2, <1>3, <1>4, OtherStepsKeepRows
<1> QED
  BY <1>5 DEF Stays

\* The tracker and the inbox did not move, and the reader took no new frame.
LEMMA QuietStep ==
    ASSUME TypeOK, DurabilityInv, [Next]_vars,
           inbox' = inbox, base' = base, hist'.acked = hist.acked,
           trk'.on => /\ trk.on /\ trk'.read = trk.read /\ trk'.acked = trk.acked
                      /\ trk'.pend = trk.pend,
           rd' = rd \/ rd'.pc # "upsert",
           writes' \subseteq writes
    PROVE  DurabilityInv'
<1>1. /\ \A k \in Keys : Stored(k) => Stored(k)'
      /\ \A k \in Keys : rows'[k].st = "none" => rows'[k] = NoRow
  BY RowsStay
<1>2. AckedIsDurable'
  BY <1>1 DEF AckedIsDurable, DurabilityInv, TypeOK, History
<1>3. WatermarkInv'
  <2>1. \A i \in 1 .. Len(inbox) : inbox[i].key \in Keys \cup {Mark}
    <3>1. ASSUME NEW i \in 1 .. Len(inbox) PROVE inbox[i] \in Entry
      BY DEF TypeOK
    <3> QED
      BY <3>1 DEF Entry
  <2>2. ASSUME trk'.on PROVE WatermarkInv'
    <3>1. /\ base <= trk.acked /\ trk.acked <= trk.read
          /\ trk.read <= base + Len(inbox)
          /\ \A d \in trk.pend : d <= trk.read
          /\ \A i \in 1 .. Len(inbox) :
               /\ base + i <= trk.acked \/ base + i \in trk.pend
               /\ inbox[i].key # Mark
               => Stored(inbox[i].key)'
      BY <1>1, <2>1, <2>2 DEF WatermarkInv, DurabilityInv
    <3> QED
      BY <2>2, <3>1 DEF WatermarkInv
  <2> QED
    BY <2>2 DEF WatermarkInv
<1>4. ReaderInv'
  BY DEF ReaderInv, DurabilityInv
<1>5. AbsentInv'
  BY <1>1 DEF AbsentInv, DurabilityInv
<1> QED
  BY <1>2, <1>3, <1>4, <1>5 DEF DurabilityInv

LEMMA PushDurable ==
    ASSUME TypeOK, DurabilityInv, NEW k \in Keys \cup {Mark}, NEW p \in BOOLEAN, Push(k, p),
           [Next]_vars
    PROVE  DurabilityInv'
<1> DEFINE e == [key |-> k, prov |-> p]
<1>1. /\ inbox \in Seq(Entry) /\ e \in Entry /\ inbox' = Append(inbox, e)
      /\ UNCHANGED <<rows, base, trk, rd, writes>>
  BY DEF TypeOK, Push, Entry
<1>2. /\ Len(inbox') = Len(inbox) + 1
      /\ \A i \in 1 .. Len(inbox) : inbox'[i] = inbox[i]
  BY <1>1
<1>3. hist'.acked = hist.acked /\ hist'.pruned = hist.pruned
  BY DEF TypeOK, Push, History
<1>4. ASSUME NEW x PROVE Stored(x)' <=> Stored(x)
  BY <1>1, <1>3 DEF Stored
<1>5. AckedIsDurable' /\ AbsentInv'
  BY <1>1, <1>3, <1>4 DEF DurabilityInv, AckedIsDurable, AbsentInv
<1>6. base \in Nat /\ trk.read \in Nat /\ trk.acked \in Nat /\ Len(inbox) \in Nat
  BY <1>1 DEF TypeOK, Tracker
<1>7. ASSUME trk.on PROVE WatermarkInv'
  <2>1. /\ base <= trk.acked /\ trk.acked <= trk.read
        /\ trk.read <= base + Len(inbox)
        /\ \A d \in trk.pend : d <= trk.read
    BY <1>7 DEF DurabilityInv, WatermarkInv
  <2>2. ASSUME NEW i \in 1 .. Len(inbox'),
               base + i <= trk.acked \/ base + i \in trk.pend, inbox'[i].key # Mark
        PROVE  Stored(inbox'[i].key)
    <3>1. i \in 1 .. Len(inbox)
      BY <1>2, <1>6, <2>1, <2>2
    <3> QED
      BY <1>2, <1>7, <2>2, <3>1 DEF DurabilityInv, WatermarkInv
  <2>3. trk.read <= base + Len(inbox')
    BY <1>2, <1>6, <2>1
  <2> QED
    BY <1>1, <1>4, <2>1, <2>2, <2>3 DEF WatermarkInv
<1>8. ASSUME trk.on, rd.pc = "upsert" PROVE ReaderInv'
  <2>1. trk.read - base \in 1 .. Len(inbox)
    BY <1>6, <1>8 DEF DurabilityInv, WatermarkInv, ReaderInv
  <2> QED
    BY <1>1, <1>2, <1>8, <2>1 DEF DurabilityInv, ReaderInv
<1> QED
  BY <1>1, <1>5, <1>7, <1>8 DEF DurabilityInv, WatermarkInv, ReaderInv

LEMMA HelloDurable ==
    ASSUME TypeOK, DurabilityInv, HelloOk
    PROVE  DurabilityInv'
<1>1. /\ trk' = [NoTracker EXCEPT !.on = TRUE] /\ base' = 0
      /\ UNCHANGED <<rows, inbox, writes, hist>> /\ rd'.pc = "register"
  BY ReaderMoves DEF TypeOK, HelloOk
<1>2. trk'.read = 0 /\ trk'.acked = 0 /\ trk'.pend = {}
  BY <1>1 DEF NoTracker
<1>3. AckedIsDurable' /\ AbsentInv'
  BY <1>1 DEF DurabilityInv, AckedIsDurable, AbsentInv, Stored
<1>4. WatermarkInv'
  BY <1>1, <1>2 DEF TypeOK, WatermarkInv
<1>5. ReaderInv'
  BY <1>1 DEF ReaderInv
<1> QED
  BY <1>3, <1>4, <1>5 DEF DurabilityInv

\* Recording number d, whose frame is stored or a mark
LEMMA RecordDurable ==
    ASSUME TypeOK, NEW t \in Tracker, NEW d \in Nat, Record(t, d), base \in Nat,
           base <= t.acked, t.acked <= t.read, t.read <= base + Len(inbox), d <= t.read,
           \A x \in t.pend : x <= t.read,
           \A i \in 1 .. Len(inbox) :
             /\ base + i <= t.acked \/ base + i \in t.pend \cup {d}
             /\ inbox[i].key # Mark
             => Stored(inbox[i].key)'
    PROVE  /\ base <= trk'.acked /\ trk'.acked <= trk'.read /\ trk'.read = t.read
           /\ trk'.read <= base + Len(inbox) /\ trk'.on = t.on
           /\ \A x \in trk'.pend : x <= trk'.read
           /\ \A i \in 1 .. Len(inbox) :
                /\ base + i <= trk'.acked \/ base + i \in trk'.pend
                /\ inbox[i].key # Mark
                => Stored(inbox[i].key)'
<1> DEFINE p == t.pend \cup {d}
<1>1. t.acked \in Nat /\ t.read \in Nat /\ t.pend \in SUBSET Nat
  BY DEF Tracker
<1>2. PICK a \in t.acked .. t.read :
        /\ \A i \in t.acked + 1 .. a : i \in p
        /\ trk' = [t EXCEPT !.acked = a, !.pend = p \ (t.acked + 1 .. a)]
  BY DEF Record
<1>3. /\ trk'.acked = a /\ trk'.pend = p \ (t.acked + 1 .. a) /\ trk'.read = t.read
      /\ trk'.on = t.on
  BY <1>2 DEF Tracker
<1>4. a \in Nat /\ t.acked <= a /\ a <= t.read
  BY <1>1
<1>5. ASSUME NEW i \in 1 .. Len(inbox), base + i <= a \/ base + i \in p, inbox[i].key # Mark
      PROVE  Stored(inbox[i].key)'
  <2>1. base + i <= t.acked \/ base + i \in p
    BY SMTT(20), <1>1, <1>2, <1>4, <1>5
  <2> QED
    BY <1>5, <2>1
<1> QED
  BY <1>1, <1>3, <1>4, <1>5

LEMMA ReadDurable ==
    ASSUME TypeOK, DurabilityInv, ReadMark \/ ReadFrame
    PROVE  DurabilityInv'
<1> DEFINE t == [trk EXCEPT !.read = @ + 1]
<1>1. /\ t \in Tracker /\ t.read = trk.read + 1 /\ t.acked = trk.acked /\ t.pend = trk.pend
      /\ t.on /\ trk.on /\ trk.read + 1 \in Nat
      /\ trk.read + 1 - base \in 1 .. Len(inbox)
  <2>1. trk \in Tracker /\ trk.read + 1 \in Nat
    BY ReadType DEF TypeOK
  <2> QED
    BY <2>1, ReadType DEF ReadMark, ReadFrame, HasNext, Tracker
<1>2. UNCHANGED <<rows, base, inbox, hist>>
  BY DEF ReadMark, ReadFrame
<1>3. AckedIsDurable' /\ \A x : Stored(x)' <=> Stored(x)
  BY <1>2 DEF DurabilityInv, AckedIsDurable, Stored
<1>4. /\ base \in Nat /\ trk.acked \in Nat /\ trk.read \in Nat /\ inbox \in Seq(Entry)
      /\ base <= trk.acked /\ trk.acked <= trk.read
      /\ trk.read + 1 <= base + Len(inbox)
      /\ \A d \in trk.pend : d \in Nat /\ d <= trk.read
  BY SMTT(20), <1>1 DEF TypeOK, Tracker, DurabilityInv, WatermarkInv
<1>5. CASE ReadMark
  <2>1. \A i \in 1 .. Len(inbox) :
          /\ base + i <= t.acked \/ base + i \in t.pend \cup {trk.read + 1}
          /\ inbox[i].key # Mark
          => Stored(inbox[i].key)'
    <3>1. \A i \in 1 .. Len(inbox) : base + i = trk.read + 1 => inbox[i].key = Mark
      <4>1. inbox[trk.read + 1 - base].key = Mark
        BY <1>5 DEF ReadMark, NextEntry
      <4>2. ASSUME NEW i \in 1 .. Len(inbox), base + i = trk.read + 1
            PROVE  i = trk.read + 1 - base
        BY <1>4, <4>2
      <4> QED
        BY <4>1, <4>2
    <3> HIDE DEF t
    <3> QED
      BY <1>1, <1>2, <1>3, <3>1 DEF DurabilityInv, WatermarkInv
  <2>2. Record(t, trk.read + 1)
    BY <1>5 DEF ReadMark
  <2> HIDE DEF t
  <2>3. WatermarkInv'
    <3>1. \A x \in t.pend : x <= t.read
      BY <1>1, <1>4
    <3>2. base <= t.acked /\ t.acked <= t.read /\ t.read <= base + Len(inbox)
      BY <1>1, <1>4
    <3>3. trk.read + 1 <= t.read
      BY <1>1, <1>4
    <3> QED
      BY <1>1, <1>2, <1>4, <2>1, <2>2, <3>1, <3>2, <3>3, RecordDurable DEF WatermarkInv
  <2>4. ReaderInv'
    BY <1>5 DEF ReadMark, HasNext, ReaderInv
  <2>5. AbsentInv'
    BY <1>5 DEF ReadMark, DurabilityInv, AbsentInv
  <2> QED
    BY <1>3, <2>3, <2>4, <2>5 DEF DurabilityInv
<1>6. CASE ReadFrame
  <2> DEFINE f == [key |-> NextEntry.key, gen |-> gen, dseq |-> trk.read + 1]
  <2>1. /\ trk' = t /\ rd'.f = f
        /\ writes' = writes \cup {[f |-> f, prov |-> NextEntry.prov, cs |-> trk.seq]}
    BY <1>6 DEF ReadFrame
  <2>2. f.dseq = trk.read + 1 /\ f.key = inbox[trk.read + 1 - base].key
    BY DEF NextEntry
  <2> HIDE DEF t
  <2>3. WatermarkInv'
    <3>1. \A x \in trk.pend : x <= trk.read + 1
      BY <1>4
    <3>2. trk.acked <= trk.read + 1
      BY <1>4
    <3>3. \A i \in 1 .. Len(inbox) :
            /\ base + i <= trk.acked \/ base + i \in trk.pend
            /\ inbox[i].key # Mark
            => Stored(inbox[i].key)'
      BY <1>1, <1>2, <1>3 DEF DurabilityInv, WatermarkInv
    <3> QED
      BY <1>1, <1>2, <1>4, <2>1, <3>1, <3>2, <3>3 DEF WatermarkInv
  <2>4. ReaderInv'
    <3>1. trk'.read = trk.read + 1 /\ trk'.acked = trk.acked /\ trk.acked < trk.read + 1
      BY <1>1, <1>4, <2>1
    <3>2. rd'.f.dseq = trk.read + 1 /\ rd'.f.key = inbox[trk.read + 1 - base].key
      BY <2>1, <2>2
    <3>3. inbox'[trk'.read - base'].key = rd'.f.key
      <4>1. trk'.read - base' = trk.read + 1 - base /\ inbox' = inbox
        BY <1>2, <1>4, <3>1
      <4> HIDE DEF f
      <4> QED
        BY <3>2, <4>1
    <3>4. rd'.f.dseq = trk'.read /\ trk'.acked < trk'.read
      BY <3>1, <3>2
    <3> QED
      BY <3>3, <3>4 DEF ReaderInv
  <2>5. AbsentInv'
    <3>1. trk.read + 1 > 0
      BY <1>4
    <3> HIDE DEF f
    <3> QED
      BY <1>2, <2>1, <2>2, <3>1 DEF DurabilityInv, AbsentInv
  <2> QED
    BY <1>3, <2>3, <2>4, <2>5 DEF DurabilityInv
<1> QED
  BY <1>5, <1>6

LEMMA UpsertDurable ==
    ASSUME TypeOK, DurabilityInv, NEW w \in writes, UpsertOk(w), [Next]_vars
    PROVE  DurabilityInv'
<1>1. /\ writes' \subseteq writes /\ UNCHANGED <<inbox, base, hist>>
      /\ w.f.key \in Keys /\ w.f.dseq \in Nat
  BY UpsertRowType DEF UpsertOk, Frame
<1>2. /\ \A k \in Keys : Stored(k) => Stored(k)'
      /\ \A k \in Keys : rows'[k].st = "none" => rows'[k] = NoRow
  BY RowsStay
<1>3. CASE ~Awaited(w) \/ stopping
  <2>1. UNCHANGED trk /\ (rd' = rd \/ rd' = [rd EXCEPT !.pc = "over"])
    BY <1>3 DEF UpsertOk
  <2>2. rd' = rd \/ rd'.pc # "upsert"
    BY <2>1, ReaderMoves DEF TypeOK
  <2> QED
    BY <1>1, <2>1, <2>2, QuietStep
<1>4. CASE Awaited(w) /\ ~stopping
  <2>1. /\ rd' = [rd EXCEPT !.pc = "gate"] /\ Record(trk, w.f.dseq)
        /\ rd.pc = "upsert" /\ rd.f = w.f
    BY <1>4 DEF UpsertOk, Awaited
  <2>2. rd'.pc = "gate"
    BY <2>1, ReaderMoves DEF TypeOK
  <2>3. AckedIsDurable'
    BY <1>1, <1>2 DEF AckedIsDurable, DurabilityInv, TypeOK, History
  <2>4. AbsentInv'
    BY <1>1, <1>2 DEF AbsentInv, DurabilityInv
  <2>5. ReaderInv'
    BY <2>2 DEF ReaderInv
  <2>6. Stored(w.f.key)'
    <3>1. w \in Write /\ w.f.dseq > 0 /\ w.cs \in Nat
      BY UpsertRowType DEF DurabilityInv, AbsentInv, Write
    <3>2. rows'[w.f.key] = UpsertRow(rows[w.f.key], w)
      BY <1>1 DEF TypeOK, UpsertOk
    <3>3. rows[w.f.key].st = "none" => rows[w.f.key] = NoRow
      BY <1>1 DEF DurabilityInv, AbsentInv
    <3>4. rows[w.f.key] = NoRow => Newer(w, rows[w.f.key])
      BY <1>1, <3>1 DEF Newer, NoRow
    <3>5. UpsertRow(rows[w.f.key], w).st # "none"
      BY <3>3, <3>4 DEF UpsertRow
    <3> QED
      BY <1>1, <3>2, <3>5 DEF Stored
  <2>7. CASE trk.on
    <3>1. /\ trk \in Tracker /\ base \in Nat /\ trk.acked \in Nat /\ trk.read \in Nat
          /\ base <= trk.acked /\ trk.acked <= trk.read /\ trk.read <= base + Len(inbox)
          /\ \A x \in trk.pend : x <= trk.read
          /\ inbox \in Seq(Entry)
      BY <2>7 DEF TypeOK, Tracker, DurabilityInv, WatermarkInv
    <3>2. w.f.dseq = trk.read /\ inbox[trk.read - base].key = w.f.key
      BY <2>1, <2>7 DEF DurabilityInv, ReaderInv
    <3>3. ASSUME NEW i \in 1 .. Len(inbox),
                 base + i <= trk.acked \/ base + i \in trk.pend \cup {w.f.dseq},
                 inbox[i].key # Mark
          PROVE  Stored(inbox[i].key)'
      <4>1. inbox[i].key \in Keys
        <5>1. inbox[i] \in Entry
          BY <3>1
        <5> QED
          BY <3>3, <5>1 DEF Entry
      <4>2. CASE base + i <= trk.acked \/ base + i \in trk.pend
        BY <1>1, <1>2, <2>7, <3>3, <4>1, <4>2 DEF DurabilityInv, WatermarkInv
      <4>3. CASE base + i = trk.read
        <5>1. i = trk.read - base
          BY <3>1, <4>3
        <5> QED
          BY <1>1, <2>6, <3>2, <5>1
      <4> QED
        BY <3>2, <3>3, <4>2, <4>3
    <3>4. /\ base <= trk'.acked /\ trk'.acked <= trk'.read
          /\ trk'.read <= base + Len(inbox)
          /\ \A x \in trk'.pend : x <= trk'.read
          /\ \A i \in 1 .. Len(inbox) :
               /\ base + i <= trk'.acked \/ base + i \in trk'.pend
               /\ inbox[i].key # Mark
               => Stored(inbox[i].key)'
      <4>1. w.f.dseq <= trk.read
        BY <3>1, <3>2
      <4> QED
        BY <1>1, <2>1, <3>1, <3>3, <4>1, RecordDurable
    <3>5. WatermarkInv'
      BY <1>1, <3>4 DEF WatermarkInv
    <3> QED
      BY <2>3, <2>4, <2>5, <3>5 DEF DurabilityInv
  <2>8. CASE ~trk.on
    <3>1. ~trk'.on
      BY <2>1, <2>8 DEF TypeOK, Tracker, Record
    <3> QED
      BY <2>3, <2>4, <2>5, <3>1 DEF DurabilityInv, WatermarkInv
  <2> QED
    BY <2>7, <2>8
<1> QED
  BY <1>3, <1>4

LEMMA CutSequence ==
    ASSUME NEW S, NEW q \in Seq(S), NEW n \in 1 .. Len(q)
    PROVE  /\ SubSeq(q, n + 1, Len(q)) \in Seq(S) /\ SubSeq(q, 1, n) \in Seq(S)
           /\ Len(SubSeq(q, n + 1, Len(q))) = Len(q) - n /\ Len(SubSeq(q, 1, n)) = n
           /\ \A i \in 1 .. Len(q) - n : SubSeq(q, n + 1, Len(q))[i] = q[n + i]
           /\ \A i \in 1 .. n : SubSeq(q, 1, n)[i] = q[i]
<1>1. \A i \in 1 .. Len(q) : q[i] \in S
  OBVIOUS
<1>2. n \in Nat /\ Len(q) \in Nat /\ n + 1 \in Int
  OBVIOUS
<1>3. /\ SubSeq(q, 1, n) \in Seq(S) /\ Len(SubSeq(q, 1, n)) = n
      /\ \A i \in 1 .. n : SubSeq(q, 1, n)[i] = q[i]
  BY <1>1, <1>2, SubSeqProperties
<1> DEFINE m == n + 1
<1>4. /\ SubSeq(q, m, Len(q)) \in Seq(S)
      /\ Len(SubSeq(q, m, Len(q))) = IF m <= Len(q) THEN Len(q) - m + 1 ELSE 0
      /\ \A i \in 1 .. Len(q) - m + 1 : SubSeq(q, m, Len(q))[i] = q[m + i - 1]
  <2>1. m \in Int /\ \A i \in m .. Len(q) : q[i] \in S
    BY <1>1, <1>2
  <2> HIDE DEF m
  <2> QED
    BY <1>2, <2>1, SubSeqProperties
<1>5. Len(SubSeq(q, m, Len(q))) = Len(q) - n
  BY <1>2, <1>4
<1>6. ASSUME NEW i \in 1 .. Len(q) - n PROVE SubSeq(q, m, Len(q))[i] = q[n + i]
  <2>1. i \in 1 .. Len(q) - m + 1 /\ m + i - 1 = n + i
    BY <1>2
  <2> QED
    BY <1>4, <2>1
<1> QED
  BY <1>3, <1>4, <1>5, <1>6

LEMMA AckDurable ==
    ASSUME TypeOK, DurabilityInv, Ack
    PROVE  DurabilityInv'
<1> DEFINE n == trk.acked - base
<1>1. /\ trk.on /\ inbox' = SubSeq(inbox, n + 1, Len(inbox)) /\ base' = trk.acked
      /\ UNCHANGED <<rows, trk, rd, writes>>
  BY DEF Ack
<1>2. /\ base \in Nat /\ trk.acked \in Nat /\ trk.read \in Nat /\ inbox \in Seq(Entry)
      /\ base <= trk.acked /\ trk.acked <= trk.read /\ trk.read <= base + Len(inbox)
      /\ \A x \in trk.pend : x <= trk.read
      /\ n \in 1 .. Len(inbox)
  BY <1>1 DEF TypeOK, Tracker, DurabilityInv, WatermarkInv, Ack
<1>3. /\ Len(inbox') = Len(inbox) - n
      /\ \A i \in 1 .. Len(inbox) - n : inbox'[i] = inbox[n + i]
  <2> HIDE DEF n
  <2> QED
    BY <1>1, <1>2, CutSequence
<1>4. /\ hist'.pruned = hist.pruned
      /\ hist'.acked = hist.acked \cup (KeysIn(SubSeq(inbox, 1, n)) \ {Mark})
  BY DEF TypeOK, History, Ack
<1>5. \A x : Stored(x)' <=> Stored(x')
  BY <1>1, <1>4 DEF Stored
<1>6. AckedIsDurable'
  <2>1. ASSUME NEW k \in KeysIn(SubSeq(inbox, 1, n)) \ {Mark} PROVE Stored(k)
    <3>2. /\ Len(SubSeq(inbox, 1, n)) = n
          /\ \A i \in 1 .. n : SubSeq(inbox, 1, n)[i] = inbox[i]
      <4> HIDE DEF n
      <4> QED
        BY <1>2, CutSequence
    <3>3. PICK i \in 1 .. n : k = inbox[i].key
      BY <2>1, <3>2 DEF KeysIn
    <3>4. i \in 1 .. Len(inbox) /\ base + i <= trk.acked
      BY <1>2
    <3> QED
      BY <1>1, <2>1, <3>3, <3>4 DEF DurabilityInv, WatermarkInv
  <2> QED
    BY <1>1, <1>4, <2>1 DEF DurabilityInv, AckedIsDurable, Stored
<1>7. WatermarkInv'
  <2>1. ASSUME NEW i \in 1 .. Len(inbox'),
               base' + i <= trk.acked \/ base' + i \in trk.pend, inbox'[i].key # Mark
        PROVE  Stored(inbox'[i].key)
    <3>1. /\ n + i \in 1 .. Len(inbox) /\ inbox'[i] = inbox[n + i]
          /\ base + (n + i) = base' + i
      <4>1. base + n = trk.acked /\ n \in Nat
        BY <1>2
      <4> HIDE DEF n
      <4>2. i \in 1 .. Len(inbox) - n /\ inbox'[i] = inbox[n + i]
        BY <1>3, <2>1
      <4>3. Len(inbox) \in Nat /\ base \in Nat /\ base' = trk.acked
        BY <1>1, <1>2
      <4>4. n + i \in 1 .. Len(inbox)
        BY <4>1, <4>2, <4>3
      <4>5. base + (n + i) = base' + i
        BY <4>1, <4>2, <4>3
      <4> QED
        BY <4>2, <4>4, <4>5
    <3> DEFINE j == n + i
    <3>2. j \in 1 .. Len(inbox) /\ inbox'[i] = inbox[j]
          /\ (base + j <= trk.acked \/ base + j \in trk.pend) /\ inbox[j].key # Mark
      BY <2>1, <3>1
    <3> HIDE DEF j
    <3> QED
      BY <1>1, <3>2 DEF DurabilityInv, WatermarkInv
  <2>2. trk.read <= base' + Len(inbox')
    <3>1. base + n = trk.acked /\ n \in Nat /\ Len(inbox) \in Nat
      BY <1>2
    <3>2. Len(inbox') = Len(inbox) - n /\ base' = trk.acked
      BY <1>1, <1>3
    <3> HIDE DEF n
    <3> QED
      BY <1>2, <3>1, <3>2
  <2>3. \A i \in 1 .. Len(inbox') :
          /\ base' + i <= trk'.acked \/ base' + i \in trk'.pend
          /\ inbox'[i].key # Mark
          => Stored(inbox[i].key)'
    <3> HIDE DEF n
    <3> QED
      BY <1>1, <1>4, <2>1 DEF Stored
  <2>4. base' <= trk'.acked /\ trk'.acked <= trk'.read /\ \A d \in trk'.pend : d <= trk'.read
    BY <1>1, <1>2
  <2>5. trk'.read <= base' + Len(inbox')
    BY <1>1, <2>2
  <2> QED
    BY <2>3, <2>4, <2>5 DEF WatermarkInv
<1>8. ReaderInv'
  <2>1. ASSUME rd.pc = "upsert"
        PROVE  trk.acked < trk.read /\ inbox'[trk.read - base'].key = rd.f.key
               /\ rd.f.dseq = trk.read
    <3>1. trk.acked < trk.read /\ inbox[trk.read - base].key = rd.f.key
          /\ rd.f.dseq = trk.read
      BY <1>1, <2>1 DEF DurabilityInv, ReaderInv
    <3>2. /\ trk.read - base' \in 1 .. Len(inbox) - n
          /\ n + (trk.read - base') = trk.read - base
      <4>1. base + n = trk.acked /\ n \in Nat /\ Len(inbox) \in Nat
        BY <1>2
      <4> HIDE DEF n
      <4> QED
        BY <1>1, <1>2, <3>1, <4>1
    <3> QED
      BY <1>3, <3>1, <3>2
  <2> QED
    BY <1>1, <2>1 DEF ReaderInv
<1>9. AbsentInv'
  BY <1>1 DEF DurabilityInv, AbsentInv
<1> QED
  BY <1>6, <1>7, <1>8, <1>9 DEF DurabilityInv

LEMMA NextDurable == TypeOK /\ DurabilityInv /\ [Next]_vars => DurabilityInv'
<1> SUFFICES ASSUME TypeOK, DurabilityInv, [Next]_vars PROVE DurabilityInv'
  OBVIOUS
<1> DEFINE Quiet ==
      /\ inbox' = inbox /\ base' = base /\ hist'.acked = hist.acked
      /\ trk'.on => /\ trk.on /\ trk'.read = trk.read /\ trk'.acked = trk.acked
                    /\ trk'.pend = trk.pend
      /\ rd' = rd \/ rd'.pc # "upsert"
      /\ writes' \subseteq writes
<1>1. Quiet => DurabilityInv'
  BY QuietStep
<1>2. ASSUME NEW k \in Keys \cup {Mark}, NEW p \in BOOLEAN, Push(k, p) PROVE DurabilityInv'
  BY <1>2, PushDurable
<1>3. CASE Drop
  BY <1>1, <1>3 DEF Drop
<1>4. CASE Handshake
  <2>1. CASE HelloOk
    BY <2>1, HelloDurable
  <2>2. CASE Connect
    BY <1>1, <2>2 DEF Connect, NoTracker
  <2>3. ASSUME NEW g \in regs, Register(g) PROVE Quiet
    <3>1. trk' = trk \/ trk' = [trk EXCEPT !.seq = seq + 1]
      BY <2>3 DEF Register
    <3>2. trk'.on = trk.on /\ trk'.read = trk.read /\ trk'.acked = trk.acked
          /\ trk'.pend = trk.pend
      BY <3>1 DEF TypeOK, Tracker
    <3>3. rd' = rd \/ rd'.pc = "idle"
      BY <2>3, ReaderMoves DEF TypeOK, Register
    <3> QED
      BY <2>3, <3>2, <3>3 DEF Register
  <2>4. ASSUME NEW g \in regs, RegisterCancelled(g) PROVE Quiet
    <3>1. rd' = rd \/ rd'.pc = "over"
      BY <2>4, ReaderMoves DEF TypeOK, RegisterCancelled
    <3> QED
      BY <2>4, <3>1 DEF RegisterCancelled
  <2>5. ASSUME NEW g \in regs, RegisterFails(g) PROVE Quiet
    BY <2>5, CloseType DEF TypeOK, RegisterFails
  <2> QED
    BY <1>1, <1>4, <2>1, <2>2, <2>3, <2>4, <2>5 DEF Handshake
<1>5. CASE Reader
  <2>1. CASE ReadMark \/ ReadFrame
    BY <2>1, ReadDurable
  <2>2. CASE ReadGap
    BY <1>1, <2>2, CloseType DEF TypeOK, ReadGap
  <2>3. CASE ReadEnds \/ GateAbandoned
    <3>1. rd'.pc = "over"
      BY <2>3, ReaderMoves DEF TypeOK, ReadEnds, GateAbandoned
    <3> QED
      BY <1>1, <2>3, <3>1 DEF ReadEnds, GateAbandoned
  <2>4. ASSUME NEW w \in writes, UpsertOk(w) PROVE DurabilityInv'
    BY <2>4, UpsertDurable
  <2>5. ASSUME NEW w \in writes, UpsertRefused(w) PROVE Quiet
    <3>1. CASE Awaited(w)
      BY <2>5, <3>1, CloseType DEF TypeOK, UpsertRefused
    <3>2. CASE ~Awaited(w)
      BY <2>5, <3>2 DEF UpsertRefused
    <3> QED
      BY <3>1, <3>2
  <2>6. CASE GateTimesOut
    BY <1>1, <2>6 DEF GateTimesOut
  <2>7. CASE Dispatch
    <3>1. rd'.pc \in {"idle", "inline", "finish"}
      BY <2>7, ReaderMoves DEF TypeOK, Dispatch
    <3> QED
      BY <1>1, <2>7, <3>1 DEF Dispatch
  <2>8. ASSUME NEW st \in {"done", "failed"}, InlineEnds(st) PROVE Quiet
    <3>1. rd'.pc = "finish" /\ hist'.acked = hist.acked
      BY <2>8, ReaderMoves DEF TypeOK, InlineEnds, History
    <3> QED
      BY <2>8, <3>1 DEF InlineEnds
  <2>9. CASE Ack
    BY <2>9, AckDurable
  <2> QED
    BY <1>1, <1>5, <2>1, <2>2, <2>3, <2>4, <2>5, <2>6, <2>7, <2>8, <2>9 DEF Reader
<1>6. ASSUME NEW c \in Chats, Lane(c) PROVE Quiet
  BY <1>6 DEF Lane, LaneClaims, LaneSkips, LaneRetries, LaneEnds, TypeOK, History
<1>7. ASSUME NEW r \in Recoveries, Recovery(r) PROVE Quiet
  BY <1>7 DEF Recovery, Recover, RecoverFails, RecoverRow, GateOpens, RecoverSignal,
              RecoveredSignalEnds, TypeOK, History
<1>8. CASE RetryWakes \/ StartRecoveryEnds \/ RetryEnds
  BY <1>1, <1>8 DEF RetryWakes, StartRecoveryEnds, RetryEnds
<1>9. ASSUME NEW n \in finishes, NEW ok \in BOOLEAN, FinishCommits(n, ok) PROVE Quiet
  BY <1>9 DEF FinishCommits
<1>10. CASE Supervisor
  <2>1. ~NoTracker.on /\ NoReader.pc # "upsert"
    BY DEF NoTracker, NoReader
  <2> QED
    BY <1>1, <1>10, <2>1 DEF Supervisor, Flushed, Teardown, Away, AwayCloses, Resume,
                             StopBegins, StopEnds, Crash, Reset
<1>11. ASSUME NEW granted \in BOOLEAN, SenderConnects(granted) PROVE Quiet
  BY <1>11 DEF SenderConnects
<1>12. CASE SenderRecovers \/ UNCHANGED vars
  BY <1>1, <1>12 DEF SenderRecovers
<1> HIDE DEF Quiet
<1> QED
  BY <1>1, <1>2, <1>3, <1>4, <1>5, <1>6, <1>7, <1>8, <1>9, <1>10, <1>11, <1>12 DEF Next

LEMMA InitDurable == Init => DurabilityInv
BY DEF Init, DurabilityInv, AckedIsDurable, WatermarkInv, ReaderInv, AbsentInv, NoTracker

LEMMA Inductive == Spec => [](TypeOK /\ DurabilityInv)
<1>1. Init => TypeOK /\ DurabilityInv
  BY InitType, InitDurable
<1>2. TypeOK /\ DurabilityInv /\ [Next]_vars => TypeOK' /\ DurabilityInv'
  BY NextType, NextDurable
<1> QED
  BY <1>1, <1>2, PTL DEF Spec

\* The variables of the delivery keep their types, whatever the constants.
THEOREM DeliveryTypes == Spec => []TypeOK
BY Inductive, PTL

\* No frame is acknowledged to the server before its receipt is committed: with
\* any number of connections, failed or orphaned writes, stops and crashes.
THEOREM AckedFramesAreDurable == Spec => []AckedIsDurable
<1>1. TypeOK /\ DurabilityInv => AckedIsDurable
  BY DEF DurabilityInv
<1> QED
  BY <1>1, Inductive, PTL

-----------------------------------------------------------------------------
(* The frames in the hands of the tasks are stored. *)

StoredKeys == {k \in Keys : Stored(k)}

ReaderWithin(t, S) == t.pc \in {"gate", "inline"} => t.f.key \in S

LaneWithin(t, S) == \A i \in 1 .. Len(t.q) : t.q[i].key \in S

RecoveryWithin(t, S) ==
    /\ \A u \in t.todo : u.f.key \in S
    /\ \A i \in 1 .. Len(t.later) : t.later[i].key \in S
    /\ t.pc = "inline" => t.f.key \in S

\* What the reader, the lanes and the recoveries hold was stored before.
TasksHoldStored ==
    /\ ReaderWithin(rd, StoredKeys)
    /\ \A c \in Chats : LaneWithin(lanes[c], StoredKeys)
    /\ \A r \in Recoveries : RecoveryWithin(rec[r], StoredKeys)

LEMMA StoredStays ==
    ASSUME TypeOK, DurabilityInv, [Next]_vars
    PROVE  StoredKeys \subseteq StoredKeys'
BY RowsStay DEF StoredKeys

LEMMA WithinGrows ==
    ASSUME NEW S, NEW T, S \subseteq T, NEW t
    PROVE  /\ ReaderWithin(t, S) => ReaderWithin(t, T)
           /\ LaneWithin(t, S) => LaneWithin(t, T)
           /\ RecoveryWithin(t, S) => RecoveryWithin(t, T)
BY DEF ReaderWithin, LaneWithin, RecoveryWithin

\* Tasks that stay, or that hold nothing, keep it.
LEMMA EmptyHands ==
    ASSUME NEW S
    PROVE  ReaderWithin(NoReader, S) /\ LaneWithin(IdleLane, S) /\ RecoveryWithin(NoRecovery, S)
BY DEF ReaderWithin, LaneWithin, RecoveryWithin, NoReader, IdleLane, NoRecovery

LEMMA LaneAppends ==
    ASSUME NEW S, NEW t \in LaneTask, NEW f \in LaneFrame, LaneWithin(t, S), f.key \in S
    PROVE  LaneWithin([t EXCEPT !.q = Append(@, f)], S)
<1> DEFINE q == Append(t.q, f)
<1>1. t.q \in Seq(LaneFrame)
  BY DEF LaneTask
<1>2. /\ Len(q) = Len(t.q) + 1 /\ q[Len(t.q) + 1] = f
      /\ \A i \in 1 .. Len(t.q) : q[i] = t.q[i]
  BY <1>1
<1>3. [t EXCEPT !.q = Append(@, f)].q = q
  BY DEF LaneTask
<1>4. \A i \in 1 .. Len(q) : q[i].key \in S
  <2>1. ASSUME NEW i \in 1 .. Len(q) PROVE q[i].key \in S
    <3>1. Len(t.q) \in Nat /\ (i \in 1 .. Len(t.q) \/ i = Len(t.q) + 1)
      BY <1>1, <1>2
    <3> QED
      BY <1>2, <3>1 DEF LaneWithin
  <2> QED
    BY <2>1
<1> HIDE DEF q
<1> QED
  BY <1>3, <1>4 DEF LaneWithin

\* A lane that takes its first frame holds the others.
LEMMA TailWithin ==
    ASSUME NEW R, NEW q \in Seq(R), q # <<>>, NEW S,
           \A i \in 1 .. Len(q) : q[i].key \in S
    PROVE  /\ \A i \in 1 .. Len(Tail(q)) : Tail(q)[i].key \in S
           /\ Head(q).key \in S
<1>1. /\ Len(Tail(q)) = Len(q) - 1 /\ Head(q) = q[1] /\ Len(q) \in Nat /\ Len(q) >= 1
      /\ \A i \in 1 .. Len(Tail(q)) : Tail(q)[i] = q[i + 1]
  OBVIOUS
<1> QED
  BY <1>1

LEMMA ReaderHoldsStored ==
    ASSUME TypeOK, DurabilityInv, TasksHoldStored, [Next]_vars
    PROVE  ReaderWithin(rd, StoredKeys)'
<1> DEFINE Kept == rd' = rd \/ rd'.pc \notin {"gate", "inline"}
<1>1. ASSUME Kept PROVE ReaderWithin(rd, StoredKeys)'
  BY <1>1, StoredStays, WithinGrows DEF TasksHoldStored, ReaderWithin
<1>2. ASSUME NEW w \in writes, UpsertOk(w), Awaited(w), rd'.pc = "gate"
      PROVE  ReaderWithin(rd, StoredKeys)'
  <2>1. /\ w.f.key \in Keys /\ w.f.dseq > 0 /\ w \in Write
        /\ rows' = [rows EXCEPT ![w.f.key] = UpsertRow(rows[w.f.key], w)]
    BY <1>2, UpsertRowType DEF UpsertOk, DurabilityInv, AbsentInv
  <2>2. rd'.f = w.f
    BY <1>2, ReaderMoves DEF TypeOK, UpsertOk, Awaited
  <2>3. UpsertRow(rows[w.f.key], w).st # "none"
    <3>1. CASE rows[w.f.key].st = "none"
      <4>1. rows[w.f.key].cs = 0 /\ rows[w.f.key].dseq = 0
        BY <2>1, <3>1 DEF DurabilityInv, AbsentInv, NoRow
      <4>2. w.cs \in Nat
        BY <2>1 DEF Write
      <4>3. Newer(w, rows[w.f.key])
        BY <2>1, <4>1, <4>2 DEF Newer
      <4> QED
        BY <4>3 DEF UpsertRow
    <3>2. CASE rows[w.f.key].st # "none"
      BY <3>2 DEF UpsertRow
    <3> QED
      BY <3>1, <3>2
  <2> QED
    BY <2>1, <2>2, <2>3 DEF TypeOK, ReaderWithin, StoredKeys, Stored
<1>3. ASSUME NEW w \in writes, UpsertOk(w) PROVE ReaderWithin(rd, StoredKeys)'
  <2>1. CASE Awaited(w) /\ ~stopping
    BY <1>2, <1>3, <2>1, ReaderMoves DEF TypeOK, UpsertOk
  <2>2. CASE Awaited(w) /\ stopping
    BY <1>1, <1>3, <2>2, ReaderMoves DEF TypeOK, UpsertOk
  <2>3. CASE ~Awaited(w)
    BY <1>1, <1>3, <2>3 DEF UpsertOk
  <2> QED
    BY <2>1, <2>2, <2>3
<1>4. CASE Dispatch
  <2>1. rd.f.key \in StoredKeys /\ (Kept \/ rd'.f = rd.f)
    BY <1>4, ReaderMoves DEF TypeOK, TasksHoldStored, ReaderWithin, Dispatch
  <2> QED
    BY <1>1, <2>1, StoredStays DEF ReaderWithin
<1>5. CASE Reader
  <2>1. CASE ReadMark \/ ReadFrame \/ GateTimesOut \/ Ack
    BY <1>1, <2>1 DEF ReadMark, ReadFrame, GateTimesOut, Ack
  <2>2. CASE ReadGap
    BY <1>1, <2>2, CloseType DEF TypeOK, ReadGap
  <2>3. CASE ReadEnds \/ GateAbandoned
    BY <1>1, <2>3, ReaderMoves DEF TypeOK, ReadEnds, GateAbandoned
  <2>4. ASSUME NEW w \in writes, UpsertRefused(w) PROVE Kept
    BY <2>4, CloseType DEF TypeOK, UpsertRefused
  <2>5. ASSUME NEW st \in {"done", "failed"}, InlineEnds(st) PROVE Kept
    BY <2>5, ReaderMoves DEF TypeOK, InlineEnds
  <2> QED
    BY <1>1, <1>3, <1>4, <1>5, <2>1, <2>2, <2>3, <2>4, <2>5 DEF Reader
<1>6. CASE Handshake
  <2>1. ASSUME NEW g \in regs, Register(g) \/ RegisterCancelled(g) PROVE Kept
    BY <2>1, ReaderMoves DEF TypeOK, Register, RegisterCancelled
  <2>2. ASSUME NEW g \in regs, RegisterFails(g) PROVE Kept
    BY <2>2, CloseType DEF TypeOK, RegisterFails
  <2>3. CASE Connect
    BY <1>1, <2>3 DEF Connect
  <2>4. CASE HelloOk
    BY <1>1, <2>4, ReaderMoves DEF TypeOK, HelloOk
  <2> QED
    BY <1>1, <1>6, <2>1, <2>2, <2>3, <2>4 DEF Handshake
<1>7. ASSUME NEW n \in finishes, NEW ok \in BOOLEAN, FinishCommits(n, ok) PROVE Kept
  BY <1>7 DEF FinishCommits
<1>8. CASE Supervisor
  BY <1>1, <1>8, ConstantTypes DEF Supervisor, Flushed, Teardown, Away, AwayCloses, Resume,
                             StopBegins, StopEnds, Crash, Reset
<1>9. ASSUME NEW c \in Chats, Lane(c) PROVE Kept
  BY <1>9 DEF Lane, LaneClaims, LaneSkips, LaneRetries, LaneEnds
<1>10. ASSUME NEW r \in Recoveries, Recovery(r) PROVE Kept
  BY <1>10 DEF Recovery, Recover, RecoverFails, RecoverRow, GateOpens, RecoverSignal,
               RecoveredSignalEnds
<1>11. ASSUME NEW k, NEW p, Push(k, p) PROVE Kept
  BY <1>11 DEF Push
<1>12. ASSUME NEW granted, SenderConnects(granted) PROVE Kept
  BY <1>12 DEF SenderConnects
<1>13. CASE Drop \/ RetryWakes \/ StartRecoveryEnds \/ RetryEnds \/ SenderRecovers
            \/ UNCHANGED vars
  BY <1>1, <1>13 DEF Drop, RetryWakes, StartRecoveryEnds, RetryEnds, SenderRecovers
<1> HIDE DEF Kept
<1> QED
  BY <1>1, <1>5, <1>6, <1>7, <1>8, <1>9, <1>10, <1>11, <1>12, <1>13 DEF Next

LEMMA LanesHoldStored ==
    ASSUME TypeOK, DurabilityInv, TasksHoldStored, [Next]_vars, NEW c \in Chats
    PROVE  LaneWithin(lanes[c], StoredKeys)'
<1> DEFINE Kept == lanes'[c].q = lanes[c].q
<1>1. LaneWithin(lanes[c], StoredKeys')
  BY StoredStays, WithinGrows DEF TasksHoldStored
<1>2. ASSUME Kept PROVE LaneWithin(lanes[c], StoredKeys)'
  BY <1>1, <1>2 DEF LaneWithin
<1>3. ASSUME NEW f \in LaneFrame, f.key \in StoredKeys, ToLane(f)
      PROVE  LaneWithin(lanes[c], StoredKeys)'
  <2> DEFINE d == ChatOf[f.key]
             t == [lanes[d] EXCEPT !.q = Append(@, f)]
  <2>1. lanes' = [lanes EXCEPT ![d] = t] /\ lanes \in [Chats -> LaneTask]
    BY <1>3 DEF ToLane, TypeOK
  <2>2. f.key \in StoredKeys'
    BY <1>3, StoredStays
  <2>3. CASE c = d
    <3>1. LaneWithin(t, StoredKeys')
      BY <1>1, <2>1, <2>2, <2>3, LaneAppends
    <3> HIDE DEF t, d
    <3>2. lanes'[c] = t
      BY <2>1, <2>3
    <3> QED
      BY <3>1, <3>2
  <2>4. CASE c # d
    <3> HIDE DEF t, d
    <3>1. lanes'[c] = lanes[c]
      BY <2>1, <2>4
    <3> QED
      BY <1>2, <3>1
  <2> QED
    BY <2>3, <2>4
<1>4. ASSUME lanes[c].q # <<>>, lanes'[c].q = Tail(lanes[c].q)
      PROVE  LaneWithin(lanes[c], StoredKeys)'
  <2>1. lanes[c].q \in Seq(LaneFrame)
    BY DEF TypeOK, LaneTask
  <2>2. \A i \in 1 .. Len(Tail(lanes[c].q)) : Tail(lanes[c].q)[i].key \in StoredKeys'
    <3>1. \A i \in 1 .. Len(lanes[c].q) : lanes[c].q[i].key \in StoredKeys'
      BY <1>1 DEF LaneWithin
    <3> QED
      BY <1>4, <2>1, <3>1, TailWithin
  <2> QED
    BY <1>4, <2>2 DEF LaneWithin
<1>5. CASE Dispatch
  <2>1. CASE lanes' = lanes
    BY <1>2, <2>1
  <2>2. CASE rd.f.key \in Messages /\ ToLane(rd.f)
    <3>1. rd.f \in LaneFrame /\ rd.f.key \in StoredKeys
      BY <1>5, <2>2, LaneFrameIsFrame DEF Dispatch, TypeOK, TasksHoldStored, ReaderWithin
    <3> QED
      BY <1>3, <2>2, <3>1
  <2> QED
    BY <1>5, <2>1, <2>2 DEF Dispatch
<1>6. ASSUME NEW r \in Recoveries, RecoverRow(r) PROVE LaneWithin(lanes[c], StoredKeys)'
  <2>1. CASE lanes' = lanes
    BY <1>2, <2>1
  <2>2. ASSUME NEW t \in rec[r].todo, t.f.key \in Messages, ToLane(t.f)
        PROVE  LaneWithin(lanes[c], StoredKeys)'
    <3>1. t.f \in Frame
      BY DEF TypeOK, RecoveryTask
    <3>2. t.f \in LaneFrame /\ t.f.key \in StoredKeys
      BY <2>2, <3>1, LaneFrameIsFrame DEF TasksHoldStored, RecoveryWithin
    <3> QED
      BY <1>3, <2>2, <3>2
  <2> QED
    BY <1>6, <2>1, <2>2 DEF RecoverRow
<1>7. ASSUME NEW d \in Chats, Lane(d) PROVE LaneWithin(lanes[c], StoredKeys)'
  <2>1. ASSUME NEW pc, Waiting(d), Pop(d, pc) PROVE LaneWithin(lanes[c], StoredKeys)'
    <3>1. c # d => lanes'[c] = lanes[c]
      BY <2>1 DEF Pop, TypeOK
    <3>2. c = d => lanes[c].q # <<>> /\ lanes'[c].q = Tail(lanes[c].q)
      BY <2>1 DEF Pop, Waiting, TypeOK
    <3> QED
      BY <1>2, <1>4, <3>1, <3>2
  <2>2. CASE LaneRetries(d)
    <3>1. lanes' = [lanes EXCEPT ![d].q = Tail(@)] /\ lanes[d].q # <<>>
      BY <2>2 DEF LaneRetries, Waiting
    <3>2. c # d => lanes'[c] = lanes[c]
      BY <3>1 DEF TypeOK
    <3>3. c = d => lanes[c].q # <<>> /\ lanes'[c].q = Tail(lanes[c].q)
      BY <3>1 DEF TypeOK, LaneTask
    <3> QED
      BY <1>2, <1>4, <3>2, <3>3
  <2>3. ASSUME NEW st, LaneEnds(d, st) PROVE LaneWithin(lanes[c], StoredKeys)'
    <3>1. lanes' = [lanes EXCEPT ![d].pc = "finish"]
      BY <2>3 DEF LaneEnds
    <3>2. lanes'[c].q = lanes[c].q
      BY <3>1 DEF TypeOK, LaneTask
    <3> QED
      BY <1>2, <3>2
  <2> QED
    BY <1>7, <2>1, <2>2, <2>3 DEF Lane, LaneClaims, LaneSkips
<1>8. ASSUME NEW n \in finishes, NEW ok \in BOOLEAN, FinishCommits(n, ok) PROVE Kept
  <2>1. \/ lanes' = lanes
        \/ n.by \in Chats
           /\ lanes' = [lanes EXCEPT ![n.by] = [@ EXCEPT !.pc = "idle", !.f = NothingRead]]
    BY <1>8 DEF FinishCommits
  <2>2. lanes[c] \in LaneTask
    BY DEF TypeOK
  <2>3. CASE lanes' = lanes
    BY <2>3
  <2>4. CASE lanes' # lanes
    <3>1. lanes'[c] \in {lanes[c], [lanes[c] EXCEPT !.pc = "idle", !.f = NothingRead]}
      BY <2>1, <2>4 DEF TypeOK
    <3>2. [lanes[c] EXCEPT !.pc = "idle", !.f = NothingRead].q = lanes[c].q
      BY <2>2 DEF LaneTask
    <3> QED
      BY <3>1, <3>2
  <2> QED
    BY <2>3, <2>4
<1>9. ASSUME Reset PROVE LaneWithin(lanes[c], StoredKeys)'
  BY <1>9, EmptyHands DEF Reset
<1>10. CASE Supervisor
  BY <1>2, <1>9, <1>10 DEF Supervisor, Flushed, Teardown, Away, AwayCloses, Resume,
                           StopBegins, StopEnds, Crash
<1>11. CASE Reader
  BY <1>2, <1>5, <1>11 DEF Reader, ReadMark, ReadFrame, ReadGap, ReadEnds, UpsertOk,
                           UpsertRefused, GateTimesOut, GateAbandoned, InlineEnds, Ack
<1>12. CASE Handshake
  BY <1>2, <1>12 DEF Handshake, Connect, HelloOk, Register, RegisterCancelled, RegisterFails
<1>13. ASSUME NEW r \in Recoveries, Recovery(r) PROVE LaneWithin(lanes[c], StoredKeys)'
  BY <1>2, <1>6, <1>13 DEF Recovery, Recover, RecoverFails, GateOpens, RecoverSignal,
                           RecoveredSignalEnds
<1>14. ASSUME NEW k, NEW p, Push(k, p) PROVE Kept
  BY <1>14 DEF Push
<1>15. ASSUME NEW granted, SenderConnects(granted) PROVE Kept
  BY <1>15 DEF SenderConnects
<1>16. CASE Drop \/ RetryWakes \/ StartRecoveryEnds \/ RetryEnds \/ SenderRecovers
            \/ UNCHANGED vars
  BY <1>2, <1>16 DEF Drop, RetryWakes, StartRecoveryEnds, RetryEnds, SenderRecovers
<1> HIDE DEF Kept
<1> QED
  BY <1>2, <1>7, <1>8, <1>10, <1>11, <1>12, <1>13, <1>14, <1>15, <1>16 DEF Next

\* One recovery moves; the other stays.
LEMMA RecoveryMoved ==
    ASSUME TypeOK, TasksHoldStored, NEW S, StoredKeys \subseteq S,
           NEW r \in Recoveries, NEW t, rec' = [rec EXCEPT ![r] = t], RecoveryWithin(t, S)
    PROVE  \A s \in Recoveries : RecoveryWithin(rec'[s], S)
<1>1. \A s \in Recoveries : RecoveryWithin(rec[s], S)
  BY WithinGrows DEF TasksHoldStored
<1>2. \A s \in Recoveries : rec'[s] = IF s = r THEN t ELSE rec[s]
  BY DEF TypeOK
<1> QED
  BY <1>1, <1>2

LEMMA RetryScheduled ==
    ASSUME NEW S, NEW tasks \in [Recoveries -> RecoveryTask],
           \A s \in Recoveries : RecoveryWithin(tasks[s], S)
    PROVE  \A s \in Recoveries : RecoveryWithin(ScheduleRetry(tasks)[s], S)
<1> DEFINE asleep == [NoRecovery EXCEPT !.pc = "sleep"]
           again  == [tasks["retry"] EXCEPT !.again = TRUE]
<1>1. RecoveryWithin(asleep, S)
  BY DEF RecoveryWithin, NoRecovery
<1>2. "retry" \in Recoveries
  BY DEF Recoveries
<1>3. RecoveryWithin(again, S)
  <2>1. /\ again.todo = tasks["retry"].todo /\ again.later = tasks["retry"].later
        /\ again.pc = tasks["retry"].pc /\ again.f = tasks["retry"].f
    BY <1>2 DEF RecoveryTask
  <2> HIDE DEF again
  <2> QED
    BY <1>2, <2>1 DEF RecoveryWithin
<1>4. ScheduleRetry(tasks) \in {tasks, [tasks EXCEPT !["retry"] = asleep],
                                [tasks EXCEPT !["retry"] = again]}
  BY DEF ScheduleRetry
<1> HIDE DEF asleep, again
<1> QED
  BY <1>1, <1>2, <1>3, <1>4

LEMMA PendingRowsStored ==
    ASSUME TypeOK
    PROVE  \A u \in PendingRows : u.f.key \in StoredKeys
BY DEF PendingRows, StoredKeys, Stored

LEMMA RecoveriesHoldStored ==
    ASSUME TypeOK, DurabilityInv, TasksHoldStored, [Next]_vars
    PROVE  \A r \in Recoveries : RecoveryWithin(rec'[r], StoredKeys')
<1> DEFINE S    == StoredKeys'
           Goal == \A r \in Recoveries : RecoveryWithin(rec'[r], S)
<1>1. StoredKeys \subseteq S /\ \A r \in Recoveries : RecoveryWithin(rec[r], S)
  BY StoredStays, WithinGrows DEF TasksHoldStored
<1>2. /\ \A r \in Recoveries : rec[r] \in RecoveryTask
      /\ rec \in [Recoveries -> RecoveryTask] /\ "start" \in Recoveries /\ "retry" \in Recoveries
      /\ RecoveryWithin(NoRecovery, S)
      /\ NoRecovery \in RecoveryTask
  BY EmptyHands, ConstantTypes DEF TypeOK, Recoveries
<1>3. ASSUME NEW r \in Recoveries, NEW t, rec' = [rec EXCEPT ![r] = t], RecoveryWithin(t, S)
      PROVE  Goal
  <2> HIDE DEF S
  <2> QED
    BY <1>1, <1>3, RecoveryMoved
<1>4. ASSUME rec' = rec PROVE Goal
  BY <1>1, <1>4
<1>5. ASSUME NEW tasks \in [Recoveries -> RecoveryTask], rec' = ScheduleRetry(tasks),
             \A s \in Recoveries : RecoveryWithin(tasks[s], S)
      PROVE  Goal
  <2> HIDE DEF S
  <2> QED
    BY <1>5, RetryScheduled
<1>6. ASSUME NEW r \in Recoveries, NEW gone, Recover(r, gone) PROVE Goal
  <2> DEFINE t == [rec[r] EXCEPT !.pc = "rows", !.todo = PendingRows, !.ok = TRUE]
  <2>1. rec' = [rec EXCEPT ![r] = t]
    BY <1>6 DEF Recover
  <2>2. t.pc = "rows" /\ t.todo = PendingRows /\ t.later = rec[r].later
    BY <1>2 DEF RecoveryTask
  <2>3. \A u \in PendingRows : u.f.key \in S
    BY <1>1, PendingRowsStored
  <2> HIDE DEF t, S
  <2>4. RecoveryWithin(t, S)
    BY <1>1, <2>2, <2>3 DEF RecoveryWithin
  <2> QED
    BY <1>3, <2>1, <2>4
<1>7. ASSUME NEW r \in Recoveries, RecoverFails(r) PROVE Goal
  <2> DEFINE t == [rec[r] EXCEPT !.pc = "later"]
  <2>1. rec' = [rec EXCEPT ![r] = t]
    BY <1>7 DEF RecoverFails
  <2>2. t.pc = "later" /\ t.todo = rec[r].todo /\ t.later = rec[r].later
    BY <1>2 DEF RecoveryTask
  <2> HIDE DEF t, S
  <2>4. RecoveryWithin(t, S)
    BY <1>1, <2>2 DEF RecoveryWithin
  <2> QED
    BY <1>3, <2>1, <2>4
<1>8. ASSUME NEW r \in Recoveries, RecoverRow(r) PROVE Goal
  <2>1. PICK u \in rec[r].todo :
          LET f    == u.f
              rest == [rec[r] EXCEPT !.todo = @ \ {u}]
          IN  \/ rec' = [rec EXCEPT ![r] = rest]
              \/ rec' = [rec EXCEPT ![r] = [rest EXCEPT !.later = Append(@, f)]]
              \/ rec' = [rec EXCEPT ![r] = [rest EXCEPT !.pc = "finish", !.f = f]]
    BY <1>8 DEF RecoverRow
  <2> DEFINE rest == [rec[r] EXCEPT !.todo = @ \ {u}]
             more == [rest EXCEPT !.later = Append(@, u.f)]
             last == [rest EXCEPT !.pc = "finish", !.f = u.f]
  <2>2. /\ rest.pc = rec[r].pc /\ rest.todo \subseteq rec[r].todo
        /\ rest.later = rec[r].later /\ rest.f = rec[r].f
    BY <1>2 DEF RecoveryTask
  <2>3. /\ more.pc = rec[r].pc /\ more.todo \subseteq rec[r].todo
        /\ more.later = Append(rec[r].later, u.f) /\ more.f = rec[r].f
    BY <1>2 DEF RecoveryTask
  <2>4. /\ last.pc = "finish" /\ last.todo \subseteq rec[r].todo
        /\ last.later = rec[r].later
    BY <1>2 DEF RecoveryTask
  <2>5. rec' \in {[rec EXCEPT ![r] = rest], [rec EXCEPT ![r] = more], [rec EXCEPT ![r] = last]}
    BY <2>1
  <2>6. u.f.key \in S /\ u.f \in Frame /\ rec[r].later \in Seq(Frame)
    BY <1>1, <1>2 DEF RecoveryWithin, RecoveryTask
  <2> HIDE DEF rest, more, last, S
  <2>7. RecoveryWithin(rest, S) /\ RecoveryWithin(last, S)
    BY <1>1, <2>2, <2>4 DEF RecoveryWithin
  <2>8. RecoveryWithin(more, S)
    <3> DEFINE q == Append(rec[r].later, u.f)
    <3>1. /\ Len(q) = Len(rec[r].later) + 1 /\ q[Len(rec[r].later) + 1] = u.f
          /\ \A i \in 1 .. Len(rec[r].later) : q[i] = rec[r].later[i]
          /\ Len(rec[r].later) \in Nat
      BY <2>6
    <3>2. \A i \in 1 .. Len(rec[r].later) : rec[r].later[i].key \in S
      BY <1>1 DEF RecoveryWithin
    <3> HIDE DEF q
    <3>3. ASSUME NEW i \in 1 .. Len(q) PROVE q[i].key \in S
      <4>1. i \in 1 .. Len(rec[r].later) \/ i = Len(rec[r].later) + 1
        BY <3>1
      <4> QED
        BY <2>6, <3>1, <3>2, <4>1
    <3>4. more.later = q
      BY <2>3 DEF q
    <3> QED
      BY <1>1, <2>3, <3>3, <3>4 DEF RecoveryWithin
  <2> QED
    BY <1>3, <2>5, <2>7, <2>8
<1>9. ASSUME NEW r \in Recoveries, GateOpens(r) PROVE Goal
  <2> DEFINE t == [rec[r] EXCEPT !.pc = "later", !.todo = {}]
  <2>1. rec' = [rec EXCEPT ![r] = t]
    BY <1>9 DEF GateOpens
  <2>2. t.pc = "later" /\ t.todo = {} /\ t.later = rec[r].later
    BY <1>2 DEF RecoveryTask
  <2> HIDE DEF t, S
  <2>4. RecoveryWithin(t, S)
    BY <1>1, <2>2 DEF RecoveryWithin
  <2> QED
    BY <1>3, <2>1, <2>4
<1>10. ASSUME NEW r \in Recoveries, RecoverSignal(r) PROVE Goal
  <2> DEFINE f    == Head(rec[r].later)
             rest == [rec[r] EXCEPT !.later = Tail(@), !.f = f]
             run  == [rest EXCEPT !.pc = "inline"]
             last == [rest EXCEPT !.pc = "finish"]
  <2>1. rec' \in {[rec EXCEPT ![r] = run], [rec EXCEPT ![r] = last]}
    BY <1>10 DEF RecoverSignal
  <2>2. /\ run.pc = "inline" /\ run.todo = rec[r].todo /\ run.f = f
        /\ run.later = Tail(rec[r].later)
        /\ last.pc = "finish" /\ last.todo = rec[r].todo
        /\ last.later = Tail(rec[r].later)
    BY <1>2 DEF RecoveryTask
  <2>3. rec[r].later \in Seq(Frame) /\ rec[r].later # <<>>
    BY <1>2, <1>10 DEF RecoveryTask, RecoverSignal
  <2>4. /\ \A i \in 1 .. Len(Tail(rec[r].later)) : Tail(rec[r].later)[i].key \in S
        /\ f.key \in S
    <3>1. \A i \in 1 .. Len(rec[r].later) : rec[r].later[i].key \in S
      BY <1>1 DEF RecoveryWithin
    <3> HIDE DEF S
    <3> QED
      BY <2>3, <3>1, TailWithin
  <2> HIDE DEF f, rest, run, last, S
  <2>5. RecoveryWithin(run, S) /\ RecoveryWithin(last, S)
    BY <1>1, <2>2, <2>4 DEF RecoveryWithin
  <2> QED
    BY <1>3, <2>1, <2>5
<1>11. ASSUME NEW r \in Recoveries, NEW st, RecoveredSignalEnds(r, st) PROVE Goal
  <2> DEFINE t == [rec[r] EXCEPT !.pc = "finish"]
  <2>1. rec' = [rec EXCEPT ![r] = t]
    BY <1>11 DEF RecoveredSignalEnds
  <2>2. t.pc = "finish" /\ t.todo = rec[r].todo /\ t.later = rec[r].later
    BY <1>2 DEF RecoveryTask
  <2> HIDE DEF t, S
  <2>4. RecoveryWithin(t, S)
    BY <1>1, <2>2 DEF RecoveryWithin
  <2> QED
    BY <1>3, <2>1, <2>4
<1>12. ASSUME RetryWakes \/ RetryEnds PROVE Goal
  <2>1. PICK t \in {NoRecovery, [NoRecovery EXCEPT !.pc = "read"], [NoRecovery EXCEPT !.pc = "sleep"]} :
          rec' = [rec EXCEPT !["retry"] = t]
    BY <1>2, <1>12 DEF RetryWakes, RetryEnds
  <2>2. RecoveryWithin(t, S)
    BY DEF RecoveryWithin, NoRecovery
  <2> QED
    BY <1>2, <1>3, <2>1, <2>2
<1>13. ASSUME StartRecoveryEnds PROVE Goal
  <2> DEFINE off == [rec EXCEPT !["start"] = NoRecovery]
  <2>1. rec' = off \/ rec' = ScheduleRetry(off)
    BY <1>13 DEF StartRecoveryEnds
  <2>2. off \in [Recoveries -> RecoveryTask] /\ \A s \in Recoveries : RecoveryWithin(off[s], S)
    BY <1>1, <1>2
  <2> HIDE DEF off, S
  <2> QED
    BY <1>5, <2>1, <2>2 DEF S
<1>14. ASSUME NEW g \in regs, Register(g) PROVE Goal
  <2> DEFINE t == [NoRecovery EXCEPT !.pc = "read"]
  <2>1. rec' = rec \/ rec' = [rec EXCEPT !["start"] = t]
    BY <1>14 DEF Register
  <2>2. RecoveryWithin(t, S)
    BY DEF RecoveryWithin, NoRecovery
  <2> HIDE DEF t, S, Goal
  <2> QED
    BY <1>2, <1>3, <1>4, <2>1, <2>2
<1>15. ASSUME NEW c \in Chats, Lane(c) PROVE Goal
  <2>1. rec' = rec \/ rec' = ScheduleRetry(rec)
    BY <1>15 DEF Lane, LaneClaims, LaneSkips, LaneRetries, LaneEnds
  <2> HIDE DEF S, Goal
  <2> QED
    BY <1>1, <1>2, <1>4, <1>5, <2>1
<1>16. ASSUME NEW n \in finishes, NEW ok \in BOOLEAN, FinishCommits(n, ok) PROVE Goal
  <2>1. CASE n.by \notin Recoveries
    BY <1>4, <1>16, <2>1 DEF FinishCommits
  <2>2. CASE n.by \in Recoveries
    <3> DEFINE pc == IF n.f.key \in Messages THEN "rows" ELSE "later"
               t  == [rec[n.by] EXCEPT !.pc = pc, !.f = NothingRead]
    <3>1. rec' = [rec EXCEPT ![n.by] = t]
      BY <1>16, <2>2 DEF FinishCommits
    <3>2. t.pc = pc /\ t.todo = rec[n.by].todo /\ t.later = rec[n.by].later
      BY <1>2, <2>2 DEF RecoveryTask
    <3>3. pc # "inline"
      OBVIOUS
    <3> HIDE DEF t, pc, S
    <3>4. RecoveryWithin(t, S)
      BY <1>1, <2>2, <3>2, <3>3 DEF RecoveryWithin
    <3> QED
      BY <1>3, <2>2, <3>1, <3>4
  <2> QED
    BY <2>1, <2>2
<1>17. ASSUME Reset PROVE Goal
  BY <1>2, <1>17 DEF Reset
<1>18. ASSUME rec' = [rec EXCEPT !["retry"] = NoRecovery] PROVE Goal
  BY <1>2, <1>3, <1>18
<1>19. ASSUME Supervisor PROVE Goal
  BY <1>4, <1>17, <1>18, <1>19 DEF Supervisor, Flushed, Teardown, Away, AwayCloses, Resume,
                                   StopBegins, StopEnds, Crash
<1>20. ASSUME Reader PROVE Goal
  BY <1>4, <1>20 DEF Reader, ReadMark, ReadFrame, ReadGap, ReadEnds, UpsertOk, UpsertRefused,
                     GateTimesOut, Dispatch, GateAbandoned, InlineEnds, Ack
<1>21. ASSUME Handshake PROVE Goal
  BY <1>4, <1>14, <1>21 DEF Handshake, Connect, HelloOk, RegisterCancelled, RegisterFails
<1>22. ASSUME NEW r \in Recoveries, Recovery(r) PROVE Goal
  BY <1>6, <1>7, <1>8, <1>9, <1>10, <1>11, <1>22 DEF Recovery
<1>23. ASSUME NEW k, NEW p, Push(k, p) PROVE Goal
  BY <1>4, <1>23 DEF Push
<1>24. ASSUME NEW granted, SenderConnects(granted) PROVE Goal
  BY <1>4, <1>24 DEF SenderConnects
<1>25. ASSUME Drop \/ SenderRecovers \/ UNCHANGED vars PROVE Goal
  BY <1>4, <1>25 DEF Drop, SenderRecovers
<1> HIDE DEF Goal, S
<1> QED
  BY <1>12, <1>13, <1>15, <1>16, <1>19, <1>20, <1>21, <1>22, <1>23, <1>24, <1>25 DEF Next, Goal, S


LEMMA HeldInductive == Spec => [](TypeOK /\ DurabilityInv /\ TasksHoldStored)
<1>1. Init => TasksHoldStored
  BY EmptyHands DEF Init, TasksHoldStored
<1>2. TypeOK /\ DurabilityInv /\ TasksHoldStored /\ [Next]_vars => TasksHoldStored'
  BY ReaderHoldsStored, LanesHoldStored, RecoveriesHoldStored DEF TasksHoldStored
<1> QED
  BY <1>1, <1>2, Inductive, PTL DEF Spec

-----------------------------------------------------------------------------
(* Every step is a step of the contract or changes nothing of it. *)

Held == KeysIn(inbox) \ {Mark}

ContractVars == <<KeysIn(inbox) \ {Mark}, {k \in Keys : Stored(k)}, hist.handled>>

LEMMA StoredByWrites ==
    ASSUME TypeOK, DurabilityInv, [Next]_vars
    PROVE  \/ StoredKeys' = StoredKeys
           \/ \E w \in writes : UpsertOk(w) /\ StoredKeys' = StoredKeys \cup {w.f.key}
<1>1. StoredKeys \subseteq StoredKeys'
  BY StoredStays
<1>2. ASSUME NEW w \in writes, UpsertOk(w)
      PROVE  StoredKeys' = StoredKeys \/ StoredKeys' = StoredKeys \cup {w.f.key}
  <2>1. /\ w.f.key \in Keys /\ hist' = hist
        /\ rows' = [rows EXCEPT ![w.f.key] = UpsertRow(rows[w.f.key], w)]
    BY <1>2, UpsertRowType DEF UpsertOk
  <2>2. StoredKeys' \subseteq StoredKeys \cup {w.f.key}
    BY <2>1 DEF TypeOK, StoredKeys, Stored
  <2> QED
    BY <1>1, <2>2
<1>3. ASSUME NEW r \in Recoveries, NEW gone \in SUBSET Keys, Recover(r, gone)
      PROVE  StoredKeys' = StoredKeys
  <2>1. /\ rows' = [k \in Keys |-> IF k \in gone THEN NoRow ELSE rows[k]]
        /\ \A k \in gone : rows[k].st \in {"done", "failed"}
    BY <1>3 DEF Recover
  <2>2. hist'.pruned = hist.pruned \cup gone
    BY <1>3 DEF TypeOK, History, Recover
  <2>3. StoredKeys' \subseteq StoredKeys
    BY <2>1, <2>2 DEF StoredKeys, Stored, NoRow
  <2> QED
    BY <1>1, <2>3
<1>4. ASSUME NEW n \in finishes, NEW ok \in BOOLEAN, FinishCommits(n, ok)
      PROVE  StoredKeys' = StoredKeys
  <2>1. CASE ~ok
    BY <1>4, <2>1 DEF FinishCommits, StoredKeys, Stored
  <2>2. CASE ok
    <3>1. /\ n.f.key \in Keys /\ hist' = hist
          /\ rows' = [rows EXCEPT ![n.f.key] = FinishRow(rows[n.f.key], n)]
      BY <1>4, <2>2, FinishRowType DEF FinishCommits
    <3>2. rows[n.f.key].st = "none" => FinishRow(rows[n.f.key], n) = rows[n.f.key]
      BY DEF FinishRow
    <3>3. StoredKeys' \subseteq StoredKeys
      BY <3>1, <3>2 DEF TypeOK, StoredKeys, Stored
    <3> QED
      BY <1>1, <3>3
  <2> QED
    BY <2>1, <2>2
<1>5. ASSUME rows' = rows, hist'.pruned = hist.pruned PROVE StoredKeys' = StoredKeys
  BY <1>5 DEF StoredKeys, Stored
<1> QED
  BY <1>2, <1>3, <1>4, <1>5, OtherStepsKeepRows

\* A key that a shorter inbox no longer has was acknowledged.
LEMMA AckForgets ==
    ASSUME TypeOK, DurabilityInv, Ack
    PROVE  Held' \subseteq Held /\ Held \ Held' \subseteq StoredKeys
<1> DEFINE n == trk.acked - base
<1>1. trk.on /\ inbox' = SubSeq(inbox, n + 1, Len(inbox))
  BY DEF Ack
<1>2. /\ base \in Nat /\ trk.acked \in Nat /\ trk.read \in Nat /\ inbox \in Seq(Entry)
      /\ n \in 1 .. Len(inbox) /\ base + n = trk.acked
  <2>1. /\ base \in Nat /\ trk.acked \in Nat /\ trk.read \in Nat /\ inbox \in Seq(Entry)
        /\ base <= trk.acked /\ trk.acked <= trk.read /\ trk.read <= base + Len(inbox)
        /\ trk.acked > base
    BY <1>1 DEF TypeOK, Tracker, DurabilityInv, WatermarkInv, Ack
  <2> QED
    BY <2>1
<1> HIDE DEF n
<1>3. /\ Len(inbox') = Len(inbox) - n
      /\ \A i \in 1 .. Len(inbox) - n : inbox'[i] = inbox[n + i]
  BY <1>1, <1>2, CutSequence
<1>4. ASSUME NEW i \in 1 .. Len(inbox') PROVE inbox'[i].key \in KeysIn(inbox)
  <2>1. n + i \in 1 .. Len(inbox) /\ inbox'[i] = inbox[n + i]
    BY <1>2, <1>3
  <2> QED
    BY <2>1 DEF KeysIn
<1>5. ASSUME NEW i \in 1 .. Len(inbox), i > n PROVE inbox[i].key \in KeysIn(inbox')
  <2>1. /\ i - n \in 1 .. Len(inbox) - n /\ n + (i - n) = i
        /\ Len(inbox) - n = Len(inbox')
    BY <1>2, <1>3, <1>5
  <2>2. inbox'[i - n] = inbox[i]
    BY <1>3, <2>1
  <2> QED
    BY <2>1, <2>2 DEF KeysIn
<1>6. ASSUME NEW i \in 1 .. Len(inbox), ~(i > n), inbox[i].key # Mark
      PROVE  inbox[i].key \in StoredKeys
  <2>1. base + i <= trk.acked /\ inbox[i] \in Entry
    BY <1>2, <1>6
  <2> QED
    BY <1>1, <1>6, <2>1 DEF DurabilityInv, WatermarkInv, Entry, StoredKeys
<1>7. KeysIn(inbox') \subseteq KeysIn(inbox)
  BY <1>4 DEF KeysIn
<1>8. KeysIn(inbox)' = KeysIn(inbox')
  BY DEF KeysIn
<1>9. ASSUME NEW k \in Held, k \notin Held' PROVE k \in StoredKeys
  <2>1. PICK i \in 1 .. Len(inbox) : k = inbox[i].key
    BY DEF Held, KeysIn
  <2> QED
    BY <1>5, <1>6, <1>8, <1>9, <2>1 DEF Held
<1> QED
  BY <1>7, <1>8, <1>9 DEF Held


\* The server's inbox changes by pushing and acknowledging, and what was
\* handled by the ends of the handlers.
LEMMA OtherStepsKeepHeld ==
    ASSUME TypeOK, [Next]_vars, ~Ack,
           ~ \E k \in Keys \cup {Mark} : \E p \in BOOLEAN : Push(k, p)
    PROVE  inbox' = inbox
<1>1. CASE Drop \/ Handshake
  BY <1>1 DEF Drop, Handshake, Connect, HelloOk, Register, RegisterCancelled, RegisterFails
<1>2. CASE Reader
  BY <1>2 DEF Reader, ReadMark, ReadFrame, ReadGap, ReadEnds, UpsertOk, UpsertRefused,
              GateTimesOut, Dispatch, GateAbandoned, InlineEnds
<1>3. ASSUME NEW c \in Chats, Lane(c) PROVE inbox' = inbox
  BY <1>3 DEF Lane, LaneClaims, LaneSkips, LaneRetries, LaneEnds
<1>4. ASSUME NEW r \in Recoveries, Recovery(r) PROVE inbox' = inbox
  BY <1>4 DEF Recovery, Recover, RecoverFails, RecoverRow, GateOpens, RecoverSignal,
              RecoveredSignalEnds
<1>5. CASE RetryWakes \/ StartRecoveryEnds \/ RetryEnds
  BY <1>5 DEF RetryWakes, StartRecoveryEnds, RetryEnds
<1>6. ASSUME NEW n \in finishes, NEW ok \in BOOLEAN, FinishCommits(n, ok) PROVE inbox' = inbox
  BY <1>6 DEF FinishCommits
<1>7. CASE Supervisor
  BY <1>7 DEF Supervisor, Flushed, Teardown, Away, AwayCloses, Resume, StopBegins,
              StopEnds, Crash
<1>8. ASSUME NEW granted \in BOOLEAN, SenderConnects(granted) PROVE inbox' = inbox
  BY <1>8 DEF SenderConnects
<1>9. CASE SenderRecovers \/ UNCHANGED vars
  BY <1>9 DEF SenderRecovers
<1> QED
  BY <1>1, <1>2, <1>3, <1>4, <1>5, <1>6, <1>7, <1>8, <1>9 DEF Next

Handles(k) == \/ rd.pc = "inline" /\ k = rd.f.key
              \/ \E c \in Chats : Waiting(c) /\ k = Head(lanes[c].q).key
              \/ \E r \in Recoveries : rec[r].pc = "inline" /\ k = rec[r].f.key

LEMMA HandledByHandlers ==
    ASSUME TypeOK, DurabilityInv, [Next]_vars
    PROVE  \/ hist'.handled = hist.handled
           \/ \E k \in Keys : /\ Handles(k) /\ hist'.handled = hist.handled \cup {k}
                             /\ inbox' = inbox /\ StoredKeys' = StoredKeys
<1> DEFINE Same == hist'.handled = hist.handled
           Handled(k) == /\ Handles(k) /\ hist'.handled = hist.handled \cup {k}
                         /\ inbox' = inbox /\ StoredKeys' = StoredKeys
<1>1. ASSUME NEW st \in {"done", "failed"}, InlineEnds(st)
      PROVE  \E k \in Keys : Handled(k)
  <2>1. rd.f.key \in Keys
    BY <1>1 DEF TypeOK, InlineEnds, Frame
  <2>2. /\ hist'.handled = hist.handled \cup {rd.f.key} /\ hist'.pruned = hist.pruned
        /\ rows' = rows /\ inbox' = inbox /\ rd.pc = "inline"
    BY <1>1 DEF TypeOK, InlineEnds, History
  <2> QED
    BY <2>1, <2>2 DEF Handles, StoredKeys, Stored
<1>2. ASSUME NEW c \in Chats, LaneClaims(c) PROVE \E k \in Keys : Handled(k)
  <2> DEFINE k == Head(lanes[c].q).key
  <2>1. k \in Messages
    BY <1>2, PopType DEF LaneClaims
  <2>2. hist' = [hist EXCEPT !.handled = @ \cup {k}, !.turns = Append(@, k)]
    BY <1>2 DEF LaneClaims
  <2>3. rows' = rows /\ inbox' = inbox /\ Waiting(c)
    BY <1>2 DEF LaneClaims
  <2> HIDE DEF k
  <2>4. hist'.handled = hist.handled \cup {k} /\ hist'.pruned = hist.pruned
    BY <2>2 DEF TypeOK, History
  <2> QED
    BY <2>1, <2>3, <2>4 DEF Handles, StoredKeys, Stored, Keys, k
<1>3. ASSUME NEW r \in Recoveries, NEW st \in {"done", "failed"}, RecoveredSignalEnds(r, st)
      PROVE  \E k \in Keys : Handled(k)
  <2>1. rec[r].f.key \in Keys
    BY <1>3 DEF TypeOK, RecoveredSignalEnds, Frame
  <2>2. /\ hist'.handled = hist.handled \cup {rec[r].f.key} /\ hist'.pruned = hist.pruned
        /\ rows' = rows /\ inbox' = inbox /\ rec[r].pc = "inline"
    BY <1>3 DEF TypeOK, RecoveredSignalEnds, History
  <2> QED
    BY <2>1, <2>2 DEF Handles, StoredKeys, Stored
<1>4. ASSUME NEW k, NEW p, Push(k, p) PROVE Same
  BY <1>4 DEF Push, TypeOK, History
<1>5. CASE Drop \/ Handshake
  BY <1>5 DEF Drop, Handshake, Connect, HelloOk, Register, RegisterCancelled, RegisterFails
<1>6. CASE Reader
  BY <1>1, <1>6 DEF Reader, ReadMark, ReadFrame, ReadGap, ReadEnds, UpsertOk, UpsertRefused,
                    GateTimesOut, Dispatch, GateAbandoned, Ack, TypeOK, History
<1>7. ASSUME NEW c \in Chats, Lane(c) PROVE Same \/ \E k \in Keys : Handled(k)
  BY <1>2, <1>7 DEF Lane, LaneSkips, LaneRetries, LaneEnds
<1>8. ASSUME NEW r \in Recoveries, Recovery(r) PROVE Same \/ \E k \in Keys : Handled(k)
  BY <1>3, <1>8 DEF Recovery, Recover, RecoverFails, RecoverRow, GateOpens, RecoverSignal,
                    TypeOK, History
<1>9. CASE RetryWakes \/ StartRecoveryEnds \/ RetryEnds
  BY <1>9 DEF RetryWakes, StartRecoveryEnds, RetryEnds
<1>10. ASSUME NEW n \in finishes, NEW ok \in BOOLEAN, FinishCommits(n, ok) PROVE Same
  BY <1>10 DEF FinishCommits
<1>11. CASE Supervisor
  BY <1>11 DEF Supervisor, Flushed, Teardown, Away, AwayCloses, Resume, StopBegins,
               StopEnds, Crash
<1>12. ASSUME NEW granted \in BOOLEAN, SenderConnects(granted) PROVE Same
  BY <1>12 DEF SenderConnects
<1>13. CASE SenderRecovers \/ UNCHANGED vars
  BY <1>13 DEF SenderRecovers
<1> QED
  BY <1>4, <1>5, <1>6, <1>7, <1>8, <1>9, <1>10, <1>11, <1>12, <1>13 DEF Next

\* A handler has a key in its hands, and those are stored.
LEMMA HandledAreStored ==
    ASSUME TypeOK, TasksHoldStored, NEW k, Handles(k)
    PROVE  k \in StoredKeys
<1>1. ASSUME NEW c \in Chats, Waiting(c) PROVE Head(lanes[c].q).key \in StoredKeys
  <2>1. lanes[c].q \in Seq(LaneFrame) /\ lanes[c].q # <<>>
    BY <1>1 DEF TypeOK, LaneTask, Waiting
  <2>2. \A i \in 1 .. Len(lanes[c].q) : lanes[c].q[i].key \in StoredKeys
    BY DEF TasksHoldStored, LaneWithin
  <2> QED
    BY <2>1, <2>2, TailWithin
<1> QED
  BY <1>1 DEF Handles, TasksHoldStored, ReaderWithin, RecoveryWithin

LEMMA ContractStep ==
    ASSUME TypeOK, DurabilityInv, TasksHoldStored, [Next]_vars
    PROVE  [Contract!Next]_ContractVars
<1>1. \/ hist'.handled = hist.handled
      \/ \E k \in Keys : /\ Handles(k) /\ hist'.handled = hist.handled \cup {k}
                        /\ inbox' = inbox /\ StoredKeys' = StoredKeys
  BY HandledByHandlers
<1>2. ASSUME NEW k \in Keys, Handles(k), hist'.handled = hist.handled \cup {k},
             inbox' = inbox, StoredKeys' = StoredKeys
      PROVE  Contract!Next
  <2>1. k \in StoredKeys
    BY <1>2, HandledAreStored
  <2>2. Contract!Handle(k)
    BY <1>2, <2>1 DEF Contract!Handle, StoredKeys, KeysIn
  <2> QED
    BY <2>2 DEF Contract!Next
<1>3. ASSUME hist'.handled = hist.handled, NEW k \in Keys \cup {Mark}, NEW p \in BOOLEAN,
             Push(k, p)
      PROVE  [Contract!Next]_ContractVars
  <2> DEFINE e == [key |-> k, prov |-> p]
  <2>1. /\ inbox \in Seq(Entry) /\ e \in Entry /\ inbox' = Append(inbox, e)
        /\ rows' = rows /\ hist'.pruned = hist.pruned
    BY <1>3 DEF TypeOK, Push, Entry, History
  <2>2. /\ Len(inbox') = Len(inbox) + 1 /\ inbox'[Len(inbox) + 1] = e /\ Len(inbox) \in Nat
        /\ \A i \in 1 .. Len(inbox) : inbox'[i] = inbox[i]
    BY <2>1
  <2>3. KeysIn(inbox)' = KeysIn(inbox) \cup {k}
    <3>1. \A i \in 1 .. Len(inbox') : i \in 1 .. Len(inbox) \/ i = Len(inbox) + 1
      BY <2>2
    <3>2. \A i \in 1 .. Len(inbox) : i \in 1 .. Len(inbox')
      BY <2>2
    <3>3. Len(inbox) + 1 \in 1 .. Len(inbox') /\ e.key = k
      BY <2>2
    <3> QED
      BY <2>2, <3>1, <3>2, <3>3 DEF KeysIn
  <2>4. StoredKeys' = StoredKeys
    BY <2>1 DEF StoredKeys, Stored
  <2>5. CASE k = Mark
    BY <1>3, <2>3, <2>4, <2>5 DEF ContractVars, StoredKeys
  <2>6. CASE k # Mark
    <3>1. Contract!Send(k)
      BY <1>3, <2>3, <2>4, <2>6 DEF Contract!Send, StoredKeys
    <3> QED
      BY <2>6, <3>1 DEF Contract!Next
  <2> QED
    BY <2>5, <2>6
<1>4. ASSUME hist'.handled = hist.handled, Ack PROVE [Contract!Next]_ContractVars
  <2>1. Held' \subseteq Held /\ Held \ Held' \subseteq StoredKeys
    BY <1>4, AckForgets
  <2>2. StoredKeys' = StoredKeys
    BY <1>4 DEF Ack, TypeOK, History, StoredKeys, Stored
  <2>3. Contract!Forget(Held \ Held')
    BY <1>4, <2>1, <2>2 DEF Contract!Forget, Held, StoredKeys
  <2>4. Held \ Held' \in SUBSET Keys
    BY <2>1 DEF StoredKeys
  <2> QED
    BY <2>3, <2>4 DEF Contract!Next
<1>5. ASSUME hist'.handled = hist.handled, inbox' = inbox PROVE [Contract!Next]_ContractVars
  <2>1. CASE StoredKeys' = StoredKeys
    BY <1>5, <2>1 DEF ContractVars, StoredKeys, KeysIn
  <2>2. ASSUME NEW w \in writes, UpsertOk(w), StoredKeys' = StoredKeys \cup {w.f.key}
        PROVE  Contract!Next
    <3>1. w.f.key \in Keys
      BY UpsertRowType
    <3>2. Contract!Store(w.f.key)
      BY <1>5, <2>2 DEF Contract!Store, StoredKeys, KeysIn
    <3> QED
      BY <3>1, <3>2 DEF Contract!Next
  <2> QED
    BY <2>1, <2>2, StoredByWrites
<1> QED
  BY <1>1, <1>2, <1>3, <1>4, <1>5, OtherStepsKeepHeld

\* Reliable delivery implements its contract (connection.py, storage.py): the
\* server is told to forget only what is stored, and only what is stored is
\* handled, whatever the connections, threads and processes go through.
THEOREM DeliveryKeepsContract == Spec => KeepsContract
<1>1. Init => Contract!Init
  BY DEF Init, Contract!Init, KeysIn, Stored, NoRow
<1>2. TypeOK /\ DurabilityInv /\ TasksHoldStored /\ [Next]_vars
        => [Contract!Next]_<<KeysIn(inbox) \ {Mark}, {k \in Keys : Stored(k)}, hist.handled>>
  BY ContractStep DEF ContractVars
<1> QED
  BY <1>1, <1>2, HeldInductive, PTL DEF Spec, KeepsContract, Contract!Spec
=============================================================================
