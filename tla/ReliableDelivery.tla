-------------------------- MODULE ReliableDelivery --------------------------
(***************************************************************************)
(* Opt-in reliable inbound delivery of the gateway connection              *)
(* (connection.py, reliable_delivery.py and the inbound receipts of        *)
(* storage.py).  The server sends the frames of one connection with a      *)
(* dense delivery number, dseq.  The reader stores each business frame as  *)
(* a "receipt" row before it acknowledges the number, hands the frame to   *)
(* its chat's lane (messages) or handles it inline (signals), and marks    *)
(* the row when the handler ends.  Rows still pending when a connection    *)
(* becomes READY are dispatched again by a recovery task.                  *)
(*                                                                         *)
(* Storage calls run on worker threads that survive the task that started  *)
(* them, so a write is a record in regs, writes or finishes that commits   *)
(* in a step of its own, whether or not somebody still waits for it.       *)
(* The server, its inbox and the network are external.                     *)
(***************************************************************************)
EXTENDS Integers, Sequences, FiniteSets

CONSTANTS
    Messages,     \* keys of message.send / message.reply frames
    Signals,      \* keys of notify.signal frames
    Chats,        \* conversations
    ChatOf,       \* the conversation of each message
    MaxSends,     \* bound: frames the server puts in the inbox
    MaxGen,       \* bound: connections (socket generations)
    MaxFaults,    \* bound: storage failures, timeouts and protocol errors
    MaxStops,     \* bound: stops and crashes of the gateway
    MaxAway,      \* bound: times READY is left with the socket still there
    MaxSenders    \* bound: standalone senders run beside the gateway

Keys == Messages \cup Signals
Mark == "sync.mark"              \* a control frame: numbered, never stored

ASSUME ChatsAssumption == ChatOf \in [Messages -> Chats]
ASSUME BoundsAssumption ==
    {MaxSends, MaxGen, MaxFaults, MaxStops, MaxAway, MaxSenders} \subseteq Nat
ASSUME KeysAssumption == Mark \notin Keys /\ Messages \cap Signals = {}
\* A conversation is not one of the tasks that also handle frames.
ASSUME OwnersAssumption == Chats \cap {"reader", "nobody", "start", "retry"} = {}

VARIABLES
    rows,       \* durable: the receipt of each key
    rowid,      \* durable: how many rows were ever inserted
    seq,        \* durable: the newest registered connection sequence
    claimed,    \* durable: messages whose once-only ledger claim was taken
    inbox,      \* server: frames not acknowledged, oldest first
    base,       \* server: the dseq acknowledged on this connection
    gen,        \* delivery generation, also the epoch of its frames
    link,       \* the socket: "none", "open", or "closed" but not torn down
    state,      \* the ConnectionState
    stopping,   \* stop() has begun
    main,       \* where _run_one_connection is
    gate,       \* the recovery order gate is open
    trk,        \* the DseqAckTracker
    rd,         \* the reader task and the frame it holds
    lanes,      \* each chat's lane: queue, frame in hand, where its worker is
    rec,        \* the recovery at READY and the retry task
    seen,       \* event ids the signal observer remembers
    regs,       \* registrations running on storage threads, by generation
    writes,     \* receipt upserts running on storage threads
    finishes,   \* receipt status updates running on storage threads
    sender,     \* a standalone sender sharing the profile's database
    used,       \* how much of each bound is used up
    hist        \* history: what was sent, acknowledged, handled, pruned

durable  == <<rows, rowid, seq, claimed>>
server   == <<inbox, base>>
conn     == <<gen, link, state, stopping, main, gate>>
threads  == <<regs, writes, finishes>>
vars     == <<durable, server, conn, trk, rd, lanes, rec, seen, threads,
              sender, used, hist>>

-----------------------------------------------------------------------------
(* Values *)

Frame   == [key : Keys, gen : Nat, dseq : Nat]
NothingRead == [key |-> Mark, gen |-> 0, dseq |-> 0]
Status  == {"none", "pending", "done", "failed"}
Row     == [at : Nat, cs : Nat, gen : Nat, dseq : Nat, prov : BOOLEAN, st : Status]
NoRow   == [at |-> 0, cs |-> 0, gen |-> 0, dseq |-> 0, prov |-> TRUE, st |-> "none"]

Recoveries == {"start", "retry"}
Tasks      == {"reader", "nobody"} \cup Recoveries

Entry   == [key : Keys \cup {Mark}, prov : BOOLEAN]      \* of the inbox
Tracker == [on : BOOLEAN, seq : Nat, read : Nat, acked : Nat, pend : SUBSET Nat]

ReaderTask   == [pc : {"none", "hello", "register", "idle", "upsert", "gate", "inline",
                       "finish", "over"}, f : Frame \cup {NothingRead}]
LaneFrame    == [key : Messages, gen : Nat, dseq : Nat]
LaneTask     == [pc : {"idle", "handling", "finish"}, q : Seq(LaneFrame),
                 f : LaneFrame \cup {NothingRead}]
RecoveryTask == [pc : {"off", "sleep", "read", "rows", "later", "inline", "finish"},
                 todo : SUBSET [at : Nat, f : Frame], later : Seq(Frame),
                 f : Frame \cup {NothingRead}, ok : BOOLEAN, again : BOOLEAN]

NoTracker  == [on |-> FALSE, seq |-> 0, read |-> 0, acked |-> 0, pend |-> {}]
NoReader   == [pc |-> "none", f |-> NothingRead]
IdleLane   == [pc |-> "idle", q |-> <<>>, f |-> NothingRead]
NoRecovery == [pc |-> "off", todo |-> {}, later |-> <<>>, f |-> NothingRead,
               ok |-> FALSE, again |-> FALSE]

\* A finish is owned by the task that waits for it: the reader, a recovery, a
\* chat's lane, or nobody once that task was cancelled.
Write  == [f : Frame, prov : BOOLEAN, cs : Nat]
Finish == [f : Frame, st : {"done", "failed"}, by : Tasks \cup Chats]

History == [sent : Seq(Keys), acked : SUBSET Keys, handled : SUBSET Keys,
            turns : Seq(Messages), pruned : SUBSET Keys]

KeysIn(q) == {q[i].key : i \in 1..Len(q)}
KeysSent  == {hist.sent[i] : i \in 1..Len(hist.sent)}

\* Keys registered in _receipts_in_flight: frames handed to a handler.
InFlight ==
    (IF rd.pc \in {"inline", "finish"} THEN {rd.f.key} ELSE {})
    \cup (UNION {KeysIn(lanes[c].q) : c \in Chats})
    \cup {lanes[c].f.key : c \in {d \in Chats : lanes[d].pc # "idle"}}
    \cup {rec[r].f.key : r \in {s \in Recoveries : rec[s].pc \in {"inline", "finish"}}}

-----------------------------------------------------------------------------
(* The receipt table *)

Newer(w, r) == \/ w.cs > r.cs
               \/ w.cs = r.cs /\ w.f.dseq > r.dseq

\* Mutant: a replayed delivery opens a done receipt again.
UpsertRowReopens(r, w) ==
    [at |-> r.at, cs |-> w.cs, gen |-> w.f.gen, dseq |-> w.f.dseq,
     prov |-> r.prov /\ w.prov, st |-> "pending"]

\* ON CONFLICT DO UPDATE of upsert_inbound_receipt
UpsertRow(r, w) ==
    IF Newer(w, r)
    THEN [at |-> IF r.st = "none" THEN rowid + 1 ELSE r.at,
          cs |-> w.cs, gen |-> w.f.gen, dseq |-> w.f.dseq,
          prov |-> r.prov /\ w.prov,
          st |-> IF r.st = "done" THEN "done" ELSE "pending"]
    ELSE r

\* Mutant: writes are not fenced.
FencedNever(w) == FALSE

\* A write of a connection that is not the newest registered one is refused.
Fenced(w) == w.cs # seq

\* finish_inbound_receipt: only the row of the very same delivery, never a done one
FinishRow(r, n) ==
    IF r.gen = n.f.gen /\ r.dseq = n.f.dseq /\ r.st \in {"pending", "failed"}
    THEN [r EXCEPT !.st = n.st]
    ELSE r

\* Mutant: the rows are read in no particular order.
PendingRowsUnordered ==
    {[at |-> 0, f |-> [key |-> k, gen |-> rows[k].gen, dseq |-> rows[k].dseq]] :
       k \in {j \in Keys : rows[j].st = "pending"}}

\* recover_inbound_receipts: the pending rows, and where they stand in its order
PendingRows ==
    {[at |-> rows[k].at, f |-> [key |-> k, gen |-> rows[k].gen, dseq |-> rows[k].dseq]] :
       k \in {j \in Keys : rows[j].st = "pending"}}

-----------------------------------------------------------------------------
(* The acknowledgement tracker *)

\* Mutant: the watermark only moves over numbers noted before this one.
RecordLate(t, d) ==
    \E a \in t.acked .. t.read :
      /\ \A i \in t.acked + 1 .. a : i \in t.pend
      /\ a + 1 \notin t.pend
      /\ trk' = [t EXCEPT !.acked = a, !.pend = (t.pend \cup {d}) \ (t.acked + 1 .. a)]

\* record: note dseq d, then move the watermark over what is contiguous
Record(t, d) ==
    LET p == t.pend \cup {d}
    IN  \E a \in t.acked .. t.read :
          /\ \A i \in t.acked + 1 .. a : i \in p
          /\ a + 1 \notin p
          /\ trk' = [t EXCEPT !.acked = a, !.pend = p \ (t.acked + 1 .. a)]

-----------------------------------------------------------------------------
(* Helpers of the actions *)

Bounded == {"sends", "faults", "stops", "aways", "senders"}

\* One more of a bounded kind of event
Spend(kind, bound) ==
    /\ used[kind] < bound
    /\ used' = [used EXCEPT ![kind] = @ + 1]

Fault == Spend("faults", MaxFaults)

\* Mutant: a failed receipt write is counted as recorded and the socket kept.
KeepReading ==
    /\ trk' = [trk EXCEPT !.acked = trk.read]
    /\ rd' = [rd EXCEPT !.pc = "idle"]
    /\ UNCHANGED link

\* _dispose_delivery_tracker, then ws.close(): the reader returns
CloseFromReader ==
    /\ trk' = [trk EXCEPT !.on = FALSE, !.pend = {}]
    /\ link' = "closed"
    /\ rd' = [rd EXCEPT !.pc = "over"]

\* Mutant: nothing is scheduled.
ScheduleRetryNever(tasks) == tasks

\* _schedule_receipt_retry, applied to the recovery tasks
ScheduleRetry(tasks) ==
    IF stopping \/ link = "none" THEN tasks
    ELSE IF tasks["retry"].pc = "off"
         THEN [tasks EXCEPT !["retry"] = [NoRecovery EXCEPT !.pc = "sleep"]]
         ELSE [tasks EXCEPT !["retry"].again = TRUE]

\* _dispatch_to_lane
ToLane(f) ==
    lanes' = [lanes EXCEPT ![ChatOf[f.key]].q = Append(@, f)]

\* Mutant: status and owner are swapped.
StartFinishSwapped(f, st, by) ==
    finishes' = finishes \cup {[f |-> f, st |-> by, by |-> st]}

\* Hand a status update to a storage thread on behalf of a task
StartFinish(f, st, by) ==
    finishes' = finishes \cup {[f |-> f, st |-> st, by |-> by]}

\* Cancelling tasks cancels the waiting, not the thread.
Orphaned(tasks) ==
    {IF n.by \in tasks THEN [n EXCEPT !.by = "nobody"] ELSE n : n \in finishes}

-----------------------------------------------------------------------------
(* The server and the socket *)

\* The server puts a frame in the inbox: a message or signal, once or again
\* (the merged "provisional" copy of a stream and its final one), or a mark.
Push(k, p) ==
    /\ link # "closed"
    /\ Spend("sends", MaxSends)
    /\ inbox' = Append(inbox, [key |-> k, prov |-> p])
    /\ hist' = IF k = Mark \/ k \in KeysSent THEN hist
               ELSE [hist EXCEPT !.sent = Append(@, k)]
    /\ UNCHANGED <<durable, base, conn, trk, rd, lanes, rec, seen, threads, sender>>

\* _run_one_connection up to the handshake: a new socket and generation
Connect ==
    /\ main = "idle" /\ state = "DISCONNECTED" /\ ~stopping
    /\ gen < MaxGen
    /\ gen' = gen + 1
    /\ link' = "open"
    /\ state' = "HANDSHAKING"
    /\ main' = "hello"
    /\ gate' = FALSE
    /\ rd' = [pc |-> "hello", f |-> NothingRead]
    /\ trk' = NoTracker
    /\ UNCHANGED <<durable, server, stopping, lanes, rec, seen, threads, sender, used, hist>>

\* The network or the server drops the socket (not the last one allowed).
Drop ==
    /\ link = "open" /\ gen < MaxGen
    /\ link' = "closed"
    /\ UNCHANGED <<durable, server, gen, state, stopping, main, gate, trk, rd, lanes,
                   rec, seen, threads, sender, used, hist>>

\* hello-ok grants v2: a fresh tracker, then the registration on a thread.  The
\* server starts numbering its unacknowledged frames at 1.
HelloOk ==
    /\ rd.pc = "hello" /\ link = "open" /\ ~stopping
    /\ trk' = [NoTracker EXCEPT !.on = TRUE]
    /\ base' = 0
    /\ regs' = regs \cup {gen}
    /\ rd' = [rd EXCEPT !.pc = "register"]
    /\ UNCHANGED <<durable, inbox, conn, lanes, rec, seen, writes, finishes,
                   sender, used, hist>>

\* Mutant: the registration does not look at its connection.
StillCurrentAlways(g) == TRUE

\* still_current of the registration, evaluated inside its transaction
StillCurrent(g) == ~stopping /\ gen = g /\ link # "none" /\ trk.on

\* register_inbound_receipt_connection commits; the handshake then ends READY
\* and the supervisor begins the recovery.
Register(g) ==
    /\ g \in regs /\ StillCurrent(g)
    /\ regs' = regs \ {g}
    /\ seq' = seq + 1
    /\ IF rd.pc = "register" /\ gen = g
       THEN /\ trk' = [trk EXCEPT !.seq = seq + 1]
            /\ rd' = [rd EXCEPT !.pc = "idle"]
            /\ state' = "READY"
            /\ main' = "recover"
            /\ rec' = [rec EXCEPT !["start"] = [NoRecovery EXCEPT !.pc = "read"]]
       ELSE UNCHANGED <<trk, rd, state, main, rec>>
    /\ UNCHANGED <<rows, rowid, claimed, server, gen, link, stopping, gate, lanes, seen,
                   writes, finishes, sender, used, hist>>

\* The registration finds its connection gone and changes nothing; a reader that
\* still waits for it returns.
RegisterCancelled(g) ==
    /\ g \in regs /\ ~StillCurrent(g)
    /\ regs' = regs \ {g}
    /\ rd' = IF gen = g /\ rd.pc = "register" THEN [rd EXCEPT !.pc = "over"] ELSE rd
    /\ UNCHANGED <<durable, server, conn, trk, lanes, rec, seen, writes, finishes,
                   sender, used, hist>>

\* The registration fails: the handshake ends false and the socket is closed.
RegisterFails(g) ==
    /\ g \in regs /\ StillCurrent(g) /\ gen < MaxGen
    /\ Fault
    /\ regs' = regs \ {g}
    /\ CloseFromReader
    /\ UNCHANGED <<durable, server, gen, state, stopping, main, gate, lanes, rec, seen,
                   writes, finishes, sender, hist>>

-----------------------------------------------------------------------------
(* The reader: _read_frames *)

\* The next frame that this socket delivers
NextEntry == inbox[trk.read + 1 - base]
HasNext   == /\ trk.on /\ rd.pc = "idle" /\ ~stopping
             /\ trk.read + 1 - base \in 1 .. Len(inbox)

\* A control frame is recorded without a receipt.
ReadMark ==
    /\ HasNext /\ NextEntry.key = Mark
    /\ Record([trk EXCEPT !.read = @ + 1], trk.read + 1)
    /\ UNCHANGED <<durable, server, conn, rd, lanes, rec, seen, threads, sender, used, hist>>

\* A business frame starts its receipt write on a thread.
ReadFrame ==
    /\ HasNext /\ NextEntry.key # Mark
    /\ LET f == [key |-> NextEntry.key, gen |-> gen, dseq |-> trk.read + 1]
       IN  /\ trk' = [trk EXCEPT !.read = @ + 1]
           /\ rd' = [pc |-> "upsert", f |-> f]
           /\ writes' = writes \cup {[f |-> f, prov |-> NextEntry.prov, cs |-> trk.seq]}
    /\ UNCHANGED <<durable, server, conn, lanes, rec, seen, regs, finishes, sender, used, hist>>

\* A number that is not the next one closes the socket.
ReadGap ==
    /\ HasNext /\ gen < MaxGen
    /\ Fault
    /\ CloseFromReader
    /\ UNCHANGED <<durable, server, gen, state, stopping, main, gate, lanes, rec, seen,
                   threads, sender, hist>>

\* The reader's loop ends: the socket is closed, or stop() has begun.
ReadEnds ==
    /\ rd.pc \in {"hello", "idle"}
    /\ link = "closed" \/ stopping
    /\ rd' = [rd EXCEPT !.pc = "over"]
    /\ UNCHANGED <<durable, server, conn, trk, lanes, rec, seen, threads, sender, used, hist>>

Awaited(w) == rd.pc = "upsert" /\ rd.f = w.f

\* The upsert commits and is "ok".  The waiting reader records the number and
\* goes to the order gate, unless stop() began meanwhile.
UpsertOk(w) ==
    /\ w \in writes /\ ~Fenced(w)
    /\ writes' = writes \ {w}
    /\ rows' = [rows EXCEPT ![w.f.key] = UpsertRow(@, w)]
    /\ rowid' = IF rows[w.f.key].st = "none" THEN rowid + 1 ELSE rowid
    /\ IF Awaited(w)
       THEN IF stopping
            THEN rd' = [rd EXCEPT !.pc = "over"] /\ UNCHANGED trk
            ELSE rd' = [rd EXCEPT !.pc = "gate"] /\ Record(trk, w.f.dseq)
       ELSE UNCHANGED <<rd, trk>>
    /\ UNCHANGED <<seq, claimed, server, conn, lanes, rec, seen, regs, finishes,
                   sender, used, hist>>

\* The upsert is refused as stale, or fails: nothing is stored, and a waiting
\* reader closes the socket with the number unacknowledged.
UpsertRefused(w) ==
    /\ w \in writes
    /\ IF Fenced(w) THEN UNCHANGED used ELSE gen < MaxGen /\ Fault
    /\ writes' = writes \ {w}
    /\ IF Awaited(w) THEN CloseFromReader ELSE UNCHANGED <<trk, link, rd>>
    /\ UNCHANGED <<durable, server, gen, state, stopping, main, gate, lanes, rec, seen, regs,
                   finishes, sender, hist>>

\* The order gate times out and is opened for good.
GateTimesOut ==
    /\ rd.pc = "gate" /\ ~gate /\ ~stopping
    /\ Fault
    /\ gate' = TRUE
    /\ UNCHANGED <<durable, server, gen, link, state, stopping, main, trk, rd, lanes, rec,
                   seen, threads, sender, hist>>

\* Mutant: the observer forgets what it saw.
NewSignalAlways(k) == k \in Signals

\* NotifySignalObserver.observe answers "observed"
NewSignal(k) == k \in Signals \ seen

\* Past the gate the frame is tracked as in flight and dispatched: a message to
\* its lane, a new signal to its handler.  A repeated signal, and any frame when
\* the state is not READY, is ignored and its receipt finished as done.
Dispatch ==
    /\ rd.pc = "gate" /\ gate /\ ~stopping
    /\ \/ /\ state = "READY" /\ rd.f.key \in Messages
          /\ ToLane(rd.f)
          /\ rd' = [pc |-> "idle", f |-> NothingRead]
          /\ UNCHANGED <<seen, finishes>>
       \/ /\ state = "READY" /\ NewSignal(rd.f.key)
          /\ seen' = seen \cup {rd.f.key}
          /\ rd' = [rd EXCEPT !.pc = "inline"]
          /\ UNCHANGED <<lanes, finishes>>
       \/ /\ state # "READY" \/ ~(rd.f.key \in Messages \/ NewSignal(rd.f.key))
          /\ StartFinish(rd.f, "done", "reader")
          /\ rd' = [rd EXCEPT !.pc = "finish"]
          /\ UNCHANGED <<lanes, seen>>
    /\ UNCHANGED <<durable, server, conn, trk, rec, regs, writes, sender, used, hist>>

\* stop() began while the frame waited: it is released and stays pending.
GateAbandoned ==
    /\ rd.pc = "gate" /\ stopping
    /\ rd' = [rd EXCEPT !.pc = "over"]
    /\ UNCHANGED <<durable, server, conn, trk, lanes, rec, seen, threads, sender, used, hist>>

\* The handler of a signal on the reader returns or raises.
InlineEnds(st) ==
    /\ rd.pc = "inline"
    /\ StartFinish(rd.f, st, "reader")
    /\ rd' = [rd EXCEPT !.pc = "finish"]
    /\ hist' = [hist EXCEPT !.handled = @ \cup {rd.f.key}]
    /\ UNCHANGED <<durable, server, conn, trk, lanes, rec, seen, regs, writes, sender, used>>

\* message.sync_ack reaches the server, which drops what it acknowledges.  An ack
\* that is lost, or late for another epoch, is the absence of this step.
Ack ==
    /\ trk.on /\ link = "open" /\ trk.acked > base
    /\ inbox' = SubSeq(inbox, trk.acked - base + 1, Len(inbox))
    /\ base' = trk.acked
    /\ hist' = [hist EXCEPT !.acked =
                  @ \cup (KeysIn(SubSeq(inbox, 1, trk.acked - base)) \ {Mark})]
    /\ UNCHANGED <<durable, conn, trk, rd, lanes, rec, seen, threads, sender, used>>

-----------------------------------------------------------------------------
(* Lanes: _drain_inbound_lane *)

Waiting(c) == lanes[c].pc = "idle" /\ lanes[c].q # <<>>
Pop(c, pc) == lanes' = [lanes EXCEPT ![c] =
                          [pc |-> pc, q |-> Tail(@.q), f |-> Head(@.q)]]

\* The handler takes the message's once-only claim and its turn begins.
LaneClaims(c) ==
    /\ Waiting(c) /\ Head(lanes[c].q).key \notin claimed
    /\ Pop(c, "handling")
    /\ claimed' = claimed \cup {Head(lanes[c].q).key}
    /\ hist' = [hist EXCEPT !.handled = @ \cup {Head(lanes[c].q).key},
                            !.turns = Append(@, Head(lanes[c].q).key)]
    /\ UNCHANGED <<rows, rowid, seq, server, conn, trk, rd, rec, seen, threads, sender, used>>

\* A message that is already claimed is skipped and counts as done.
LaneSkips(c) ==
    /\ Waiting(c) /\ Head(lanes[c].q).key \in claimed
    /\ Pop(c, "finish")
    /\ StartFinish(Head(lanes[c].q), "done", c)
    /\ UNCHANGED <<durable, server, conn, trk, rd, rec, seen, regs, writes, sender, used, hist>>

\* Mutant: an unavailable claim counts as handled.
LaneRetriesAsDone(c) ==
    /\ Waiting(c)
    /\ Fault
    /\ Pop(c, "finish")
    /\ StartFinish(Head(lanes[c].q), "done", c)
    /\ UNCHANGED <<durable, server, conn, trk, rd, rec, seen, regs, writes, sender, hist>>

\* The claim is unavailable: INBOUND_RETRYABLE.  The frame is released, the row
\* stays pending and the retry timer is asked for.
LaneRetries(c) ==
    /\ Waiting(c)
    /\ Fault
    /\ lanes' = [lanes EXCEPT ![c].q = Tail(@)]
    /\ rec' = ScheduleRetry(rec)
    /\ UNCHANGED <<durable, server, conn, trk, rd, seen, threads, sender, hist>>

\* The turn ends or raises.
LaneEnds(c, st) ==
    /\ lanes[c].pc = "handling"
    /\ lanes' = [lanes EXCEPT ![c].pc = "finish"]
    /\ StartFinish(lanes[c].f, st, c)
    /\ UNCHANGED <<durable, server, conn, trk, rd, rec, seen, regs, writes, sender, used, hist>>

-----------------------------------------------------------------------------
(* Recovery: _recover_inbound_receipts at READY, and the retry task *)

\* The retry timer fires: 30 s after it was set, so never within a handshake,
\* which ends by its own timeout after 10 s.
RetryWakes ==
    /\ rec["retry"].pc = "sleep" /\ ~stopping /\ state # "HANDSHAKING"
    /\ rec' = [rec EXCEPT !["retry"] = [NoRecovery EXCEPT !.pc = "read"]]
    /\ UNCHANGED <<durable, server, conn, trk, rd, lanes, seen, threads, sender, used, hist>>

\* The transaction prunes some old finished rows and reads the pending ones.
Recover(r, gone) ==
    /\ rec[r].pc = "read"
    /\ gone \subseteq {k \in Keys : rows[k].st \in {"done", "failed"}}
    /\ rows' = [k \in Keys |-> IF k \in gone THEN NoRow ELSE rows[k]]
    /\ hist' = [hist EXCEPT !.pruned = @ \cup gone]
    /\ rec' = [rec EXCEPT ![r].pc = "rows", ![r].todo = PendingRows, ![r].ok = TRUE]
    /\ UNCHANGED <<rowid, seq, claimed, server, conn, trk, rd, lanes, seen, threads,
                   sender, used>>

\* The read fails or times out: only the order gate is opened.
RecoverFails(r) ==
    /\ rec[r].pc = "read"
    /\ Fault
    /\ gate' = TRUE
    /\ rec' = [rec EXCEPT ![r].pc = "later"]
    /\ UNCHANGED <<durable, server, gen, link, state, stopping, main, trk, rd, lanes, seen,
                   threads, sender, hist>>

\* One pending row: skipped while in flight, a message dispatched to its lane, a
\* signal deferred.  Outside READY the message is ignored, and so finished.
RecoverRow(r) ==
    /\ rec[r].pc = "rows" /\ ~stopping
    /\ \E t \in {u \in rec[r].todo : \A v \in rec[r].todo : u.at <= v.at} :
       LET f    == t.f
           rest == [rec[r] EXCEPT !.todo = @ \ {t}]
       IN  \/ /\ f.key \in InFlight
              /\ rec' = [rec EXCEPT ![r] = rest]
              /\ UNCHANGED <<lanes, finishes>>
           \/ /\ f.key \in Signals \ InFlight
              /\ rec' = [rec EXCEPT ![r] = [rest EXCEPT !.later = Append(@, f)]]
              /\ UNCHANGED <<lanes, finishes>>
           \/ /\ f.key \in Messages \ InFlight /\ state = "READY"
              /\ ToLane(f)
              /\ rec' = [rec EXCEPT ![r] = rest]
              /\ UNCHANGED finishes
           \/ /\ f.key \in Messages \ InFlight /\ state # "READY"
              /\ StartFinish(f, "done", r)
              /\ rec' = [rec EXCEPT ![r] = [rest EXCEPT !.pc = "finish", !.f = f]]
              /\ UNCHANGED lanes
    /\ UNCHANGED <<durable, server, conn, trk, rd, seen, regs, writes, sender, used, hist>>

\* All rows are queued, or stop() has begun: the gate opens.
GateOpens(r) ==
    /\ rec[r].pc = "rows"
    /\ rec[r].todo = {} \/ stopping
    /\ gate' = TRUE
    /\ rec' = [rec EXCEPT ![r].pc = "later", ![r].todo = {}]
    /\ UNCHANGED <<durable, server, gen, link, state, stopping, main, trk, rd, lanes, seen,
                   threads, sender, used, hist>>

\* One deferred signal, handled inline by the recovery after the gate opened
RecoverSignal(r) ==
    /\ rec[r].pc = "later" /\ rec[r].later # <<>> /\ ~stopping
    /\ LET f    == Head(rec[r].later)
           rest == [rec[r] EXCEPT !.later = Tail(@), !.f = f]
       IN  \/ /\ state = "READY" /\ NewSignal(f.key)
              /\ seen' = seen \cup {f.key}
              /\ rec' = [rec EXCEPT ![r] = [rest EXCEPT !.pc = "inline"]]
              /\ UNCHANGED finishes
           \/ /\ state # "READY" \/ ~NewSignal(f.key)
              /\ StartFinish(f, "done", r)
              /\ rec' = [rec EXCEPT ![r] = [rest EXCEPT !.pc = "finish"]]
              /\ UNCHANGED seen
    /\ UNCHANGED <<durable, server, conn, trk, rd, lanes, regs, writes, sender, used, hist>>

RecoveredSignalEnds(r, st) ==
    /\ rec[r].pc = "inline"
    /\ StartFinish(rec[r].f, st, r)
    /\ rec' = [rec EXCEPT ![r].pc = "finish"]
    /\ hist' = [hist EXCEPT !.handled = @ \cup {rec[r].f.key}]
    /\ UNCHANGED <<durable, server, conn, trk, rd, lanes, seen, regs, writes, sender, used>>

\* The recovery at READY is over: the supervisor goes on, and a recovery that
\* failed is retried.
StartRecoveryEnds ==
    /\ rec["start"].pc = "later"
    /\ rec["start"].later = <<>> \/ stopping
    /\ main' = "flush"
    /\ LET off == [rec EXCEPT !["start"] = NoRecovery]
       IN  rec' = IF rec["start"].ok THEN off ELSE ScheduleRetry(off)
    /\ UNCHANGED <<durable, server, gen, link, state, stopping, gate, trk, rd, lanes, seen,
                   threads, sender, used, hist>>

\* A retry that recovered, with no new request meanwhile, is the last one.
RetryEnds ==
    /\ rec["retry"].pc = "later"
    /\ rec["retry"].later = <<>> \/ stopping
    /\ rec' = [rec EXCEPT !["retry"] =
                 IF stopping \/ (@.ok /\ ~@.again) THEN NoRecovery
                 ELSE [NoRecovery EXCEPT !.pc = "sleep"]]
    /\ UNCHANGED <<durable, server, conn, trk, rd, lanes, seen, threads, sender, used, hist>>

\* finish_inbound_receipt commits (or fails), and whoever waits for it releases
\* the frame and goes on.
FinishCommits(n, ok) ==
    /\ n \in finishes
    /\ IF ok THEN UNCHANGED used ELSE Fault
    /\ finishes' = finishes \ {n}
    /\ rows' = IF ok THEN [rows EXCEPT ![n.f.key] = FinishRow(@, n)] ELSE rows
    /\ rd' = IF n.by = "reader" THEN [pc |-> "idle", f |-> NothingRead] ELSE rd
    /\ lanes' = IF n.by \in Chats
                THEN [lanes EXCEPT ![n.by] = [@ EXCEPT !.pc = "idle", !.f = NothingRead]]
                ELSE lanes
    /\ rec' = IF n.by \in Recoveries
              THEN [rec EXCEPT ![n.by] =
                      [@ EXCEPT !.pc = IF n.f.key \in Messages THEN "rows" ELSE "later",
                                !.f = NothingRead]]
              ELSE rec
    /\ UNCHANGED <<rowid, seq, claimed, server, conn, trk, seen, regs, writes, sender, hist>>

-----------------------------------------------------------------------------
(* The supervisor: teardown, suspension, stop and crash *)

\* The send queue is flushed and the supervisor waits for the reader.
Flushed ==
    /\ main = "flush" /\ state = "READY" /\ link = "open"
    /\ main' = "watch"
    /\ UNCHANGED <<durable, server, gen, link, state, stopping, gate, trk, rd, lanes, rec,
                   seen, threads, sender, used, hist>>

\* The finally block of _run_one_connection: after the reader has ended, or when
\* the flush fails or the credentials changed and the reader is cancelled.
\* Lanes outlive the connection.
Teardown ==
    /\ \/ main \in {"hello", "flush", "watch"} /\ rd.pc = "over"
       \/ main = "flush" /\ (link = "closed" \/ state # "READY")
    /\ ~stopping
    /\ link' = "none"
    /\ main' = "idle"
    /\ state' = IF state = "AWAY" THEN "AWAY" ELSE "DISCONNECTED"
    /\ trk' = NoTracker
    /\ rd' = NoReader
    /\ rec' = [rec EXCEPT !["retry"] = NoRecovery]
    /\ finishes' = Orphaned({"reader", "retry"})
    /\ UNCHANGED <<durable, server, gen, stopping, gate, lanes, seen, regs, writes,
                   sender, used, hist>>

\* READY is left for SUSPENDED or AUTH_FAILED: the credentials became unreadable
\* or were revoked.  The socket is still there.
Away ==
    /\ state = "READY" /\ ~stopping /\ gen < MaxGen
    /\ Spend("aways", MaxAway)
    /\ state' = "AWAY"
    /\ UNCHANGED <<durable, server, gen, link, stopping, main, gate, trk, rd, lanes, rec,
                   seen, threads, sender, hist>>

\* ... and is closed next.
AwayCloses ==
    /\ state = "AWAY" /\ link = "open"
    /\ link' = "closed"
    /\ UNCHANGED <<durable, server, gen, state, stopping, main, gate, trk, rd, lanes, rec,
                   seen, threads, sender, used, hist>>

\* The credentials are readable again, or a new activation arrived.
Resume ==
    /\ state = "AWAY" /\ main = "idle"
    /\ state' = "DISCONNECTED"
    /\ UNCHANGED <<durable, server, gen, link, stopping, main, gate, trk, rd, lanes, rec,
                   seen, threads, sender, used, hist>>

\* stop() is called: no retry after this, while the reader and lanes still run
StopBegins ==
    /\ ~stopping /\ gen < MaxGen
    /\ Spend("stops", MaxStops)
    /\ stopping' = TRUE
    /\ state' = "CLOSED"
    /\ rec' = [rec EXCEPT !["retry"] = NoRecovery]
    /\ finishes' = Orphaned({"retry"})
    /\ UNCHANGED <<durable, server, gen, link, main, gate, trk, rd, lanes, seen, regs, writes,
                   sender, hist>>

\* The tasks of the connection are gone and a new instance starts empty.
Reset ==
    /\ stopping' = FALSE
    /\ state' = "DISCONNECTED"
    /\ link' = "none"
    /\ main' = "idle"
    /\ gate' = FALSE
    /\ trk' = NoTracker
    /\ rd' = NoReader
    /\ lanes' = [c \in Chats |-> IdleLane]
    /\ rec' = [r \in Recoveries |-> NoRecovery]
    /\ seen' = {}

\* stop() ends by cancelling reader, supervisor and lanes; threads run on.
StopEnds ==
    /\ stopping
    /\ Reset
    /\ finishes' = Orphaned({"reader"} \cup Recoveries \cup Chats)
    /\ UNCHANGED <<durable, server, gen, regs, writes, sender, used, hist>>

\* The process dies: what the threads have not committed is lost too.
Crash ==
    /\ gen < MaxGen
    /\ Spend("stops", MaxStops)
    /\ Reset
    /\ regs' = {} /\ writes' = {} /\ finishes' = {}
    /\ UNCHANGED <<durable, server, gen, sender, hist>>

-----------------------------------------------------------------------------
(* standalone_send: a second connection, under a sibling device id, with the    *)
(* same account and database and a handler that drops everything                *)

\* Its hello is granted v2 (or not), and registers a newer connection.
SenderConnects(granted) ==
    /\ sender = "off" /\ gen < MaxGen
    /\ Spend("senders", MaxSenders)
    /\ sender' = "ready"
    /\ seq' = IF granted THEN seq + 1 ELSE seq
    /\ UNCHANGED <<rows, rowid, claimed, server, conn, trk, rd, lanes, rec, seen, threads, hist>>

\* Its own recovery dispatches every pending row of the account to _drop_inbound
\* (signals to no handler at all), and finishes them.
SenderRecovers ==
    /\ sender = "ready"
    /\ sender' = "off"
    /\ finishes' = finishes \cup
         {[f |-> t.f, st |-> "done", by |-> "nobody"] : t \in PendingRows}
    /\ UNCHANGED <<durable, server, conn, trk, rd, lanes, rec, seen, regs, writes, used, hist>>

-----------------------------------------------------------------------------

Init ==
    /\ rows = [k \in Keys |-> NoRow] /\ rowid = 0 /\ seq = 0 /\ claimed = {}
    /\ inbox = <<>> /\ base = 0
    /\ gen = 0 /\ link = "none" /\ state = "DISCONNECTED" /\ stopping = FALSE
    /\ main = "idle" /\ gate = FALSE
    /\ trk = NoTracker /\ rd = NoReader
    /\ lanes = [c \in Chats |-> IdleLane]
    /\ rec = [r \in Recoveries |-> NoRecovery]
    /\ seen = {}
    /\ regs = {} /\ writes = {} /\ finishes = {}
    /\ sender = "off"
    /\ used = [b \in Bounded |-> 0]
    /\ hist = [sent |-> <<>>, acked |-> {}, handled |-> {}, turns |-> <<>>, pruned |-> {}]

Handshake == \/ Connect \/ HelloOk
             \/ \E g \in regs : Register(g) \/ RegisterCancelled(g) \/ RegisterFails(g)

Reader == \/ ReadMark \/ ReadFrame \/ ReadGap \/ ReadEnds
          \/ \E w \in writes : UpsertOk(w) \/ UpsertRefused(w)
          \/ GateTimesOut \/ Dispatch \/ GateAbandoned
          \/ \E st \in {"done", "failed"} : InlineEnds(st)
          \/ Ack

Lane(c) == \/ LaneClaims(c) \/ LaneSkips(c) \/ LaneRetries(c)
           \/ \E st \in {"done", "failed"} : LaneEnds(c, st)

Recovery(r) == \/ \E gone \in SUBSET Keys : Recover(r, gone)
               \/ RecoverFails(r) \/ RecoverRow(r) \/ GateOpens(r) \/ RecoverSignal(r)
               \/ \E st \in {"done", "failed"} : RecoveredSignalEnds(r, st)

Supervisor == \/ Flushed \/ Teardown \/ Away \/ AwayCloses \/ Resume
              \/ StopBegins \/ StopEnds \/ Crash

Next == \/ \E k \in Keys, p \in BOOLEAN : Push(k, p)
        \/ Push(Mark, FALSE)
        \/ Drop
        \/ Handshake
        \/ Reader
        \/ \E c \in Chats : Lane(c)
        \/ \E r \in Recoveries : Recovery(r)
        \/ RetryWakes \/ StartRecoveryEnds \/ RetryEnds
        \/ \E n \in finishes, ok \in BOOLEAN : FinishCommits(n, ok)
        \/ Supervisor
        \/ \E granted \in BOOLEAN : SenderConnects(granted)
        \/ SenderRecovers

Spec == Init /\ [][Next]_vars

\* What a task or thread does next, when nothing fails.
ReaderGoesOn == ReadMark \/ ReadFrame \/ ReadEnds
WriteGoesOn == \E w \in writes : UpsertOk(w) \/ (Fenced(w) /\ UpsertRefused(w))
InlineGoesOn == Dispatch \/ GateAbandoned \/ \E st \in {"done", "failed"} : InlineEnds(st)
LaneGoesOn(c) ==
    LaneClaims(c) \/ LaneSkips(c) \/ \E st \in {"done", "failed"} : LaneEnds(c, st)
RecoveryGoesOn(r) ==
    \/ Recover(r, {}) \/ RecoverRow(r) \/ GateOpens(r) \/ RecoverSignal(r)
    \/ \E st \in {"done", "failed"} : RecoveredSignalEnds(r, st)
FinishGoesOn == \E n \in finishes : FinishCommits(n, TRUE)

\* The event loop and the storage threads run every task that can run, and the
\* gateway connects again while it is allowed to.  Nothing makes the environment
\* send, fail, stop or suspend.  A turn or handler that began ends.
Fairness ==
    /\ WF_vars(Handshake) /\ WF_vars(ReaderGoesOn) /\ WF_vars(WriteGoesOn)
    /\ WF_vars(InlineGoesOn) /\ WF_vars(Ack)
    /\ \A c \in Chats : WF_vars(LaneGoesOn(c))
    /\ \A r \in Recoveries : WF_vars(RecoveryGoesOn(r))
    /\ WF_vars(RetryWakes) /\ WF_vars(StartRecoveryEnds) /\ WF_vars(RetryEnds)
    /\ WF_vars(FinishGoesOn)
    /\ WF_vars(Flushed) /\ WF_vars(Teardown) /\ WF_vars(AwayCloses)
    /\ WF_vars(Resume) /\ WF_vars(StopEnds)

FairSpec == Spec /\ Fairness

-----------------------------------------------------------------------------
(* Properties *)

\* The variables keep their types.
TypeOK ==
    /\ rows \in [Keys -> Row]
    /\ rowid \in Nat
    /\ seq \in Nat
    /\ claimed \subseteq Messages
    /\ inbox \in Seq(Entry)
    /\ base \in Nat
    /\ gen \in Nat
    /\ link \in {"none", "open", "closed"}
    /\ state \in {"DISCONNECTED", "HANDSHAKING", "READY", "AWAY", "CLOSED"}
    /\ stopping \in BOOLEAN /\ gate \in BOOLEAN
    /\ main \in {"idle", "hello", "recover", "flush", "watch"}
    /\ trk \in Tracker
    /\ rd \in ReaderTask
    /\ lanes \in [Chats -> LaneTask]
    /\ rec \in [Recoveries -> RecoveryTask]
    /\ rd.pc \in {"upsert", "gate", "inline", "finish"} => rd.f \in Frame
    /\ \A c \in Chats : lanes[c].pc # "idle" => lanes[c].f \in LaneFrame
    /\ \A r \in Recoveries : rec[r].pc \in {"inline", "finish"} => rec[r].f \in Frame
    /\ seen \subseteq Signals
    /\ regs \subseteq Nat /\ writes \subseteq Write /\ finishes \subseteq Finish
    /\ sender \in {"off", "ready"}
    /\ used \in [Bounded -> Nat]
    /\ hist \in History

Stored(k) == rows[k].st # "none" \/ k \in hist.pruned

\* What the server has been told it may forget is in the receipt table (or was
\* pruned from it after it finished): acks follow durable storage through lost
\* connections, orphaned writes, stale writers, stops and crashes.
AckedIsDurable == \A k \in hist.acked : Stored(k)

\* The watermark and the numbers above it never pass what was read, and every
\* number they cover names a stored frame or a mark.
WatermarkInv ==
    trk.on =>
      /\ base <= trk.acked
      /\ trk.acked <= trk.read
      /\ trk.read <= base + Len(inbox)
      /\ \A d \in trk.pend : d <= trk.read
      /\ \A i \in 1 .. Len(inbox) :
           /\ base + i <= trk.acked \/ base + i \in trk.pend
           /\ inbox[i].key # Mark
           => Stored(inbox[i].key)

\* The frame that the reader writes is the one it read last.
ReaderInv ==
    trk.on /\ rd.pc = "upsert" =>
      /\ rd.f.dseq = trk.read
      /\ trk.acked < trk.read
      /\ inbox[trk.read - base].key = rd.f.key

\* A row that is absent gives way to any write.
AbsentInv ==
    /\ \A w \in writes : w.f.dseq > 0
    /\ \A k \in Keys : rows[k].st = "none" => rows[k] = NoRow

\* Why acknowledged frames are durable
DurabilityInv == AckedIsDurable /\ WatermarkInv /\ ReaderInv /\ AbsentInv

\* The contract of the receipts, and the reading of the state as its state
Contract == INSTANCE DeliveryContract WITH
              held    <- KeysIn(inbox) \ {Mark},
              stored  <- {k \in Keys : Stored(k)},
              handled <- hist.handled

\* The delivery keeps the contract: the server forgets only what is stored, and
\* only what is stored is handled.
KeepsContract == Contract!Spec

\* A receipt is marked done only when a handler has had the message or signal:
\* nothing acknowledged is dropped in silence.
DoneMeansHandled ==
    \A k \in Keys : rows[k].st = "done" => k \in hist.handled

\* The connection that may read frames is the newest registered one: a delayed
\* registration of a connection that is gone never fences its replacement.
LiveWriterIsNewest ==
    trk.on /\ trk.seq > 0 => trk.seq = seq

None(kinds) == \A kind \in kinds : used[kind] = 0

\* A message whose receipt is done was handled: nothing the server was told to
\* forget is dropped (connection.py, lanes and recovery; storage.py, the status
\* update).  What a state other than READY ignores counts as done, and so does
\* what a standalone sender recovers (that is a finding).
NothingDropped ==
    None({"aways", "senders"}) =>
      \A m \in Messages : rows[m].st = "done" => m \in hist.handled

\* A late writer, replay or finish moves a receipt forward or leaves it: the
\* newest delivery and a final text are never overwritten by an older delivery
\* or a provisional copy, and done is never undone.  Only pruning removes a row.
ReceiptsMoveForward ==
    [][\A k \in Keys :
         rows[k].st # "none" =>
           \/ k \in hist'.pruned /\ rows'[k].st = "none"
           \/ /\ rows'[k].cs >= rows[k].cs
              /\ rows'[k].cs = rows[k].cs => rows'[k].dseq >= rows[k].dseq
              /\ rows'[k].prov => rows[k].prov
              /\ rows[k].st = "done" => rows'[k].st = "done"]_vars

\* A receipt only ever takes the delivery of the connection registered last.
OnlyNewestWrites ==
    [][\A k \in Keys : rows'[k].cs \notin {rows[k].cs, 0} => rows'[k].cs = seq]_vars

\* Receipts only move forward, and only the newest connection writes one
\* (storage.py, the upsert and status update of an inbound receipt).
ReceiptWrites == ReceiptsMoveForward /\ OnlyNewestWrites

\* Turns of one chat begin in the order its messages were first sent, across
\* reconnects, replays, recovery, stops and crashes.
TurnsInOrder ==
    \A i, j \in 1 .. Len(hist.turns) :
      /\ i < j
      /\ ChatOf[hist.turns[i]] = ChatOf[hist.turns[j]]
      => \E a, b \in 1 .. Len(hist.sent) :
            a < b /\ hist.sent[a] = hist.turns[i] /\ hist.sent[b] = hist.turns[j]

\* No pending receipt that no handler has had is forgotten while the connection
\* is up: someone holds its frame, or the retry timer will read it again. The
\* observer remembers a signal from when its handler begins, and one cancelled
\* there is not handled again.
PendingHasOwner ==
    main = "watch" /\ state = "READY" /\ gate /\ rd.pc # "over" =>
      \A k \in Keys : rows[k].st = "pending" =>
        \/ k \in hist.handled \cup InFlight \cup seen
        \/ rd.pc \in {"upsert", "gate"} /\ rd.f.key = k
        \/ rec["retry"].pc # "off"

\* The reader, the recovery at READY and the retry task never run the handler of
\* one signal at the same time.
OneHandlerPerSignal ==
    /\ \A r \in Recoveries :
         rd.pc = "inline" /\ rec[r].pc = "inline" => rd.f.key # rec[r].f.key
    /\ rec["start"].pc = "inline" /\ rec["retry"].pc = "inline" =>
         rec["start"].f.key # rec["retry"].f.key

\* Without a standalone sender the connection that reads is the newest one, and
\* no signal is handled by two tasks (connection.py, the registration fence and
\* the signal observer).
OneReader ==
    /\ None({"senders"}) => LiveWriterIsNewest
    /\ OneHandlerPerSignal

\* Turns begin in the order of sending as long as nothing fails, and while the
\* connection is up somebody holds each pending receipt (connection.py, the
\* order gate, the lanes and the retry task).
HandledInOrder ==
    /\ None({"faults", "aways", "senders"}) => TurnsInOrder
    /\ None({"senders"}) => PendingHasOwner

\* How often storage failed or the gateway stopped.
Mishaps == used["faults"] + used["stops"]

\* Every message sent is handled in the end, and everything the server holds is
\* acknowledged.
Settled == inbox = <<>> /\ Messages \cap KeysSent \subseteq hist.handled
EventuallySettled == []<>Settled

=============================================================================
