---------------------------- MODULE GroupBatches ----------------------------
(***************************************************************************)
(* The messages of one shared-session group chat between the chat's lane   *)
(* and the host: the coalescer that collects them into batches, its idle   *)
(* timer, its max-wait timer and its busy waiter, the dispatch of a batch, *)
(* and the settings of the group, which are fetched again on every READY   *)
(* and on every agent.config.changed and which hold group messages back    *)
(* while the first answer is awaited.                                      *)
(*                                                                         *)
(* Code between two awaits is one action.  A timer task whose sleep is     *)
(* over but which was cancelled before it ran does not run, so a timer is  *)
(* either armed or gone.  Keys do not share state: one key is modelled.    *)
(***************************************************************************)
EXTENDS Naturals, Sequences, SequencesExt, FiniteSets

CONSTANTS
    Msgs,        \* messages of the chat
    Mentions,    \* those that mention the agent
    Commands,    \* those that are admitted group commands
    Granted,     \* those whose speaker holds a grant (tool_grants is on)
    MaxMsgs,     \* how many of them come
    MaxChanges,  \* changes of the group's settings at the backend
    MaxReady,    \* times the connection becomes READY
    MaxFailures  \* dispatches that end in an exception

VARIABLES
    setting,     \* the backend's setting: "all", "mention" or "muted"
    unsignalled, \* a change whose agent.config.changed has not arrived
    changes,     \* changes so far
    ready,       \* times READY was reached
    seq,         \* _group_settings_fetch_seq
    fetch,       \* the fetches that run: sequence |-> its answer or "asked"
    applied,     \* GroupSettingsCache._max_applied_sequence
    cache,       \* the effective setting of the chat
    gate,        \* _group_settings_ready is set
    gaveUp,      \* history: the last refresh somebody waited five seconds for
    fresh,       \* new messages, in no particular order
    lane,        \* what the chat's lane does: a record, see LaneIdle
    pend,        \* _pending: the batch being collected
    idle,        \* an idle timer is armed
    maxwait,     \* a max-wait timer is armed
    waiter,      \* a busy waiter polls
    disp,        \* dispatches in progress: batches that are on their way to the host
    flag,        \* the chat is in _group_dispatching
    grantFlag,   \* _grant_group_grants of the chat
    turn,        \* the batch whose turn the host runs (<<>>: none)
    turnGrants,  \* that turn has a live snapshot with grants
    queued,      \* batches the host holds until its turn ends
    open,        \* the adapter is connected (FALSE after disconnect)
    failures,    \* dispatches that failed
    handed,      \* history: batches in the order the host took them
    ended,       \* history: messages dropped, failed or answered
    seen,        \* history: messages in the order they were enqueued
    forced       \* history: a flush was forced past a running turn

settingVars == <<setting, unsignalled, changes, ready, seq, fetch, applied, cache>>
timerVars == <<idle, maxwait, waiter>>
hostVars == <<turn, turnGrants, queued, handed>>
dispVars == <<disp, flag, grantFlag>>
vars == <<settingVars, gate, gaveUp, fresh, lane, pend, timerVars, dispVars, hostVars,
          open, failures, ended, seen, forced>>

Settings == {"all", "mention", "muted"}
NoMsg == "none"
LaneIdle == [msg |-> NoMsg, at |-> "idle", since |-> 0]
Busy == flag \/ turn # <<>>                      \* _group_turn_in_flight
HasGrant(batch) == \E m \in ToSet(batch) : m \in Granted
\* The chat may be answered at all under the setting cached for it.
Answers(mentioned) == cache = "all" \/ (cache = "mention" /\ mentioned)
Mentioned(batch) == \E m \in ToSet(batch) : m \in Mentions

Init ==
    /\ setting = "all"
    /\ unsignalled = FALSE /\ changes = 0 /\ ready = 0
    /\ seq = 0 /\ fetch = <<>> /\ applied = 0 /\ cache = "all"
    /\ gate = FALSE /\ gaveUp = 0
    /\ fresh \in {s \in SUBSET Msgs : Cardinality(s) <= MaxMsgs} /\ lane = LaneIdle
    /\ pend = <<>> /\ idle = FALSE /\ maxwait = FALSE /\ waiter = FALSE
    /\ disp = {} /\ flag = FALSE /\ grantFlag = FALSE
    /\ turn = <<>> /\ turnGrants = FALSE /\ queued = <<>>
    /\ open = TRUE /\ failures = 0
    /\ handed = <<>> /\ ended = {} /\ seen = <<>> /\ forced = FALSE

-----------------------------------------------------------------------------
(* The group's settings. *)

\* asyncio.Event.set wakes all who wait for the gate.
Woken(w) == IF w.at = "gate" THEN [w EXCEPT !.at = "judge"] ELSE w
WakeAll ==
    /\ lane' = Woken(lane)
    /\ disp' = {Woken(d) : d \in disp}
Asleep == UNCHANGED <<lane, disp>>

\* Mutant: any refresh that ends opens the gate.
ReleaseAlways(n) == gate' = TRUE /\ WakeAll

\* _release_group_settings_gate_if_latest
ReleaseIfLatest(n) ==
    IF n = seq THEN gate' = TRUE /\ WakeAll ELSE UNCHANGED gate /\ Asleep

\* The gate is closed and the sequence taken before the task is scheduled.
SpawnRefresh ==
    /\ gate' = FALSE
    /\ seq' = seq + 1
    /\ fetch' = [n \in DOMAIN fetch \cup {seq + 1} |->
                    IF n = seq + 1 THEN "asked" ELSE fetch[n]]

BecomeReady ==
    /\ open /\ ready < MaxReady
    /\ ready' = ready + 1
    /\ unsignalled' \in {unsignalled, FALSE}   \* a signal may be lost with the link
    /\ SpawnRefresh
    /\ UNCHANGED <<setting, changes, applied, cache, gaveUp, fresh, lane,
                   pend, timerVars, dispVars, hostVars, open, failures, ended, seen, forced>>

ChangeSetting ==
    /\ changes < MaxChanges
    /\ changes' = changes + 1
    /\ setting' \in Settings \ {setting}
    /\ unsignalled' = TRUE
    /\ UNCHANGED <<ready, seq, fetch, applied, cache, gate, gaveUp, fresh, lane, pend,
                   timerVars, dispVars, hostVars, open, failures, ended, seen, forced>>

ConfigChanged ==
    /\ open /\ unsignalled
    /\ unsignalled' = FALSE
    /\ SpawnRefresh
    /\ UNCHANGED <<setting, changes, ready, applied, cache, gaveUp, fresh, lane, pend,
                   timerVars, dispVars, hostVars, open, failures, ended, seen, forced>>

\* The backend answers a GET with the setting of that moment.
Answered(n) ==
    /\ n \in DOMAIN fetch /\ fetch[n] = "asked"
    /\ fetch' = [fetch EXCEPT ![n] = setting]
    /\ UNCHANGED <<setting, unsignalled, changes, ready, seq, applied, cache, gate,
                   gaveUp, fresh, lane, pend, timerVars, dispVars, hostVars, open, failures,
                   ended, seen, forced>>

\* Mutant: the sequence is kept but not compared.
ApplyAnyFetched(n) == cache' = fetch[n] /\ applied' = IF n > applied THEN n ELSE applied

\* apply_fetched: a pull not newer than the last one applied is dropped.
ApplyFetched(n) ==
    IF n > applied THEN cache' = fetch[n] /\ applied' = n
                   ELSE UNCHANGED <<cache, applied>>

\* The refresh ends: landed, or failed (then the cache is kept).
RefreshEnds(n) ==
    /\ n \in DOMAIN fetch
    /\ \/ fetch[n] # "asked" /\ ApplyFetched(n)
       \/ UNCHANGED <<cache, applied>>
    /\ fetch' = [k \in DOMAIN fetch \ {n} |-> fetch[k]]
    /\ ReleaseIfLatest(n)
    /\ UNCHANGED <<setting, unsignalled, changes, ready, seq, gaveUp, fresh, pend, timerVars,
                   flag, grantFlag, hostVars, open, failures, ended, seen, forced>>

\* _await_group_settings_ready, first half: whoever finds the gate closed
\* waits and remembers the refresh it waits for.
AtGate(w) == IF gate THEN [w EXCEPT !.at = "judge"]
                     ELSE [w EXCEPT !.at = "gate", !.since = seq]

\* Five seconds passed for the lane: it goes on with the cache as it is, and
\* opens the gate if no newer refresh was spawned.
LaneGateTimeout ==
    /\ lane.at = "gate"
    /\ gaveUp' = lane.since
    /\ IF lane.since = seq THEN gate' = TRUE /\ WakeAll
       ELSE UNCHANGED <<gate, disp>> /\ lane' = Woken(lane)
    /\ UNCHANGED <<settingVars, fresh, pend, timerVars, flag, grantFlag, hostVars,
                   open, failures, ended, seen, forced>>

DispatchGateTimeout(d) ==
    /\ d \in disp /\ d.at = "gate"
    /\ gaveUp' = d.since
    /\ IF d.since = seq THEN gate' = TRUE /\ WakeAll
       ELSE UNCHANGED <<gate, lane>> /\ disp' = (disp \ {d}) \cup {Woken(d)}
    /\ UNCHANGED <<settingVars, fresh, pend, timerVars, flag, grantFlag, hostVars,
                   open, failures, ended, seen, forced>>

-----------------------------------------------------------------------------
(* Batches. *)

\* Mutant: the chat is marked busy only when the batch is handed over.
StartUnmarked(batch, by) ==
    /\ disp' = disp \cup {AtGate([batch |-> batch, by |-> by, at |-> "start", since |-> 0])}
    /\ UNCHANGED <<flag, grantFlag>>

\* _dispatch_owned_group_batch, up to its first await: marked busy at once.
\* (A gate that is open is passed in the same step; judging in a step of its
\* own only adds moments at which the settings may change.)
StartDispatch(batch, by) ==
    /\ disp' = disp \cup {AtGate([batch |-> batch, by |-> by, at |-> "start", since |-> 0])}
    /\ flag' = TRUE
    /\ grantFlag' = HasGrant(batch)

\* Mutant: a batch met by a running turn is left for the next timer.
FlushWithoutHold(i, m, w, force, by) ==
    IF pend = <<>> \/ (~force /\ Busy) THEN
        /\ idle' = i /\ maxwait' = m /\ waiter' = w
        /\ UNCHANGED <<pend, dispVars>>
    ELSE
        /\ idle' = FALSE /\ maxwait' = FALSE /\ waiter' = w
        /\ pend' = <<>>
        /\ StartDispatch(pend, by)

\* flush, called with the timers i, m and the waiter w still there.
Flush(i, m, w, force, by) ==
    IF pend = <<>> THEN
        /\ idle' = i /\ maxwait' = m /\ waiter' = w
        /\ UNCHANGED <<pend, dispVars>>
    ELSE IF ~force /\ Busy THEN      \* _hold_until_idle: one waiter per chat
        /\ idle' = i /\ maxwait' = m /\ waiter' = TRUE
        /\ UNCHANGED <<pend, dispVars>>
    ELSE
        /\ idle' = FALSE /\ maxwait' = FALSE /\ waiter' = w
        /\ pend' = <<>>
        /\ StartDispatch(pend, by)

IdleFires ==
    /\ idle
    /\ Flush(FALSE, maxwait, waiter, FALSE, "timer")
    /\ UNCHANGED <<settingVars, gate, gaveUp, fresh, lane, hostVars, open, failures,
                   ended, seen, forced>>

MaxWaitFires ==
    /\ maxwait
    /\ Flush(idle, FALSE, waiter, FALSE, "timer")
    /\ UNCHANGED <<settingVars, gate, gaveUp, fresh, lane, hostVars, open, failures,
                   ended, seen, forced>>

\* _flush_when_idle finds the chat free: the waiter leaves the table, then
\* flushes.
WaiterFindsIdle ==
    /\ waiter /\ ~Busy
    /\ Flush(idle, maxwait, FALSE, FALSE, "timer")
    /\ UNCHANGED <<settingVars, gate, gaveUp, fresh, lane, hostVars, open, failures,
                   ended, seen, forced>>

\* The waiter's deadline: only where grants are involved is the chat's turn
\* stripped of them and the batch forced out; otherwise the wait starts again.
WaiterTimesOut ==
    /\ waiter /\ Busy
    /\ turnGrants \/ HasGrant(pend) \/ grantFlag
    /\ turnGrants' = FALSE
    /\ Flush(idle, maxwait, FALSE, TRUE, "timer")
    /\ forced' = (forced \/ pend # <<>>)
    /\ UNCHANGED <<settingVars, gate, gaveUp, fresh, lane, turn, queued, handed, open,
                   failures, ended, seen>>

\* The end of a dispatch, however it ends.
EndDispatch(d) ==
    /\ disp' = disp \ {d}
    /\ flag' = FALSE /\ grantFlag' = FALSE
    /\ lane' = IF d.by = "lane" THEN LaneIdle ELSE lane

\* _dispatch_group_batch_now judges the batch by the settings of now.
JudgeBatch(d) ==
    /\ d \in disp /\ d.at = "judge"
    /\ IF Answers(Mentioned(d.batch))
       THEN /\ disp' = (disp \ {d}) \cup {[d EXCEPT !.at = "prep"]}
            /\ UNCHANGED <<lane, flag, grantFlag, ended>>
       ELSE EndDispatch(d) /\ ended' = ended \cup ToSet(d.batch)
    /\ UNCHANGED <<settingVars, gate, gaveUp, fresh, pend, timerVars, hostVars, open,
                   failures, seen, forced>>

\* The host takes an event: a running turn makes it wait.
HostTakes(batch) ==
    /\ handed' = Append(handed, batch)
    /\ IF turn = <<>>
       THEN turn' = batch /\ turnGrants' = HasGrant(batch) /\ UNCHANGED queued
       ELSE queued' = Append(queued, batch) /\ UNCHANGED <<turn, turnGrants>>

HandBatch(d) ==
    /\ d \in disp /\ d.at = "prep"
    /\ HostTakes(d.batch)
    /\ EndDispatch(d)
    /\ UNCHANGED <<settingVars, gate, gaveUp, fresh, pend, timerVars, open, failures,
                   ended, seen, forced>>

\* _handle_inbound raises: the task logs it, or the lane sees it.
FailBatch(d) ==
    /\ d \in disp /\ d.at = "prep"
    /\ failures < MaxFailures /\ failures' = failures + 1
    /\ EndDispatch(d)
    /\ ended' = ended \cup ToSet(d.batch)
    /\ UNCHANGED <<settingVars, gate, gaveUp, fresh, pend, timerVars, hostVars, open,
                   seen, forced>>

HostTurnEnds ==
    /\ turn # <<>>
    /\ ended' = ended \cup ToSet(turn)
    /\ IF queued = <<>>
       THEN turn' = <<>> /\ turnGrants' = FALSE /\ UNCHANGED queued
       ELSE /\ turn' = Head(queued) /\ queued' = Tail(queued)
            /\ turnGrants' = HasGrant(Head(queued))
    /\ UNCHANGED <<settingVars, gate, gaveUp, fresh, lane, pend, timerVars, dispVars,
                   handed, open, failures, seen, forced>>

-----------------------------------------------------------------------------
(* The chat's lane. *)

Arrive(m) ==
    /\ open /\ lane = LaneIdle /\ m \in fresh
    /\ fresh' = fresh \ {m}
    /\ lane' = AtGate([msg |-> m, at |-> "start", since |-> 0])
    /\ UNCHANGED <<settingVars, gate, gaveUp, pend, timerVars, dispVars, hostVars, open,
                   failures, ended, seen, forced>>

\* enqueue: a new idle timer, and a max-wait timer if there is none; a
\* mention's flush_now then cancels both and waits for them to end.
Enqueue(m) ==
    /\ pend' = Append(pend, m)
    /\ seen' = Append(seen, m)
    /\ idle' = (m \notin Mentions)
    /\ maxwait' = (m \notin Mentions)
    /\ lane' = IF m \in Mentions THEN [lane EXCEPT !.at = "gather"] ELSE LaneIdle

\* The group part of _route_inbound_now.
Route ==
    /\ lane.at = "judge"
    /\ IF cache # "muted" /\ lane.msg \in Commands THEN
            /\ lane' = [lane EXCEPT !.at = "prep"]
            /\ UNCHANGED <<pend, idle, maxwait, ended, seen>>
       ELSE IF Answers(lane.msg \in Mentions) THEN
            Enqueue(lane.msg) /\ UNCHANGED ended
       ELSE
            /\ ended' = ended \cup {lane.msg}
            /\ lane' = LaneIdle
            /\ UNCHANGED <<pend, idle, maxwait, seen>>
    /\ UNCHANGED <<settingVars, gate, gaveUp, fresh, waiter, dispVars, hostVars, open,
                   failures, forced>>

\* A command goes to the host past the batch.
HandCommand ==
    /\ lane.at = "prep"
    /\ HostTakes(<<lane.msg>>)
    /\ lane' = LaneIdle
    /\ UNCHANGED <<settingVars, gate, gaveUp, fresh, pend, timerVars, dispVars, open,
                   failures, ended, seen, forced>>

\* flush_now after its gather; the lane waits for the dispatch it starts.
FlushNow ==
    /\ lane.at = "gather"
    /\ Flush(FALSE, FALSE, waiter, FALSE, "lane")
    /\ lane' = IF pend' = <<>> /\ pend # <<>> THEN [lane EXCEPT !.at = "dispatch"]
               ELSE LaneIdle
    /\ UNCHANGED <<settingVars, gate, gaveUp, fresh, hostVars, open, failures, ended,
                   seen, forced>>

\* disconnect: the lane and its dispatch are cancelled, then the coalescer.
Disconnect ==
    /\ open /\ open' = FALSE
    /\ LET gone == {d \in disp : d.by = "lane"}
       IN  /\ disp' = disp \ gone
           /\ flag' = (flag /\ gone = {}) /\ grantFlag' = (grantFlag /\ gone = {})
           /\ ended' = ended \cup ToSet(pend)
                       \cup (IF lane.at \in {"gate", "judge", "prep"}
                             THEN {lane.msg} ELSE {})
                       \cup UNION {ToSet(d.batch) : d \in gone}
    /\ lane' = LaneIdle
    /\ pend' = <<>> /\ idle' = FALSE /\ maxwait' = FALSE /\ waiter' = FALSE
    /\ UNCHANGED <<settingVars, gate, gaveUp, fresh, hostVars, failures, seen, forced>>

Next ==
    \/ BecomeReady \/ ChangeSetting \/ ConfigChanged
    \/ \E n \in DOMAIN fetch : Answered(n) \/ RefreshEnds(n)
    \/ LaneGateTimeout
    \/ \E d \in disp : DispatchGateTimeout(d) \/ JudgeBatch(d) \/ HandBatch(d) \/ FailBatch(d)
    \/ IdleFires \/ MaxWaitFires \/ WaiterFindsIdle \/ WaiterTimesOut
    \/ HostTurnEnds
    \/ \E m \in Msgs : Arrive(m)
    \/ Route \/ HandCommand \/ FlushNow
    \/ Disconnect

Spec == Init /\ [][Next]_vars

\* What the chat's lane and the dispatched batches do next.
LaneGoesOn == LaneGateTimeout \/ Route \/ HandCommand \/ FlushNow
GateTimesOut == \E d \in disp : DispatchGateTimeout(d)
DispatchGoesOn == \E d \in disp : JudgeBatch(d) \/ HandBatch(d) \/ FailBatch(d)

\* Timers fire, the waiter polls, waits are bounded, and the host ends turns.
Fairness ==
    /\ WF_vars(IdleFires) /\ WF_vars(WaiterFindsIdle)
    /\ WF_vars(HostTurnEnds)
    /\ WF_vars(LaneGoesOn) /\ WF_vars(GateTimesOut) /\ WF_vars(DispatchGoesOn)

FairSpec == Spec /\ Fairness

-----------------------------------------------------------------------------
(* Properties. *)

TypeOK ==
    /\ {setting, cache} \subseteq Settings /\ unsignalled \in BOOLEAN
    /\ {changes, ready, seq, applied, gaveUp, failures} \subseteq Nat
    /\ DOMAIN fetch \subseteq 1..seq
    /\ \A n \in DOMAIN fetch : fetch[n] \in Settings \cup {"asked"}
    /\ {gate, idle, maxwait, waiter, flag, grantFlag, turnGrants, open, forced}
           \subseteq BOOLEAN
    /\ fresh \cup ended \subseteq Msgs
    /\ lane \in [msg : Msgs, since : 0..seq,
                 at : {"gate", "judge", "prep", "gather", "dispatch"}] \cup {LaneIdle}
    /\ {pend, turn, seen} \cup ToSet(queued) \cup ToSet(handed) \subseteq Seq(Msgs)
    /\ disp \subseteq [batch : Seq(Msgs), by : {"lane", "timer"}, since : 0..seq,
                    at : {"gate", "judge", "prep"}]

(* A batch that is being collected always has somebody who will flush it:  *)
(* a timer, the busy waiter, or the mention that is about to (flush_now    *)
(* between its gather and its flush).  Timers cancel each other, and the   *)
(* waiter leaves the table before it flushes.                              *)
HeldHasFlusher ==
    pend # <<>> => idle \/ maxwait \/ waiter \/ lane.at = "gather"

\* Unless a flush was forced past a turn, one batch at a time is on its way.
OneDispatch == forced \/ \A d, e \in disp : d = e

(* Unless a flush was forced past a turn, one batch at a time is on its    *)
(* way to the host, and messages reach it in the order in which they were  *)
(* enqueued.                                                               *)
BatchesInOrder ==
    /\ OneDispatch
    /\ forced \/ LET chat == SelectSeq(FlattenSeq(handed), LAMBDA m : m \notin Commands)
                 IN  \A i, j \in DOMAIN chat : \A k, l \in DOMAIN seen :
                       i < j /\ chat[i] = seen[k] /\ chat[j] = seen[l] => k < l

(* Group messages are let past the gate only when the newest refresh has   *)
(* ended or somebody has waited out its time: a refresh that was           *)
(* superseded never opens it for the one that superseded it.               *)
GateIsNewest ==
    gate => seq \notin DOMAIN fetch \/ gaveUp = seq

(* When the newest refresh is the one applied, and no change is still to   *)
(* be signalled, the cache is what the backend has: an answer that arrives *)
(* late never rolls the settings back.                                     *)
CacheIsNewest ==
    seq > 0 /\ applied = seq /\ ~unsignalled => cache = setting

(* No message stays in a batch for ever, however the chat's turns, its     *)
(* timers and the refreshes of its settings interleave.                    *)
NoneHeld == pend = <<>>
BatchesLeave == []<>NoneHeld
=============================================================================
