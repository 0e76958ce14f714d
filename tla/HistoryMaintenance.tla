-------------------------- MODULE HistoryMaintenance --------------------------
(***************************************************************************)
(* The maintenance of one conversation's history.  When the session of the *)
(* host has grown too large, a worker folds the older messages into a      *)
(* rolling summary, block by block, and then renews the host's session; a  *)
(* later turn shows the new session the summary and the messages after it. *)
(* The state is one row that is replaced by compare-and-swap on its        *)
(* generation, by the worker, by the reset it starts and leaves behind, by *)
(* turns being prepared, by the observers of the host's requests and       *)
(* resets, and by the end of turns.                                        *)
(*                                                                         *)
(* Messages are numbered in ledger order.  How much a turn's history costs *)
(* and what the plan folds are data: any prefix may be folded.             *)
(***************************************************************************)
EXTENDS Naturals, Sequences, SequencesExt, FiniteSets

CONSTANTS
    MaxMsgs,       \* messages, numbered from 1
    News,          \* those that are the command /new
    RunBlocks,     \* blocks one run folds (3 in the code)
    MaxPlans,      \* how often a turn's end finds the history too large
    MaxFaults      \* deadlines, failures, replaced instances, host rotations

MaintenanceAssumption ==
    /\ {MaxMsgs, RunBlocks, MaxPlans, MaxFaults} \subseteq Nat
    /\ News \subseteq 1..MaxMsgs

Msgs == 1..MaxMsgs
Chat == Msgs \ News           \* entries: commands are not part of the history
NoPend == [why |-> "none", cut |-> 0, stage |-> "none", host |-> 0, id |-> 0]

VARIABLES
    row,      \* clawchat_history_state, see Fresh
    sid,      \* the host's session by its durable route
    ctx,      \* history: what each session has seen
    left,     \* history: what the budget left out of the windows it was shown
    n,        \* messages in the ledger
    turn,     \* each message's way through prepare and the host
    cand,     \* the user's /new that has not been confirmed
    hook,     \* a reset of the user the host has reported
    blocked,  \* the conversation is held
    worker,   \* start and maintain, see Off
    reset,    \* the shielded reset task
    plans, faults, \* how often each happened
    renewals  \* history: the pending work whose resets were committed

turnVars == <<n, turn, cand, hook>>
hostVars == <<sid, ctx, left, renewals>>
workVars == <<blocked, worker, reset>>
boundVars == <<plans, faults>>
vars == <<row, hostVars, turnVars, workVars, boundVars>>

Fresh == [gen |-> 0, through |-> 0, sum |-> <<>>, bound |-> 0, host |-> 0,
          injFor |-> 0, injNext |-> FALSE, pend |-> NoPend, fails |-> 0, retry |-> 0]
Off == [at |-> "off", renewed |-> FALSE, row |-> Fresh, todo |-> {}, more |-> FALSE]
NoReset == [at |-> "off", row |-> Fresh, old |-> 0]
NotYet == [at |-> "none", text |-> FALSE, cover |-> {}, left |-> {}, row |-> Fresh, sid |-> 0,
           tracked |-> FALSE]
NoCand == [old |-> 0, mid |-> 0]

Init ==
    /\ row = Fresh
    /\ sid = 1 /\ ctx = <<{}>> /\ left = <<{}>>
    /\ n = 0 /\ turn = [m \in Msgs |-> NotYet]
    /\ cand = NoCand /\ hook = 0
    /\ blocked = FALSE /\ worker = Off /\ reset = NoReset
    /\ plans = 0 /\ faults = 0 /\ renewals = <<>>

-----------------------------------------------------------------------------
(* The row and what is computed from it. *)

\* Mutant: the replacement does not look at the generation.
CurrentAlways(r) == TRUE

Stored(r) == [r EXCEPT !.gen = @ + 1]

\* cas: the generation the attempt has read is still the stored one.
Current(r) == r.gen = row.gen

Backoff(f) == LET wait == <<1, 2, 4, 8>> IN wait[IF f < 4 THEN f ELSE 4]
FailedOnce(r) == Stored([r EXCEPT !.fails = @ + 1, !.retry = Backoff(r.fails + 1)])

\* interval: the entries after the summary and, but for the fold after a
\* /new, after the boundary, up to the cut.
Interval(r, cut, all) ==
    LET start == IF all \/ r.bound < r.through THEN r.through ELSE r.bound
    IN  {m \in Chat : start < m /\ m <= cut}

\* queue_pending: work for why, up to the cut of a /new or to a cut the plan
\* chooses; too little to fold only moves the boundary.
Queued(r, why, cut, bound) ==
    LET Moved(b) == IF b = 0 THEN r ELSE [r EXCEPT !.bound = b]
        Work(c) == Stored([Moved(bound) EXCEPT
                       !.pend = [why |-> why, cut |-> c, stage |-> "summary",
                                 host |-> r.host, id |-> r.gen]])
        plan == Interval(r, n, FALSE)
        thin == IF bound = 0 THEN r
                ELSE Stored([Moved(bound) EXCEPT !.injNext = TRUE])
    IN  IF r.pend # NoPend /\ why # "renewed" THEN {r}
        ELSE IF why = "renewed"
             THEN {Work(cut)} \cup (IF r.pend = NoPend THEN {thin} ELSE {})
        ELSE {Work(c) : c \in plan \cup {0}} \cup (IF why = "budget" THEN {} ELSE {thin})

\* confirm_renewed: the user's /new is durable, its history is to be folded.
Renewed(r, c, new) == Queued(Stored([r EXCEPT !.host = new]), "renewed", c.mid, c.mid)

\* The new session is durable: the work is done.
Settled(r, new) == Stored([r EXCEPT !.host = new, !.injNext = TRUE, !.pend = NoPend,
                                    !.fails = 0, !.retry = 0])

LockFree == worker.at \notin {"idle", "llm", "idle2", "resetting"}
HostBusy == \E m \in Msgs : turn[m].at \in {"handed", "running", "observed"}
LaneBusy == \E m \in Msgs : turn[m].at \in {"arrived", "second"}

\* schedule and start: at most one run, and none beside a reset.
MayStart == worker.at = "off" /\ ~blocked /\ reset.at = "off"
Started(renewed) == [Off EXCEPT !.at = "lock", !.renewed = renewed]
StartIf(cond) ==
    IF cond /\ MayStart THEN worker' = Started(FALSE) /\ blocked' = TRUE
    ELSE UNCHANGED <<worker, blocked>>

-----------------------------------------------------------------------------
(* Turns. *)

\* The chat's lane takes a message; held while the conversation is blocked.
Arrive ==
    /\ ~blocked /\ ~LaneBusy /\ n < MaxMsgs
    /\ n' = n + 1
    /\ turn' = [turn EXCEPT ![n + 1].at = "arrived"]
    /\ UNCHANGED <<row, hostVars, cand, hook, workVars, boundVars>>

\* before: a /new of the user or a late reset is reconciled, and
\* a rotation the plugin did not start queues work.
Reconciled ==
    IF cand # NoCand /\ sid # cand.old THEN Renewed(row, cand, sid)
    ELSE {row}

LateReset(r) ==
    IF r.pend.stage = "reset" /\ r.pend.host \notin {0, sid}
    THEN [Stored(r) EXCEPT !.host = sid, !.injNext = r.injFor # sid, !.pend = NoPend,
                           !.fails = 0, !.retry = 0]
    ELSE r

Rotated(r) ==
    IF r.host = sid THEN {r}
    ELSE LET moved == Stored([r EXCEPT !.host = sid])
         IN  IF r.host = 0 THEN {moved} ELSE Queued(moved, "external", 0, 0)

\* recent_window_for_injection: the rest from some message on, as the budget
\* has it; behind a summary at least the newest message.
Windows(r, rest) ==
    {w \in {{k \in rest : k >= from} : from \in 1..(MaxMsgs + 1)} :
        r.sum # <<>> /\ rest # {} => w # {}}

\* A session that has not been shown the history is given it with the turn: the
\* summary and a window of the messages after it.
Handed(m, r) ==
    LET rest == Interval(r, m - 1, FALSE)
        Turn(text, cover, out) == [at |-> "handed", text |-> text, cover |-> cover,
                                   left |-> out, row |-> r, sid |-> 0, tracked |-> TRUE]
    IN  IF r.injNext \/ sid # r.injFor
        THEN {Turn(TRUE, ToSet(r.sum) \cup w, rest \ w) : w \in Windows(r, rest)}
        ELSE {Turn(FALSE, {}, {})}

Before(m) ==
    /\ turn[m].at = "arrived" /\ LockFree /\ ~blocked
    /\ row' \in UNION {Rotated(LateReset(r)) : r \in Reconciled}
    /\ IF m \in News
       THEN /\ cand' = [old |-> sid, mid |-> m]
            /\ turn' = [turn EXCEPT ![m].at = "handed", ![m].row = row']
            /\ UNCHANGED <<worker, blocked>>
       ELSE /\ cand' = NoCand
            /\ IF row'.pend.why = "renewed" /\ row'.retry = 0 /\ MayStart
               THEN /\ worker' = Started(TRUE) /\ blocked' = TRUE
                    /\ turn' = [turn EXCEPT ![m].at = "second"]
               ELSE /\ \E t \in Handed(m, row') : turn' = [turn EXCEPT ![m] = t]
                    /\ UNCHANGED <<worker, blocked>>
    /\ UNCHANGED <<hostVars, n, hook, reset, boundVars>>

\* before goes on after the fold it has waited for; maintenance that has begun
\* meanwhile puts the message back.
Hand(m) ==
    /\ turn[m].at = "second" /\ LockFree /\ ~worker.renewed
    /\ \/ blocked /\ turn' = [turn EXCEPT ![m].at = "arrived"]
       \/ ~blocked /\ \E t \in Handed(m, row) : turn' = [turn EXCEPT ![m] = t]
    /\ UNCHANGED <<row, hostVars, n, cand, hook, workVars, boundVars>>

\* Mutant: the request is taken to be of the session the host now has.
ObserveAnySession(m) ==
    /\ turn[m].at = "running"
    /\ turn' = [turn EXCEPT ![m].at = "observed"]
    /\ LET r == turn[m].row IN
       row' = IF ~turn[m].tracked \/ ~Current(r) THEN row
              ELSE IF turn[m].text
              THEN Stored([r EXCEPT !.host = sid, !.injFor = sid, !.injNext = FALSE])
              ELSE IF r.host # sid THEN Stored([r EXCEPT !.injNext = TRUE])
              ELSE row
    /\ UNCHANGED <<hostVars, n, cand, hook, workVars, boundVars>>

\* The host runs its turns one after the other; the first request shows the
\* session what the turn carries.
Request(m) ==
    /\ turn[m].at = "handed" /\ m \notin News
    /\ \A k \in Msgs : turn[k].at \notin {"running", "observed"}
    /\ \A k \in 1..(m - 1) : turn[k].at # "handed"
    /\ turn' = [turn EXCEPT ![m].at = "running", ![m].sid = sid]
    /\ ctx' = [ctx EXCEPT ![sid] = @ \cup {m} \cup turn[m].cover]
    /\ left' = [left EXCEPT ![sid] = IF turn[m].text THEN turn[m].left ELSE @]
    /\ UNCHANGED <<row, sid, renewals, n, cand, hook, workVars, boundVars>>

\* observe_request, called back by the host's thread.
Observe(m) ==
    /\ turn[m].at = "running"
    /\ turn' = [turn EXCEPT ![m].at = "observed"]
    /\ LET r == turn[m].row IN
       row' = IF ~turn[m].tracked \/ turn[m].sid # sid \/ ~Current(r) THEN row
              ELSE IF turn[m].text
              THEN Stored([r EXCEPT !.host = sid, !.injFor = sid, !.injNext = FALSE])
              ELSE IF r.host # sid THEN Stored([r EXCEPT !.injNext = TRUE])
              ELSE row
    /\ UNCHANGED <<hostVars, n, cand, hook, workVars, boundVars>>

\* after_turn: the wait of a failed run counts down, a history that has
\* become too large queues work, and pending work is started.
TurnEnds(m) ==
    /\ turn[m].at = "observed"
    /\ turn' = [turn EXCEPT ![m] = [NotYet EXCEPT !.at = "done"]]
    /\ IF ~turn[m].tracked THEN UNCHANGED <<row, worker, blocked, plans>>
       ELSE LET wait == row.retry > 0
                base == IF wait THEN Stored([row EXCEPT !.retry = @ - 1]) ELSE row
            IN  IF base.retry > 0
                THEN row' = base /\ UNCHANGED <<worker, blocked, plans>>
                ELSE /\ \/ row' = base /\ UNCHANGED plans
                        \/ /\ base.pend = NoPend /\ plans < MaxPlans
                           /\ plans' = plans + 1
                           /\ row' \in Queued(base, "budget", 0, 0)
                     /\ StartIf(row'.pend # NoPend)
    /\ UNCHANGED <<hostVars, n, cand, hook, reset, faults>>

\* finish_failed_turn: the host failed, nothing is counted or queued.
TurnFails(m) ==
    /\ turn[m].at \in {"running", "observed"}
    /\ faults < MaxFaults /\ faults' = faults + 1
    /\ turn' = [turn EXCEPT ![m] = [NotYet EXCEPT !.at = "done"]]
    /\ UNCHANGED <<row, hostVars, n, cand, hook, workVars, plans>>

\* The host carries out a /new, or drops it (a prompt that is cancelled), and
\* reports the reset from its thread.
HostNew(m) ==
    /\ turn[m].at = "handed" /\ m \in News
    /\ \A k \in Msgs : turn[k].at \notin {"running", "observed"}
    /\ \A k \in 1..(m - 1) : turn[k].at # "handed"
    /\ turn' = [turn EXCEPT ![m] = [NotYet EXCEPT !.at = "done"]]
    /\ \/ UNCHANGED <<sid, ctx, left, hook>>
       \/ /\ sid' = sid + 1 /\ ctx' = Append(ctx, {}) /\ left' = Append(left, {})
          /\ hook' = sid'
    /\ UNCHANGED <<row, renewals, n, cand, workVars, boundVars>>

ObserveReset ==
    /\ hook # 0
    /\ hook' = 0
    /\ IF cand = NoCand \/ cand.old = hook \/ sid # hook
       THEN UNCHANGED <<row, cand>>
       ELSE row' \in Renewed(row, cand, hook) /\ cand' = NoCand
    /\ UNCHANGED <<hostVars, n, turn, workVars, boundVars>>

\* The host renews the session on its own (a time-out, its own compaction).
HostRotates ==
    /\ ~HostBusy
    /\ faults < MaxFaults /\ faults' = faults + 1
    /\ sid' = sid + 1 /\ ctx' = Append(ctx, {}) /\ left' = Append(left, {})
    /\ UNCHANGED <<row, renewals, turnVars, workVars, plans>>

-----------------------------------------------------------------------------
(* The run of maintenance. *)

Ends == worker' = Off /\ blocked' = FALSE

\* The exception path of start: the wait until the next try doubles.
RunFails(r) ==
    /\ Ends
    /\ row' = IF r.pend # NoPend /\ reset.at = "off" THEN FailedOnce(r) ELSE row

\* maintain: the blocks up to the cut, as many as one run may fold.
Begin ==
    LET p == row.pend
        all == Interval(row, p.cut, p.why = "renewed")
        first == {m \in all : Cardinality({k \in all : k <= m}) <= RunBlocks}
        todo == IF p.why = "renewed" THEN all ELSE first
    IN  [worker EXCEPT !.at = "llm", !.row = row, !.todo = todo, !.more = todo # all]

WorkerLocks ==
    /\ worker.at = "lock"
    /\ IF ~blocked \/ (worker.renewed /\ row.pend = NoPend) THEN Ends
       ELSE /\ UNCHANGED blocked
            /\ worker' = IF worker.renewed THEN Begin ELSE [worker EXCEPT !.at = "idle"]
    /\ UNCHANGED <<row, hostVars, turnVars, reset, boundVars>>

WorkerIdle ==
    /\ worker.at = "idle"
    /\ IF ~blocked \/ row.pend = NoPend THEN Ends
       ELSE ~HostBusy /\ UNCHANGED blocked /\ worker' = Begin
    /\ UNCHANGED <<row, hostVars, turnVars, reset, boundVars>>

\* A summary file is immutable: the new one counts once the row refers to it.
Published(r, m) == Stored([r EXCEPT !.sum = Append(@, m), !.through = m])

\* One block: the model's reply is published, unless the run is over or
\* another writer has replaced the row.
Fold ==
    /\ worker.at = "llm" /\ worker.todo # {}
    /\ IF ~blocked \/ ~Current(worker.row) THEN Ends /\ UNCHANGED row
       ELSE \E m \in worker.todo :
               /\ \A k \in worker.todo : m <= k
               /\ row' = Published(worker.row, m)
               /\ worker' = [worker EXCEPT !.row = row', !.todo = @ \ {m}]
               /\ UNCHANGED blocked
    /\ UNCHANGED <<hostVars, turnVars, reset, boundVars>>

\* Mutant: the reset follows also when blocks are left for another run.
FoldedAnyway ==
    /\ worker.at = "llm" /\ worker.todo = {}
    /\ IF ~Current(worker.row) THEN Ends /\ UNCHANGED row
       ELSE LET r == Stored([worker.row EXCEPT !.pend.stage = "reset"])
            IN  IF worker.row.pend.why = "renewed"
                THEN row' = Settled(r, r.host) /\ Ends
                ELSE /\ row' = r
                     /\ worker' = [worker EXCEPT !.at = "idle2", !.row = r]
                     /\ UNCHANGED blocked
    /\ UNCHANGED <<hostVars, turnVars, reset, boundVars>>

FoldFails ==
    /\ worker.at = "llm" /\ worker.todo # {}
    /\ faults < MaxFaults /\ faults' = faults + 1
    /\ RunFails(row)
    /\ UNCHANGED <<hostVars, turnVars, reset, plans>>

\* The blocks are folded: a renewal of the user is done with that, any other
\* run goes on to the reset unless blocks are left.
Folded ==
    /\ worker.at = "llm" /\ worker.todo = {}
    /\ IF worker.more \/ ~Current(worker.row) THEN Ends /\ UNCHANGED row
       ELSE LET r == Stored([worker.row EXCEPT !.pend.stage = "reset"])
            IN  IF worker.row.pend.why = "renewed"
                THEN row' = Settled(r, r.host) /\ Ends
                ELSE /\ row' = r
                     /\ worker' = [worker EXCEPT !.at = "idle2", !.row = r]
                     /\ UNCHANGED blocked
    /\ UNCHANGED <<hostVars, turnVars, reset, boundVars>>

\* The notes are taken and the host is idle: the session that was summarised
\* must still be the host's, and the reset is started.
StartReset ==
    /\ worker.at = "idle2"
    /\ IF ~blocked THEN Ends /\ UNCHANGED <<row, reset>>
       ELSE /\ ~HostBusy
            /\ IF sid # worker.row.host THEN RunFails(row) /\ UNCHANGED reset
               ELSE /\ reset' = [at |-> "command", row |-> worker.row, old |-> sid]
                    /\ worker' = [worker EXCEPT !.at = "resetting"]
                    /\ UNCHANGED <<row, blocked>>
    /\ UNCHANGED <<hostVars, turnVars, boundVars>>

\* The host carries out the reset, or fails to.
ResetCommits ==
    /\ reset.at = "command"
    /\ reset' = [reset EXCEPT !.at = "reread"]
    /\ sid' = sid + 1 /\ ctx' = Append(ctx, {}) /\ left' = Append(left, {})
    /\ renewals' = Append(renewals, [id |-> reset.row.pend.id, cut |-> reset.row.pend.cut,
                                     from |-> sid, sum |-> row.sum])
    /\ UNCHANGED <<row, turnVars, blocked, worker, boundVars>>

ResetFails ==
    /\ reset.at = "command"
    /\ faults < MaxFaults /\ faults' = faults + 1
    /\ reset' = [reset EXCEPT !.at = "reread"]
    /\ UNCHANGED <<row, hostVars, turnVars, blocked, worker, plans>>

\* The durable route is read again, whatever the command did.
ResetEnds ==
    /\ reset.at = "reread"
    /\ reset' = NoReset
    /\ row' = IF ~Current(reset.row) THEN row
              ELSE IF sid = reset.old THEN FailedOnce(reset.row)
              ELSE Settled(reset.row, sid)
    /\ IF worker.at = "resetting" THEN Ends ELSE UNCHANGED <<worker, blocked>>
    /\ UNCHANGED <<hostVars, turnVars, boundVars>>

\* The deadline of a run: the watchdog releases the conversation, and the
\* time-out of start cancels the run, but not the reset.
Deadline ==
    /\ blocked
    /\ faults < MaxFaults /\ faults' = faults + 1
    /\ blocked' = FALSE
    /\ UNCHANGED <<row, hostVars, turnVars, worker, reset, plans>>

TimesOut ==
    /\ ~blocked /\ worker.at # "off"
    /\ RunFails(row)
    /\ UNCHANGED <<hostVars, turnVars, reset, boundVars>>

\* The link is lost and READY again: tasks are cancelled, a reset wherever it
\* is, what was kept in memory is gone, and pending work is resumed.
Reopen ==
    /\ faults < MaxFaults /\ faults' = faults + 1
    /\ reset' = NoReset /\ cand' = NoCand /\ hook' = 0
    /\ turn' = [m \in Msgs |-> [turn[m] EXCEPT !.tracked = FALSE,
                      !.at = IF @ = "second" THEN "arrived" ELSE @]]
    /\ IF row.pend # NoPend /\ row.retry = 0 /\ n > 0
       THEN worker' = Started(FALSE) /\ blocked' = TRUE
       ELSE worker' = Off /\ blocked' = FALSE
    /\ UNCHANGED <<row, hostVars, n, plans>>

Next ==
    \/ Arrive
    \/ \E m \in Msgs : Before(m) \/ Hand(m) \/ Request(m) \/ Observe(m) \/ TurnEnds(m)
                       \/ TurnFails(m) \/ HostNew(m)
    \/ ObserveReset \/ HostRotates
    \/ WorkerLocks \/ WorkerIdle \/ Fold \/ FoldFails \/ Folded \/ StartReset
    \/ ResetCommits \/ ResetFails \/ ResetEnds
    \/ Deadline \/ TimesOut \/ Reopen

Spec == Init /\ [][Next]_vars

-----------------------------------------------------------------------------
(* Properties. *)

Row == [gen : Nat, through : 0..MaxMsgs, sum : Seq(Chat), bound : 0..MaxMsgs,
        host : 0..sid, injFor : 0..sid, injNext : BOOLEAN, fails : Nat, retry : 0..8,
        pend : [why : {"none", "budget", "external", "renewed"}, cut : 0..MaxMsgs,
                stage : {"none", "summary", "reset"}, host : 0..sid, id : Nat]]

TypeOK ==
    /\ row \in Row /\ sid = Len(ctx)
    /\ {ctx, left} \subseteq [1..sid -> SUBSET Chat] /\ n \in 0..MaxMsgs
    /\ \A m \in Msgs : /\ turn[m].at \in {"none", "arrived", "second", "handed", "running",
                                          "observed", "done"}
                       /\ turn[m].row \in Row /\ turn[m].cover \cup turn[m].left \subseteq Chat
                       /\ turn[m].sid \in 0..sid
    /\ cand.mid \in News \cup {0} /\ cand.old \in 0..sid /\ hook \in 0..sid
    /\ blocked \in BOOLEAN /\ worker.row \in Row /\ worker.todo \subseteq Chat
    /\ worker.at \in {"off", "lock", "idle", "llm", "idle2", "resetting"}
    /\ reset.at \in {"off", "command", "reread"} /\ reset.row \in Row
    /\ plans \in 0..MaxPlans /\ faults \in 0..MaxFaults

Exact ==
    /\ \A i, j \in DOMAIN row.sum : i < j => row.sum[i] < row.sum[j]
    /\ row.sum # <<>> => Last(row.sum) = row.through
    /\ \A m \in Chat : m <= row.through /\ m > row.bound => m \in ToSet(row.sum)

(* The published summary only grows, and holds every message once and in    *)
(* ledger order, the last one where the row says, none left out but those   *)
(* before a boundary of the user: no attempt that was overtaken puts an     *)
(* older summary back, and no two fold the same interval.                   *)
SummaryKeptStep ==
    IsPrefix(row.sum, row'.sum) /\ Exact'

\* No step of the code does otherwise.
SummaryKept == [][SummaryKeptStep]_row

(* A session the row takes for informed has been shown every message before *)
(* the present ones, in its turns, in the summary or in the window shown    *)
(* with it, but for those that the budget left out of its last window.      *)
InformedSession ==
    row.injFor = sid /\ ~row.injNext /\ row.host = sid =>
        \A m \in Chat :
            turn[m].at = "done" /\ m > row.bound => m \in ctx[sid] \cup left[sid]

(* "checked when it eventually finishes, and never started twice"           *)
(* (docs/history-budget.md): pending work renews the session once.          *)
RenewsOnce ==
    \A i, j \in DOMAIN renewals : renewals[i].id = renewals[j].id => i = j

(* A session is renewed only when all that the plan set out to fold is in   *)
(* the summary then stored.                                                 *)
RenewedAfterFold ==
    \A i \in DOMAIN renewals : \A m \in Chat :
        m <= renewals[i].cut => m \in ToSet(renewals[i].sum) \/ m <= row.bound
=============================================================================
