--------------------------- MODULE AccessRequests ---------------------------
(***************************************************************************)
(* A guest's request for access to a capability: the card to the owner,    *)
(* the owner's decision, and how the guest's conversation is told of it.   *)
(* The tool call, the owner's confirmation, the tasks that wake the        *)
(* guest's conversation, the turns that carry a notice instead, and the    *)
(* restarts of the plugin all meet in two tables (tool_grant_requests and  *)
(* tool_grants), each of whose operations is one SQLite transaction.       *)
(*                                                                         *)
(* A row of tool_grant_requests is one element of Rows.  Its code is valid *)
(* exactly while the row is undecided (one transaction consumes the code   *)
(* and decides), so the code has no variable.  Times are the thresholds    *)
(* the code compares with: a row is "cooled" six hours after it was made   *)
(* and "aged" after twenty-four, which is at once the card's expiry and    *)
(* the quota's window; a wake is "overdue" and a notice's lease "lapsed"   *)
(* after ten minutes.                                                      *)
(***************************************************************************)
EXTENDS Naturals, FiniteSets

CONSTANTS
    Rows,        \* the requests that may be recorded
    People,      \* guests, each asking from one conversation
    Caps,        \* capabilities
    Turns,       \* a guest's turns being prepared at the same time
    AskAvailable,  \* the host can ask the owner at each call
    DailyLimit,  \* cards in twenty-four hours (REQUEST_DAILY_LIMIT)
    MaxStops,    \* disconnects and crashes
    MaxFaults,   \* refusals, errors, cancelled calls and starts without READY
    Nobody,      \* the requester or capability of a row not in use
    NoTurn,      \* the notice of a row is not claimed
    Lost         \* the notice is claimed by a turn of a dead process

ASSUME RequestAssumption ==
    /\ AskAvailable \in BOOLEAN
    /\ Nobody \notin People \cup Caps
    /\ NoTurn # Lost /\ {NoTurn, Lost} \cap Turns = {}
    /\ {DailyLimit, MaxStops, MaxFaults} \subseteq Nat

VARIABLES
    requester,   \* whose request a row is
    capability,  \* what it asks for
    status,      \* tool_grant_requests.status, "none" for a row not in use
    wake,        \* wake_state
    claim,       \* notice_claim_key: the turn that carries the notice
    notified,    \* wake_notified_at is set
    cooled, aged, overdue, lapsed,  \* rows past the times named above
    grant,       \* the guests' rule for each capability ("none" without one)
    call,        \* the tool call of a row: "idle", "sending" or "handed"
    card,        \* rows whose card was handed to the socket
    receipts,    \* groups of decided rows whose receipt the owner is being sent
    spawned,     \* tasks of each row that have not tried to claim its wake
    task,        \* the stage of the task that claimed the row's wake
    turn,        \* the stage of each turn
    carried,     \* the notices in a turn's prompt
    proc,        \* the process: "dead", "off" (not connected) or "on"
    recovering,  \* connect()'s recovery of wakes has yet to run
    stops, faults,  \* how often each happened
    told,        \* history: deliveries of the decision the host took (2: more)
    doubted      \* history: the record of a delivery was lost or outrun

rowVars == <<requester, capability, status, wake, claim, notified>>
timeVars == <<cooled, aged, overdue, lapsed>>
callVars == <<call, card>>
taskVars == <<receipts, spawned, task, recovering>>
turnVars == <<turn, carried>>
procVars == <<proc, stops>>
toldVars == <<told, doubted>>
vars == <<rowVars, timeVars, grant, callVars, taskVars, turnVars, procVars,
          faults, toldVars>>

-----------------------------------------------------------------------------
(* The tables. *)

Open == {"sending", "pending"}
Decided == {"allowed", "asked", "denied"}
Modes == {"direct", "ask", "deny"}
\* The modes the owner can choose: "ask" is refused where it cannot be kept.
Offered == {"direct", "deny"} \cup IF AskAvailable THEN {"ask"} ELSE {}
Verdict == [m \in Modes |-> CASE m = "direct" -> "allowed"
                              [] m = "ask"    -> "asked"
                              [] m = "deny"   -> "denied"]

\* _expire_requests: undecided rows past their expiry.
Expired == [r \in Rows |-> IF status[r] \in Open /\ r \in aged
                           THEN "expired" ELSE status[r]]

Live(r) == status[r] \in Open /\ r \notin aged

\* The wake of r may still be claimed.
Wakeable(r) == wake[r] = "pending" /\ status[r] \in Decided /\ r \notin aged

\* Mutant: a wake is never taken for dead.
FreshWakeNever == wake

\* The state _recover_stale gives wakes and claims.
Stale == {r \in Rows : wake[r] = "dispatching" /\ r \in overdue}
Released == {r \in Rows : claim[r] # NoTurn /\ r \in lapsed \cup aged}
FreshWake == [r \in Rows |-> IF r \in Stale THEN "failed" ELSE wake[r]]
FreshClaim == [r \in Rows |-> IF r \in Released THEN NoTurn ELSE claim[r]]

\* What recovery doubts: a wake in the host's hands, a lease its turn outran.
Outrun == {r \in Stale \ aged : task[r] \in {"host", "accepted"}}
          \cup {r \in Released \ aged : claim[r] \in Turns}

RecoverStale ==
    /\ status' = Expired
    /\ lapsed' = lapsed \ Released
    /\ doubted' = doubted \cup Outrun

\* An attempt's age counts while it is dispatching.
SetWake(w) ==
    /\ wake' = w
    /\ overdue' = {r \in overdue : w[r] = "dispatching"}

\* Mutant: the error of a wake is dropped.
CompleteAnyway(r, outcome) ==
    SetWake([wake EXCEPT ![r] = IF @ = "dispatching" THEN "delivered" ELSE @])

\* _complete_wake: only a dispatching wake is recorded.
Complete(r, outcome) ==
    SetWake([wake EXCEPT ![r] = IF @ = "dispatching" THEN outcome ELSE @])

Tell(S) == told' = [r \in Rows |-> IF r \in S /\ told[r] < 2
                                   THEN told[r] + 1 ELSE told[r]]

Fault == faults < MaxFaults /\ faults' = faults + 1

-----------------------------------------------------------------------------
(* The tool call: reserve a row, send the card, record the sending. *)

\* reserve_request finds that no new card may be sent.
HasAccess(p, c) == grant[p][c] # "none"
Waiting(p, c) ==
    \E r \in Rows :
        /\ requester[r] = p /\ capability[r] = c
        /\ \/ Live(r)
           \/ Expired[r] \notin {"none", "failed"} /\ r \notin cooled
QuotaSpent == Cardinality({r \in Rows : status[r] # "none" /\ r \notin aged})
                  >= DailyLimit

MayAsk(p, c) == ~HasAccess(p, c) /\ ~Waiting(p, c) /\ ~QuotaSpent

Refuse(p, c) ==
    /\ proc = "on" /\ ~MayAsk(p, c)
    /\ status' = Expired
    /\ UNCHANGED <<requester, capability, wake, claim, notified, timeVars,
                   grant, callVars, taskVars, turnVars, procVars, faults,
                   toldVars>>

Unused == {r \in Rows : status[r] = "none"}
Fresh == CHOOSE r \in Rows : r \in Unused

Reserve(p, c) == LET r == Fresh IN
    /\ proc = "on" /\ MayAsk(p, c)
    /\ Unused # {}
    /\ status' = [Expired EXCEPT ![r] = "sending"]
    /\ requester' = [requester EXCEPT ![r] = p]
    /\ capability' = [capability EXCEPT ![r] = c]
    /\ call' = [call EXCEPT ![r] = "sending"]
    /\ UNCHANGED <<wake, claim, notified, timeVars, grant, card, taskVars,
                   turnVars, procVars, faults, toldVars>>

\* _send_owner_text hands the card to the socket; its answer is yet to come.
SendCard(r) ==
    /\ call[r] = "sending"
    /\ call' = [call EXCEPT ![r] = "handed"]
    /\ card' = card \cup {r}
    /\ UNCHANGED <<rowVars, timeVars, grant, taskVars, turnVars, procVars,
                   faults, toldVars>>

\* Mutant: a late record of the sending undoes a decision.
CallEndsAnyway(r, outcome) ==
    /\ call' = [call EXCEPT ![r] = "idle"]
    /\ status' = [status EXCEPT ![r] = outcome]
    /\ UNCHANGED <<requester, capability, wake, claim, notified, timeVars,
                   grant, card, taskVars, turnVars, procVars, toldVars>>

\* mark_sent, mark_failed: neither touches a row that is no longer sending.
CallEnds(r, outcome) ==
    /\ call' = [call EXCEPT ![r] = "idle"]
    /\ status' = [status EXCEPT ![r] = IF @ = "sending" THEN outcome ELSE @]
    /\ UNCHANGED <<requester, capability, wake, claim, notified, timeVars,
                   grant, card, taskVars, turnVars, procVars, toldVars>>

MarkSent(r) == call[r] = "handed" /\ CallEnds(r, "pending") /\ UNCHANGED faults

MarkFailed(r) == call[r] # "idle" /\ CallEnds(r, "failed") /\ Fault

\* The turn is interrupted: the row stays as it is.
CallCancelled(r) ==
    /\ call[r] # "idle" /\ Fault
    /\ call' = [call EXCEPT ![r] = "idle"]
    /\ UNCHANGED <<rowVars, timeVars, grant, card, taskVars, turnVars,
                   procVars, toldVars>>

-----------------------------------------------------------------------------
(* The owner. *)

\* Rules are written and the rows decided in one transaction; the receipt is
\* then sent, and the rows' wakes start when it is.
Settle(S, who, what, m) ==
    /\ grant' = [p \in People |-> [c \in Caps |->
                    IF p \in who /\ c \in what THEN m ELSE grant[p][c]]]
    /\ wake' = [r \in Rows |-> IF r \in S THEN "pending" ELSE wake[r]]
    /\ receipts' = IF S = {} THEN receipts ELSE receipts \cup {S}
    /\ UNCHANGED <<requester, capability, claim, notified, timeVars, callVars,
                   spawned, task, recovering, turnVars, procVars, faults,
                   toldVars>>

\* confirm_request: the owner chooses on the card.
Decide(r, m) ==
    /\ proc = "on" /\ r \in card /\ Live(r)
    /\ status' = [Expired EXCEPT ![r] = Verdict[m]]
    /\ Settle({r}, {requester[r]}, {capability[r]}, m)

\* ... too late: the code is used, failed or expired.
DecideInVain(r) ==
    /\ proc = "on" /\ r \in card /\ ~Live(r)
    /\ status' = Expired
    /\ UNCHANGED <<requester, capability, wake, claim, notified, timeVars,
                   grant, callVars, taskVars, turnVars, procVars, faults,
                   toldVars>>

\* Mutant: a card still being sent is not decided with the others.
CoveredPending(who, what) ==
    {r \in Rows : /\ status[r] = "pending" /\ r \notin aged
                  /\ requester[r] \in who /\ capability[r] \in what}

\* confirm_pending_grant_decision: a grant of the owner's own accord decides
\* the requests it covers.
Covered(who, what) ==
    {r \in Rows : Live(r) /\ requester[r] \in who /\ capability[r] \in what}

Grant(who, what, m) ==
    /\ proc = "on"
    /\ LET S == Covered(who, what) IN
       /\ status' = [r \in Rows |-> IF r \in S THEN Verdict[m] ELSE status[r]]
       /\ Settle(S, who, what, m)

\* apply_grant: a refusal needs no card and decides nothing.
Forbid(p, c) ==
    /\ proc = "on" /\ grant[p][c] # "deny"
    /\ grant' = [grant EXCEPT ![p][c] = "deny"]
    /\ UNCHANGED <<rowVars, timeVars, callVars, taskVars, turnVars, procVars,
                   faults, toldVars>>

\* revoke_grants, or the rule's own expiry.
Revoke(p, c) ==
    /\ proc = "on" /\ grant[p][c] # "none"
    /\ grant' = [grant EXCEPT ![p][c] = "none"]
    /\ UNCHANGED <<rowVars, timeVars, callVars, taskVars, turnVars, procVars,
                   faults, toldVars>>

\* The receipt was sent or failed: the wakes' tasks are created either way.
ReceiptEnds(S) ==
    /\ S \in receipts
    /\ receipts' = receipts \ {S}
    /\ spawned' = [r \in Rows |-> spawned[r] + IF r \in S THEN 1 ELSE 0]
    /\ UNCHANGED <<rowVars, timeVars, grant, callVars, task, recovering,
                   turnVars, procVars, faults, toldVars>>

-----------------------------------------------------------------------------
(* Waking the guest's conversation: _dispatch_request_wake. *)

ClaimWake(r) ==
    /\ spawned[r] > 0
    /\ spawned' = [spawned EXCEPT ![r] = @ - 1]
    /\ IF Wakeable(r)
       THEN /\ wake' = [wake EXCEPT ![r] = "dispatching"]
            /\ task' = [task EXCEPT ![r] = "resolving"]
       ELSE UNCHANGED <<wake, task>>
    /\ UNCHANGED <<requester, capability, status, claim, notified, timeVars,
                   grant, callVars, receipts, recovering, turnVars, procVars,
                   faults, toldVars>>

\* The claim itself raises: it is made outside the handler's try.
ClaimRaises(r) ==
    /\ spawned[r] > 0 /\ Fault
    /\ spawned' = [spawned EXCEPT ![r] = @ - 1]
    /\ UNCHANGED <<rowVars, timeVars, grant, callVars, receipts, task,
                   recovering, turnVars, procVars, toldVars>>

\* Mutant: only the card's expiry is looked at.
CheckedExpiry(r) == status[r] \in Decided /\ r \notin aged

\* _check_request_wake: the wake is still this task's to deliver.
Checked(r) == wake[r] = "dispatching" /\ status[r] \in Decided /\ r \notin aged

Advance(r, from, to) ==
    /\ task[r] = from
    /\ task' = [task EXCEPT ![r] = to]
    /\ UNCHANGED <<rowVars, timeVars, grant, callVars, receipts, spawned,
                   recovering, turnVars, procVars, faults, toldVars>>

WakeResolved(r) == Advance(r, "resolving", "waiting")

\* The conversation is idle.
WakeIdle(r) == Checked(r) /\ Advance(r, "waiting", "preparing")

\* The last check, and handle_message begins.
WakeOffered(r) == Checked(r) /\ Advance(r, "preparing", "host")

WakeAccepted(r) ==
    /\ task[r] = "host"
    /\ task' = [task EXCEPT ![r] = "accepted"]
    /\ Tell({r})
    /\ UNCHANGED <<rowVars, timeVars, grant, callVars, receipts, spawned,
                   recovering, turnVars, procVars, faults, doubted>>

WakeEnds(r, outcome) ==
    /\ task' = [task EXCEPT ![r] = "idle"]
    /\ Complete(r, outcome)
    /\ UNCHANGED <<requester, capability, status, claim, notified, cooled, aged,
                   lapsed,
                   grant, callVars, receipts, spawned, recovering, turnVars,
                   procVars, told>>

\* finish_wake.
WakeRecorded(r) ==
    /\ task[r] = "accepted"
    /\ WakeEnds(r, "delivered")
    /\ UNCHANGED <<faults, doubted>>

\* A check refuses: the card ran out, or the claim was taken for dead.
WakeRefused(r) ==
    /\ task[r] \in {"waiting", "preparing"} /\ ~Checked(r)
    /\ WakeEnds(r, "failed")
    /\ UNCHANGED <<faults, doubted>>

\* The conversation is gone, the preparation fails, the host says no.
WakeFails(r) ==
    /\ task[r] \in {"resolving", "waiting", "preparing", "host"} /\ Fault
    /\ WakeEnds(r, "failed")
    /\ UNCHANGED doubted

\* handle_message raises although the host took the event.
WakeRaises(r) ==
    /\ task[r] = "accepted" /\ Fault
    /\ WakeEnds(r, "failed")
    /\ doubted' = doubted \cup {r}

-----------------------------------------------------------------------------
(* A real turn of a guest carries the notices of failed wakes. *)

Unnotified(p) ==
    {r \in Rows : /\ requester[r] = p /\ status[r] \in Decided
                  /\ r \notin aged \cup notified
                  /\ FreshWake[r] = "failed" /\ FreshClaim[r] = NoTurn}

\* take_pending_notice.
TakeNotice(t, p) ==
    /\ proc = "on" /\ turn[t] = "idle"
    /\ RecoverStale
    /\ SetWake(FreshWake)
    /\ LET S == Unnotified(p) IN
       /\ claim' = [r \in Rows |-> IF r \in S THEN t ELSE FreshClaim[r]]
       /\ carried' = [carried EXCEPT ![t] = S]
       /\ turn' = [turn EXCEPT ![t] = IF S = {} THEN "idle" ELSE "host"]
    /\ UNCHANGED <<requester, capability, notified, cooled, aged,
                   grant, callVars, taskVars, procVars, faults, told>>

TurnAccepted(t) ==
    /\ turn[t] = "host"
    /\ turn' = [turn EXCEPT ![t] = "accepted"]
    /\ Tell(carried[t])
    /\ UNCHANGED <<rowVars, timeVars, grant, callVars, taskVars, carried,
                   procVars, faults, doubted>>

\* finish_pending_notice: the rows whose claim is still this turn's.
Claimed(t) == {r \in Rows : claim[r] = t /\ r \notin notified}

TurnEnds(t, consumed) ==
    /\ claim' = [r \in Rows |-> IF r \in Claimed(t) THEN NoTurn ELSE claim[r]]
    /\ lapsed' = lapsed \ Claimed(t)
    /\ notified' = notified \cup IF consumed THEN Claimed(t) \ aged ELSE {}
    /\ turn' = [turn EXCEPT ![t] = "idle"]
    /\ carried' = [carried EXCEPT ![t] = {}]
    /\ UNCHANGED <<requester, capability, status, wake, cooled, aged, overdue,
                   grant, callVars, taskVars, procVars, told>>

TurnRecorded(t) ==
    /\ turn[t] = "accepted"
    /\ TurnEnds(t, TRUE)
    /\ UNCHANGED <<faults, doubted>>

\* The host says no, or the turn's preparation fails.
TurnRefused(t) ==
    /\ turn[t] = "host" /\ Fault
    /\ TurnEnds(t, FALSE)
    /\ UNCHANGED doubted

\* handle_message raises although the host took the event.
TurnRaises(t) ==
    /\ turn[t] = "accepted" /\ Fault
    /\ TurnEnds(t, FALSE)
    /\ doubted' = doubted \cup carried[t]

-----------------------------------------------------------------------------
(* The process, and time. *)

\* connect(): only one that reached READY schedules the recovery of wakes, and
\* a recovery that raises is not tried again.
Start(ready) ==
    /\ proc # "on" /\ proc' = "on"
    /\ recovering' = ready
    /\ \/ ready /\ UNCHANGED faults
       \/ ~ready /\ Fault
    /\ UNCHANGED <<rowVars, timeVars, grant, callVars, receipts, spawned, task,
                   turnVars, stops, toldVars>>

\* _recover_request_wakes: one new task for each wake still to be claimed.
Recover ==
    /\ recovering /\ recovering' = FALSE
    /\ RecoverStale
    /\ SetWake(FreshWake)
    /\ claim' = FreshClaim
    /\ spawned' = [r \in Rows |-> spawned[r] + IF Wakeable(r) THEN 1 ELSE 0]
    /\ UNCHANGED <<requester, capability, notified, cooled, aged,
                   grant, callVars, receipts, task, turnVars, procVars, faults,
                   told>>

\* disconnect() cancels the wakes' tasks: one that has a claim fails it, one
\* that has not begun never runs.
Disconnect ==
    /\ proc = "on" /\ proc' = "off"
    /\ stops < MaxStops /\ stops' = stops + 1
    /\ recovering' = FALSE
    /\ spawned' = [r \in Rows |-> 0]
    /\ task' = [r \in Rows |-> "idle"]
    /\ SetWake([r \in Rows |->
                    IF task[r] # "idle" /\ wake[r] = "dispatching"
                    THEN "failed" ELSE wake[r]])
    /\ doubted' = doubted \cup {r \in Rows : task[r] = "accepted"}
    /\ UNCHANGED <<requester, capability, status, claim, notified, cooled, aged,
                   lapsed,
                   grant, callVars, receipts, turnVars, faults, told>>

Crash ==
    /\ proc # "dead" /\ proc' = "dead"
    /\ stops < MaxStops /\ stops' = stops + 1
    /\ recovering' = FALSE
    /\ receipts' = {}
    /\ call' = [r \in Rows |-> "idle"]
    /\ spawned' = [r \in Rows |-> 0]
    /\ task' = [r \in Rows |-> "idle"]
    /\ turn' = [t \in Turns |-> "idle"]
    /\ carried' = [t \in Turns |-> {}]
    /\ claim' = [r \in Rows |-> IF claim[r] \in Turns THEN Lost ELSE claim[r]]
    /\ doubted' = doubted \cup {r \in Rows : task[r] = "accepted"}
                  \cup UNION {carried[t] : t \in {u \in Turns :
                                                    turn[u] = "accepted"}}
    /\ UNCHANGED <<requester, capability, status, wake, notified, timeVars,
                   grant, card, faults, told>>

Elapse ==
    /\ UNCHANGED <<rowVars, grant, callVars, taskVars, turnVars, procVars,
                   faults, toldVars>>

\* Cooling is read of decided rows only, and ageing includes it.
Cool(r) ==
    /\ status[r] \in Decided /\ cooled' = cooled \cup {r}
    /\ UNCHANGED <<aged, overdue, lapsed>> /\ Elapse

Age(r) ==
    /\ status[r] # "none" /\ aged' = aged \cup {r}
    /\ cooled' = cooled \cup {r}
    /\ UNCHANGED <<overdue, lapsed>> /\ Elapse

Overdue(r) ==
    /\ wake[r] = "dispatching" /\ overdue' = overdue \cup {r}
    /\ UNCHANGED <<cooled, aged, lapsed>> /\ Elapse

Lapse(r) ==
    /\ claim[r] # NoTurn /\ lapsed' = lapsed \cup {r}
    /\ UNCHANGED <<cooled, aged, overdue>> /\ Elapse

-----------------------------------------------------------------------------
Init ==
    /\ requester = [r \in Rows |-> Nobody]
    /\ capability = [r \in Rows |-> Nobody]
    /\ status = [r \in Rows |-> "none"]
    /\ wake = [r \in Rows |-> "none"]
    /\ claim = [r \in Rows |-> NoTurn]
    /\ notified = {} /\ cooled = {} /\ aged = {} /\ overdue = {} /\ lapsed = {}
    /\ grant = [p \in People |-> [c \in Caps |-> "none"]]
    /\ call = [r \in Rows |-> "idle"] /\ card = {}
    /\ receipts = {} /\ recovering = FALSE
    /\ spawned = [r \in Rows |-> 0]
    /\ task = [r \in Rows |-> "idle"]
    /\ turn = [t \in Turns |-> "idle"]
    /\ carried = [t \in Turns |-> {}]
    /\ proc = "off" /\ stops = 0 /\ faults = 0
    /\ told = [r \in Rows |-> 0] /\ doubted = {}

Asking == \E p \in People, c \in Caps : Refuse(p, c) \/ Reserve(p, c)
Calling(r) == SendCard(r) \/ MarkSent(r) \/ MarkFailed(r) \/ CallCancelled(r)
Owning ==
    \/ \E r \in Rows, m \in Offered : Decide(r, m)
    \/ \E r \in Rows : DecideInVain(r)
    \/ \E who \in SUBSET People, what \in SUBSET Caps, m \in Offered \ {"deny"} :
          who # {} /\ what # {} /\ Grant(who, what, m)
    \/ \E p \in People, c \in Caps : Forbid(p, c) \/ Revoke(p, c)
    \/ \E S \in receipts : ReceiptEnds(S)
Waking(r) ==
    \/ ClaimWake(r) \/ ClaimRaises(r)
    \/ WakeResolved(r) \/ WakeIdle(r) \/ WakeOffered(r)
    \/ WakeAccepted(r) \/ WakeRecorded(r)
    \/ WakeRefused(r) \/ WakeFails(r) \/ WakeRaises(r)
Noticing(t) ==
    \/ \E p \in People : TakeNotice(t, p)
    \/ TurnAccepted(t) \/ TurnRecorded(t) \/ TurnRefused(t) \/ TurnRaises(t)
Running ==
    \/ \E ready \in BOOLEAN : Start(ready)
    \/ Recover \/ Disconnect \/ Crash
Passing(r) == Cool(r) \/ Age(r) \/ Overdue(r) \/ Lapse(r)

Next ==
    \/ Asking \/ Owning \/ Running
    \/ \E r \in Rows : Calling(r) \/ Waking(r) \/ Passing(r)
    \/ \E t \in Turns : Noticing(t)

Spec == Init /\ [][Next]_vars

\* What a task, a turn, a guest or the process does next.
SomeReceiptEnds == \E S \in receipts : ReceiptEnds(S)
WakeGoesOn(r) ==
    \/ WakeResolved(r) \/ WakeIdle(r) \/ WakeOffered(r)
    \/ WakeAccepted(r) \/ WakeRecorded(r) \/ WakeRefused(r)
TurnGoesOn(t) == TurnAccepted(t) \/ TurnRecorded(t)
Writes(p) == \E t \in Turns : TakeNotice(t, p)
Starts == \E ready \in BOOLEAN : Start(ready)

\* Tasks run, the host answers, a conversation becomes idle, a guest writes
\* again, ten minutes pass, and a process that stopped is started again.
Fairness ==
    /\ WF_vars(SomeReceiptEnds)
    /\ \A r \in Rows :
          /\ WF_vars(ClaimWake(r))
          /\ WF_vars(WakeGoesOn(r))
          /\ WF_vars(Overdue(r)) /\ WF_vars(Lapse(r))
    /\ \A t \in Turns : WF_vars(TurnGoesOn(t))
    /\ \A p \in People : WF_vars(Writes(p))
    /\ WF_vars(Recover) /\ WF_vars(Starts)

FairSpec == Spec /\ Fairness

-----------------------------------------------------------------------------
(* Properties. *)

\* Types; a row in use names its guest and capability, a tool call is the call
\* of a row, and a row has a wake exactly when it is decided.
TypeOK ==
    /\ requester \in [Rows -> People \cup {Nobody}]
    /\ capability \in [Rows -> Caps \cup {Nobody}]
    /\ status \in [Rows -> {"none", "failed", "expired"} \cup Open \cup Decided]
    /\ wake \in [Rows -> {"none", "pending", "dispatching", "delivered",
                          "failed"}]
    /\ claim \in [Rows -> Turns \cup {NoTurn, Lost}]
    /\ notified \subseteq Rows /\ card \subseteq Rows /\ doubted \subseteq Rows
    /\ cooled \subseteq Rows /\ aged \subseteq Rows
    /\ overdue \subseteq Rows /\ lapsed \subseteq Rows
    /\ grant \in [People -> [Caps -> Modes \cup {"none"}]]
    /\ call \in [Rows -> {"idle", "sending", "handed"}]
    /\ receipts \subseteq SUBSET Rows
    /\ spawned \in [Rows -> Nat]
    /\ task \in [Rows -> {"idle", "resolving", "waiting", "preparing", "host",
                          "accepted"}]
    /\ turn \in [Turns -> {"idle", "host", "accepted"}]
    /\ carried \in [Turns -> SUBSET Rows]
    /\ proc \in {"dead", "off", "on"} /\ recovering \in BOOLEAN
    /\ stops \in 0..MaxStops /\ faults \in 0..MaxFaults
    /\ told \in [Rows -> 0..2]
    /\ \A r \in Rows :
          /\ status[r] # "none" => requester[r] \in People /\ capability[r] \in Caps
          /\ status[r] = "none" => call[r] = "idle"
          /\ wake[r] = "none" <=> status[r] \notin Decided

\* A card the owner may still answer is the only one of its guest and
\* capability, and its guest has no access to the capability yet: every way
\* of granting access decides the requests it covers.
LiveCardsAreOpen ==
    \A r \in Rows : Live(r) =>
        /\ grant[requester[r]][capability[r]] \notin {"direct", "ask"}
        /\ \A q \in Rows \ {r} : Live(q) =>
              <<requester[q], capability[q]>> # <<requester[r], capability[r]>>

\* The host takes a decision once, whichever of the woken conversation, a
\* retried wake and the notices of later turns carries it, unless the record
\* of a delivery was lost or a ten-minute lease ran out under its holder.
ToldOnce == \A r \in Rows : r \in doubted \/ told[r] <= 1

\* What the table says was delivered or noticed, the host took.
RecordsAreTrue ==
    \A r \in Rows : wake[r] = "delivered" \/ r \in notified => told[r] > 0

\* A live card is the only one and still needed, a decision is told once, and
\* what is recorded as told was taken by the host (tool_requests.py, storage.py).
CardsRight == LiveCardsAreOpen /\ ToldOnce /\ RecordsAreTrue

\* A wake that no task, receipt or recovery will claim.
LeftPending(r) ==
    /\ proc = "on" /\ ~recovering
    /\ wake[r] = "pending" /\ spawned[r] = 0
    /\ \A S \in receipts : r \notin S

\* Each decision reaches the guest's conversation, by a wake or by a notice,
\* unless the card expires first or nothing was left to claim the wake.
GuestKnows ==
    \A r \in Rows : status[r] \in Decided => told[r] > 0 \/ r \in aged \/ LeftPending(r)
DecisionTold == []<>GuestKnows
=============================================================================
