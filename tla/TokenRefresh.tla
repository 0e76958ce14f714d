---------------------------- MODULE TokenRefresh ----------------------------
(***************************************************************************)
(* The credentials of a gateway: the pair stored in SQLite's activations   *)
(* row, its copy in the connection's memory, and the refresh that rotates  *)
(* it (token_refresh.py, the credential half of connection.py, and the     *)
(* writes of activate.py and storage.py).                                  *)
(*                                                                         *)
(* A refresh is single-flight: every task that asks while one runs waits   *)
(* for its outcome.  The server rotates the pair before the gateway can    *)
(* store the new one; meanwhile the owner may activate again or delete the *)
(* row, the database may be unreadable, the asking task may be cancelled   *)
(* and the process may die.                                                *)
(*                                                                         *)
(* Sessions whose credentials come from SQLite are modelled, those of a    *)
(* bootstrap from .env are not; neither are the superseded installation    *)
(* and the instance locks, which only add refusals (see InstanceLock).     *)
(* What the event loop does between two awaits is one step; the HTTP       *)
(* request runs in a worker thread.                                        *)
(***************************************************************************)
EXTENDS Integers

CONSTANTS
  Callers,      \* tasks that ask for a refresh: watcher, REST calls, handshake
  Acts,         \* bound: activations, numbered from 1
  MaxRotations, \* bound: rotations of one activation
  ReadLimit,    \* CREDENTIAL_READ_FAILURE_LIMIT
  MaxMishaps,   \* bound: database faults, deletions of the row, crashes
  NoPair, NoCaller

Pairs == [act : 1..Acts, n : 0..MaxRotations]
MaybePair == Pairs \cup {NoPair}

ASSUME RefreshAssumption ==
  /\ Acts \in Nat \ {0} /\ MaxRotations \in Nat /\ ReadLimit \in Nat \ {0} /\ MaxMishaps \in Nat
  /\ NoPair \notin Pairs /\ NoCaller \notin Callers

VARIABLES
  row,      \* the pair in the activations row; NoPair: no row, or blank tokens
  dbMark,   \* revoked_refresh_tokens: the pair whose refresh token was refused
  gw,       \* the connection's memory
  flight,   \* the refresh in progress
  caller,   \* the tasks
  acts,     \* activations so far
  tip,      \* the server's current rotation of an activation
  dead,     \* the activations the server is known to have revoked
  mishaps,
  written,  \* history: the pairs that were ever in the row
  refused,  \* history: the pairs the server refused for good
  known,    \* history: the refused pairs this process has taken note of
  strays    \* history: the pairs that tasks tied to a refresh of another pair

vars == <<row, dbMark, gw, flight, caller, acts, tip, dead, mishaps, written, refused, known,
          strays>>
server == <<acts, tip, dead, refused>>

NoFlight == [pc |-> "none", pair |-> NoPair, bound |-> NoPair, answer |-> "none", new |-> NoPair,
             owner |-> NoCaller]
Idle == [pc |-> "idle", pair |-> NoPair, new |-> NoPair]

\* A fresh connection waits for an activation.
Fresh == [cfg |-> NoPair,         \* _cfg.token, _cfg.refresh_token; NoPair: AUTH_FAILED
          memMark |-> NoPair,     \* _rejected_refresh_fingerprint
          rejected |-> NoPair,    \* _rejected_activation_token
          pend |-> NoPair,        \* _pending_permanent_credentials
          latch |-> NoPair,       \* RefreshManager._rejected_credentials
          last |-> NoPair,        \* RefreshManager._last_attempt_token
          finishing |-> NoPair,   \* the pair a pending logout's notification is about
          suspended |-> FALSE,    \* _activation_source_suspended
          failures |-> 0]         \* _credential_read_failures

-----------------------------------------------------------------------------
(***************************************************************************)
(* What the connection does to its memory                                  *)
(***************************************************************************)
\* _enter_auth_failed.
Forgotten ==
  [gw EXCEPT !.rejected = IF gw.cfg = NoPair THEN @ ELSE gw.cfg,
             !.cfg = NoPair, !.pend = NoPair, !.suspended = FALSE, !.failures = 0]

\* _apply_activation_credentials.
Applied(p) ==
  [gw EXCEPT !.cfg = p, !.rejected = NoPair, !.memMark = NoPair, !.pend = NoPair,
             !.latch = NoPair, !.suspended = FALSE, !.failures = 0]

\* A read of the row: it succeeded, or it raised; at the limit the session is
\* suspended, and a permanent failure that was being handled is kept for later.
ReadOk == [gw EXCEPT !.failures = 0]
AtLimit == gw.failures + 1 >= ReadLimit
ReadRaised(permanent) ==
  [gw EXCEPT !.failures = IF AtLimit THEN ReadLimit ELSE @ + 1,
             !.suspended = @ \/ AtLimit,
             !.pend = IF AtLimit /\ permanent THEN gw.cfg ELSE @]

Mishap == mishaps < MaxMishaps /\ mishaps' = mishaps + 1

\* A database write takes effect, or fails without effect.
Writes(var, new) ==
  \/ var' = new /\ UNCHANGED mishaps
  \/ UNCHANGED var /\ Mishap

\* _refresh_credentials_usable: the pair passes the durable and the in-memory
\* marker, or the durable one cannot be read.
Usable(p) ==
  /\ p # gw.memMark
  /\ \/ p # dbMark /\ UNCHANGED mishaps
     \/ Mishap

\* The loop is not inside a step that other tasks cannot interrupt.  It may run
\* others between asking and the refresh's first step, and while the owner is
\* told of a logout.
LoopFree == flight.pc # "marked"

-----------------------------------------------------------------------------
(***************************************************************************)
(* The source of the credentials: _recheck_activation_source as the        *)
(* watcher, the supervisor and _attempt_refresh call it, and the poll of   *)
(* _wait_for_activation_credentials                                        *)
(***************************************************************************)
Polling == LoopFree /\ gw.cfg # NoPair

PollRaises ==
  /\ Polling
  /\ Mishap
  /\ gw' = ReadRaised(FALSE)
  /\ UNCHANGED <<row, dbMark, flight, caller, server, written, known, strays>>

\* The row was deleted, or its tokens blanked.
PollDeleted ==
  /\ Polling /\ row = NoPair
  /\ gw' = Forgotten
  /\ UNCHANGED <<row, dbMark, flight, caller, server, mishaps, written, known, strays>>

\* Mutant: a suspended session does not look for another activation.
PollChangedNot ==
  /\ Polling /\ row \notin {NoPair, gw.cfg} /\ ~gw.suspended
  /\ gw' = Applied(row)
  /\ dbMark' = NoPair
  /\ UNCHANGED <<row, flight, caller, server, mishaps, written, known, strays>>

\* Another pair is adopted (and the markers cleared) if the guards let it pass.
PollChanged ==
  LET usable == row \notin {gw.rejected, dbMark, gw.memMark} IN
  /\ Polling /\ row \notin {NoPair, gw.cfg}
  /\ gw' = IF usable THEN Applied(row) ELSE Forgotten
  /\ dbMark' = IF usable THEN NoPair ELSE dbMark
  /\ UNCHANGED <<row, flight, caller, server, mishaps, written, known, strays>>

\* Mutant: a suspension ends on the same pair although its refusal is pending.
PollSameForgets ==
  /\ Polling /\ row = gw.cfg
  /\ gw' = IF gw.suspended THEN [ReadOk EXCEPT !.suspended = FALSE, !.latch = NoPair, !.pend = NoPair]
                           ELSE ReadOk
  /\ UNCHANGED <<row, dbMark, flight, caller, server, mishaps, written, known, strays>>

\* The row is as it was: a suspension without a pending refusal ends.
PollSame ==
  /\ Polling /\ row = gw.cfg
  /\ gw.suspended => gw.pend = NoPair
  /\ gw' = IF gw.suspended THEN [ReadOk EXCEPT !.suspended = FALSE, !.latch = NoPair]
                           ELSE ReadOk
  /\ UNCHANGED <<row, dbMark, flight, caller, server, mishaps, written, known, strays>>

\* A pair in use whose refresh token carries a marker (supervisor, refresh).
DropUnusable ==
  /\ Polling /\ ~gw.suspended
  /\ gw.cfg \in {dbMark, gw.memMark}
  /\ gw' = Forgotten
  /\ UNCHANGED <<row, dbMark, flight, caller, server, mishaps, written, known, strays>>

\* Logged out: wait for a pair that may be adopted.
Load ==
  /\ LoopFree /\ gw.cfg = NoPair /\ row # NoPair
  /\ row # gw.rejected
  /\ Usable(row)
  /\ gw' = Applied(row)
  /\ dbMark' = NoPair
  /\ UNCHANGED <<row, flight, caller, server, written, known, strays>>

\* _finish_pending_permanent: the logout a suspension had put off.  Its
\* notification is awaited.
FinishPending ==
  /\ Polling /\ gw.suspended /\ gw.finishing = NoPair
  /\ row = gw.cfg /\ gw.pend = row
  /\ \/ /\ Writes(row, NoPair)
        /\ dbMark' = gw.pend
     \/ /\ row' = NoPair
        /\ Mishap /\ UNCHANGED dbMark
  /\ gw' = [ReadOk EXCEPT !.memMark = gw.pend, !.finishing = gw.pend]
  /\ UNCHANGED <<flight, caller, server, written, known, strays>>

FinishEnds ==
  /\ LoopFree /\ gw.finishing # NoPair
  /\ gw' = IF gw.pend = gw.finishing /\ gw.cfg = gw.finishing
             THEN [Forgotten EXCEPT !.latch = gw.finishing, !.finishing = NoPair]
             ELSE [gw EXCEPT !.finishing = NoPair]
  /\ UNCHANGED <<row, dbMark, flight, caller, server, mishaps, written, known, strays>>

-----------------------------------------------------------------------------
(***************************************************************************)
(* Asking for a refresh: _attempt_refresh, RefreshManager.refresh          *)
(***************************************************************************)
\* The row is read again; a changed or deleted row is adopted or revoked as
\* above and nothing is asked.
Ask(c) ==
  /\ Polling /\ caller[c].pc = "idle"
  /\ ~gw.suspended
  /\ gw.cfg.n < MaxRotations
  /\ gw.cfg # gw.memMark
  /\ \/ /\ row = gw.cfg /\ gw.cfg # dbMark
        /\ gw' = ReadOk
        /\ UNCHANGED mishaps
     \/ /\ ~AtLimit /\ Mishap
        /\ gw' = ReadRaised(FALSE)
  /\ caller' = [caller EXCEPT ![c] = [pc |-> "asked", pair |-> gw.cfg, new |-> NoPair]]
  /\ UNCHANGED <<row, dbMark, flight, server, written, known, strays>>

\* The manager's first step, one turn of the loop later, with the pair read
\* when asking: the pair was refused, or tried within MIN_REFRESH_INTERVAL.
Skipped(c) ==
  /\ flight.pc # "marked" /\ caller[c].pc = "asked"
  /\ \/ caller[c].pair = gw.latch
     \/ flight.pc = "none" /\ caller[c].pair = gw.last
  /\ caller' = [caller EXCEPT ![c] = Idle]
  /\ UNCHANGED <<row, dbMark, gw, flight, server, mishaps, written, known, strays>>

\* Pair p hangs on the outcome of a refresh of pair q.
Tied(p, q) == strays' = strays \cup ({p} \ {q, NoPair})

\* One is in flight, of whatever pair.
Joins(c) ==
  /\ flight.pc \notin {"none", "marked"} /\ caller[c].pc = "asked"
  /\ caller[c].pair # gw.latch
  /\ caller' = [caller EXCEPT ![c].pc = "waiting"]
  /\ Tied(caller[c].pair, flight.pair)
  /\ UNCHANGED <<row, dbMark, gw, flight, server, mishaps, written, known>>

\* build_client binds the callbacks to the credentials of this moment, which may
\* no longer be the ones read when asking.
Begins(c) ==
  /\ flight.pc = "none" /\ caller[c].pc = "asked"
  /\ caller[c].pair # gw.latch
  /\ flight' = [NoFlight EXCEPT !.pc = "queued", !.pair = caller[c].pair, !.bound = gw.cfg,
                                !.owner = c]
  /\ gw' = [gw EXCEPT !.last = caller[c].pair]
  /\ caller' = [caller EXCEPT ![c].pc = "waiting"]
  /\ Tied(gw.cfg, caller[c].pair)
  /\ UNCHANGED <<row, dbMark, server, mishaps, written, known>>

-----------------------------------------------------------------------------
(***************************************************************************)
(* The request: the worker thread and the server                           *)
(***************************************************************************)
Answered(kind, p) == flight' = [flight EXCEPT !.pc = "answered", !.answer = kind, !.new = p]

\* guarded_refresh_sync looks at the credentials again before it sends.
Send ==
  /\ flight.pc = "queued"
  /\ IF gw.cfg = flight.bound THEN flight' = [flight EXCEPT !.pc = "wire"]
                              ELSE Answered("transient", NoPair)
  /\ UNCHANGED <<row, dbMark, gw, caller, server, mishaps, written, known, strays>>

NextOf(p) == [p EXCEPT !.n = @ + 1]
Current(p) == p.act \notin dead /\ tip[p.act] = p.n /\ p.n < MaxRotations
Rotated(p) == [tip EXCEPT ![p.act] = p.n + 1]

\* The server rotates the pair, and the answer arrives or is lost.
Rotates ==
  /\ flight.pc = "wire" /\ Current(flight.pair)
  /\ tip' = Rotated(flight.pair)
  /\ \/ Answered("rotated", NextOf(flight.pair))
     \/ Answered("transient", NoPair)
  /\ UNCHANGED <<row, dbMark, gw, caller, acts, dead, refused, mishaps, written, known, strays>>

\* Within the grace window the rotated pair is answered again.
Redeems ==
  /\ flight.pc = "wire" /\ flight.pair.act \notin dead
  /\ tip[flight.pair.act] = flight.pair.n + 1
  /\ Answered("rotated", NextOf(flight.pair))
  /\ UNCHANGED <<row, dbMark, gw, caller, server, mishaps, written, known, strays>>

\* 10003: the token is an old one, or the server has revoked the session.
Refuses ==
  /\ flight.pc = "wire"
  /\ \/ flight.pair.n < tip[flight.pair.act] /\ UNCHANGED dead
     \/ dead' = dead \cup {flight.pair.act}
  /\ Answered("refused", NoPair)
  /\ refused' = refused \cup {flight.pair}
  /\ UNCHANGED <<row, dbMark, gw, caller, acts, tip, mishaps, written, known, strays>>

\* Any other answer, no answer, or the attempt's deadline.
Fails ==
  /\ flight.pc = "wire"
  /\ Answered("transient", NoPair)
  /\ UNCHANGED <<row, dbMark, gw, caller, server, mishaps, written, known, strays>>

-----------------------------------------------------------------------------
(***************************************************************************)
(* The outcome: _do_refresh and the callbacks bound to the flight          *)
(***************************************************************************)
Lands(kind) == LoopFree /\ flight.pc = "answered" /\ flight.answer = kind

\* The flight is over.  The tasks that wait go on with their own check of the
\* outcome, or have nothing left to do (transient, skipped).
Ends ==
  /\ flight' = NoFlight
  /\ caller' = [c \in Callers |-> IF caller[c].pc = "waiting" THEN Idle ELSE caller[c]]
EndsAs(outcome, p) ==
  /\ flight' = NoFlight
  /\ caller' = [c \in Callers |-> IF caller[c].pc = "waiting"
                                    THEN [caller[c] EXCEPT !.pc = outcome, !.new = p] ELSE caller[c]]

\* The request's pair is still the connection's own.
Bound == gw.cfg = flight.bound /\ gw.cfg # NoPair /\ ~gw.suspended

\* auth_refresh_with_retry: the session still wants this refresh, as far as the
\* row can be read (_refresh_should_continue).
Retries ==
  /\ Lands("transient") /\ Bound
  /\ \/ row = gw.cfg /\ gw' = ReadOk /\ UNCHANGED mishaps
     \/ ~AtLimit /\ Mishap /\ gw' = ReadRaised(FALSE)
  /\ flight' = [flight EXCEPT !.pc = "queued", !.answer = "none"]
  /\ UNCHANGED <<row, dbMark, caller, server, written, known, strays>>

\* What a failed check of the row leaves in memory: gone, changed, unreadable.
Mismatch(permanent) ==
  \/ row = NoPair /\ gw' = Forgotten /\ UNCHANGED mishaps
  \/ row \notin {NoPair, gw.cfg} /\ gw' = ReadOk /\ UNCHANGED mishaps
  \/ AtLimit /\ Mishap /\ gw' = ReadRaised(permanent)

GivesUpAsking ==
  /\ Lands("transient")
  /\ \/ ~Bound /\ UNCHANGED <<gw, mishaps>>
     \/ Bound /\ Mismatch(FALSE)
  /\ Ends
  /\ UNCHANGED <<row, dbMark, server, written, known, strays>>

\* Mutant: the row is overwritten without looking at it.
StoresBlindly ==
  /\ Lands("rotated") /\ Bound
  /\ row' = flight.new /\ written' = written \cup {flight.new}
  /\ gw' = [ReadOk EXCEPT !.latch = NoPair]
  /\ EndsAs("success", flight.new)
  /\ UNCHANGED <<dbMark, server, mishaps, known, strays>>

\* _persist_rotated_tokens: SQLite first, on the condition that the row still
\* has the request's pair, then .env.
Stores ==
  /\ Lands("rotated") /\ Bound /\ row = flight.bound
  /\ row' = flight.new /\ written' = written \cup {flight.new}
  /\ gw' = [ReadOk EXCEPT !.latch = NoPair]
  /\ EndsAs("success", flight.new)
  /\ UNCHANGED <<dbMark, server, mishaps, known, strays>>

\* Mutant: a rotation that could not be stored is used nevertheless.
UsedUnstored ==
  /\ Lands("rotated")
  /\ Mishap
  /\ EndsAs("success", flight.new)
  /\ UNCHANGED <<row, dbMark, gw, server, written, known, strays>>

\* The rotation is not stored, or only in SQLite: the outcome is transient.
StoreFails ==
  /\ Lands("rotated")
  /\ \/ ~Bound /\ UNCHANGED <<row, written, gw, mishaps>>
     \/ Bound /\ Mismatch(FALSE) /\ UNCHANGED <<row, written>>
     \/ Bound /\ Mishap /\ gw' = ReadRaised(FALSE) /\ UNCHANGED <<row, written>>
     \/ /\ Bound /\ row = flight.bound /\ Mishap
        /\ gw' = ReadOk
        /\ \/ UNCHANGED <<row, written>>
           \/ row' = flight.new /\ written' = written \cup {flight.new}
  /\ Ends
  /\ UNCHANGED <<dbMark, server, known, strays>>

\* Mutant: any failure of the request is taken for a refusal.
MarksAny ==
  /\ LoopFree /\ flight.pc = "answered" /\ flight.answer # "rotated" /\ Bound
  /\ gw' = [ReadOk EXCEPT !.memMark = flight.pair]
  /\ dbMark' = flight.pair
  /\ flight' = [flight EXCEPT !.pc = "marked"]
  /\ known' = known \cup {flight.pair}
  /\ UNCHANGED <<row, caller, server, mishaps, written, strays>>

\* _persist_refresh_rejection: the marker comes before the clear.  An unreadable
\* row does not stop it below the limit.
Marks ==
  /\ Lands("refused") /\ Bound
  /\ \/ /\ row = flight.bound /\ Writes(dbMark, flight.pair)
        /\ gw' = [ReadOk EXCEPT !.memMark = flight.pair]
     \/ /\ ~AtLimit /\ Mishap /\ dbMark' \in {dbMark, flight.pair}
        /\ gw' = [ReadRaised(FALSE) EXCEPT !.memMark = flight.pair]
  /\ flight' = [flight EXCEPT !.pc = "marked"]
  /\ known' = known \cup {flight.pair}
  /\ UNCHANGED <<row, caller, server, written, strays>>

\* A refusal that is no longer about the pair in use is discarded; at the limit
\* of unreadable rows it is kept for the end of the suspension.
Discards ==
  /\ \/ Lands("refused") /\ ~Bound /\ UNCHANGED <<gw, mishaps>>
     \/ Lands("refused") /\ Bound /\ Mismatch(TRUE)
     \/ flight.pc = "marked" /\ Mismatch(TRUE)
     \/ /\ flight.pc = "marked" /\ row # flight.bound
        /\ ~AtLimit /\ Mishap /\ gw' = ReadRaised(TRUE)
  /\ known' = known \cup ({gw'.pend} \ {NoPair})
  /\ Ends
  /\ UNCHANGED <<row, dbMark, server, written, strays>>

\* _persist_auth_logout: the row is blanked if it still has the request's pair,
\* or the write fails and is only logged.
Clears ==
  /\ flight.pc = "marked"
  /\ \/ row = flight.bound /\ Writes(row, NoPair) /\ gw' = ReadOk
     \/ /\ ~AtLimit /\ Mishap /\ gw' = ReadRaised(TRUE)
        /\ UNCHANGED row \/ (row = flight.bound /\ row' = NoPair)
  /\ flight' = [flight EXCEPT !.pc = "notifying"]
  /\ UNCHANGED <<dbMark, caller, server, written, known, strays>>

\* The owner has been told; the manager latches the pair.
Notified ==
  /\ LoopFree /\ flight.pc = "notifying"
  /\ gw' = [gw EXCEPT !.latch = flight.pair]
  /\ EndsAs("permanent", NoPair)
  /\ UNCHANGED <<row, dbMark, server, mishaps, written, known, strays>>

-----------------------------------------------------------------------------
(***************************************************************************)
(* A task goes on with the outcome: the rest of _attempt_refresh           *)
(***************************************************************************)
\* The pair it asked for is still in use.
Unchanged(c) == ~gw.suspended /\ gw.cfg = caller[c].pair

\* Memory follows the store, unless another task was faster.
Swaps(c) ==
  /\ LoopFree /\ caller[c].pc = "success"
  /\ gw' = IF Unchanged(c) THEN [gw EXCEPT !.cfg = caller[c].new, !.rejected = NoPair] ELSE gw
  /\ caller' = [caller EXCEPT ![c] = Idle]
  /\ UNCHANGED <<row, dbMark, flight, server, mishaps, written, known, strays>>

\* _complete_permanent_logout.
LogsOut(c) ==
  /\ LoopFree /\ caller[c].pc = "permanent"
  /\ gw' = IF Unchanged(c) THEN Forgotten ELSE gw
  /\ caller' = [caller EXCEPT ![c] = Idle]
  /\ UNCHANGED <<row, dbMark, flight, server, mishaps, written, known, strays>>

\* The request is abandoned; its thread may still get the pair rotated.
Abandons ==
  \/ UNCHANGED tip
  \/ flight.pc \in {"queued", "wire"} /\ Current(flight.pair) /\ tip' = Rotated(flight.pair)

\* Mutant: the tasks that joined are not told of the cancellation.
CancelsOwnerOnly(c) ==
  /\ LoopFree /\ caller[c].pc = "waiting" /\ flight.owner = c
  /\ Abandons
  /\ flight' = NoFlight
  /\ caller' = [caller EXCEPT ![c] = Idle]
  /\ UNCHANGED <<row, dbMark, gw, acts, dead, refused, mishaps, written, known, strays>>

\* The task that runs the flight is cancelled (teardown of its connection, a
\* handshake or tool timeout): the flight and every task that joined it are.
CancelsOwner(c) ==
  /\ LoopFree /\ caller[c].pc = "waiting" /\ flight.owner = c
  /\ Abandons
  /\ Ends
  /\ UNCHANGED <<row, dbMark, gw, acts, dead, refused, mishaps, written, known, strays>>

\* A task that joined is cancelled: the flight goes on.
CancelsJoined(c) ==
  /\ LoopFree /\ caller[c].pc = "waiting" /\ flight.owner # c
  /\ caller' = [caller EXCEPT ![c] = Idle]
  /\ UNCHANGED <<row, dbMark, gw, flight, server, mishaps, written, known, strays>>

-----------------------------------------------------------------------------
(***************************************************************************)
(* The owner, the server and the machine                                   *)
(***************************************************************************)
\* upsert_activation, by any process.
Activate ==
  /\ acts < Acts
  /\ acts' = acts + 1
  /\ row' = [act |-> acts', n |-> 0] /\ written' = written \cup {row'}
  /\ UNCHANGED <<dbMark, gw, flight, caller, tip, dead, refused, mishaps, known, strays>>

Delete ==
  /\ row # NoPair /\ Mishap
  /\ row' = NoPair
  /\ UNCHANGED <<dbMark, gw, flight, caller, server, written, known, strays>>

\* The process dies; the next one loads the row (_load_startup_activation_credentials).
Crash ==
  /\ Mishap
  /\ Abandons
  /\ gw' = Fresh /\ flight' = NoFlight /\ caller' = [c \in Callers |-> Idle] /\ known' = {}
  /\ UNCHANGED <<row, dbMark, acts, dead, refused, written, strays>>

Init ==
  /\ row = NoPair /\ dbMark = NoPair
  /\ gw = Fresh /\ flight = NoFlight /\ caller = [c \in Callers |-> Idle]
  /\ acts = 0 /\ tip = [a \in 1..Acts |-> 0] /\ dead = {} /\ mishaps = 0
  /\ written = {} /\ refused = {} /\ known = {} /\ strays = {}

Poll == PollDeleted \/ PollChanged \/ PollSame \/ DropUnusable \/ Load \/ FinishPending \/ FinishEnds
Starts(c) == Skipped(c) \/ Joins(c) \/ Begins(c)
Answers == Rotates \/ Redeems \/ Refuses \/ Fails
Settles == Retries \/ GivesUpAsking \/ Stores \/ StoreFails \/ Marks \/ Discards \/ Clears \/ Notified
Applies(c) == Swaps(c) \/ LogsOut(c)

Next ==
  \/ Poll \/ PollRaises
  \/ Send \/ Answers \/ Settles
  \/ \E c \in Callers : Ask(c) \/ Starts(c) \/ Applies(c) \/ CancelsOwner(c) \/ CancelsJoined(c)
  \/ Activate \/ Delete \/ Crash

Spec == Init /\ [][Next]_vars

\* The server answers a request, and not with a failure that will pass.
AnswersForGood == flight.pc = "wire" /\ Answers /\ flight'.answer # "transient"

\* The loop runs its ready tasks in turn, the worker thread goes on, an attempt
\* ends by its deadline, and a server that is asked again and again answers for
\* good at last (strong fairness).  Nobody has to ask, activate or cancel.
Fairness ==
  /\ WF_vars(Poll) /\ WF_vars(Send) /\ WF_vars(Answers) /\ WF_vars(Settles)
  /\ \A c \in Callers : WF_vars(Starts(c)) /\ WF_vars(Applies(c))
  /\ SF_vars(AnswersForGood)

FairSpec == Spec /\ Fairness

\* What an instance may be limited to: two activations, or one and mishaps.
OneKind == acts <= 1 \/ mishaps = 0

-----------------------------------------------------------------------------
(***************************************************************************)
(* Properties                                                              *)
(***************************************************************************)
\* Every variable has its type; tasks wait only for a flight that exists; a
\* refusal is pending only for the pair in use, during a suspension.
TypeOK ==
  /\ row \in MaybePair /\ dbMark \in MaybePair
  /\ gw \in [cfg : MaybePair, memMark : MaybePair, rejected : MaybePair, pend : MaybePair,
             latch : MaybePair, last : MaybePair, finishing : MaybePair,
             suspended : BOOLEAN, failures : 0..ReadLimit]
  /\ flight \in [pc : {"none", "queued", "wire", "answered", "marked", "notifying"},
                 pair : MaybePair, bound : MaybePair,
                 answer : {"none", "rotated", "refused", "transient"}, new : MaybePair,
                 owner : Callers \cup {NoCaller}]
  /\ caller \in [Callers -> [pc : {"idle", "asked", "waiting", "success", "permanent"},
                             pair : MaybePair, new : MaybePair]]
  /\ acts \in 0..Acts /\ tip \in [1..Acts -> 0..MaxRotations] /\ dead \subseteq 1..Acts
  /\ mishaps \in 0..MaxMishaps
  /\ {written, refused, known, strays} \subseteq SUBSET Pairs
  /\ \A c \in Callers : caller[c].pc = "waiting" => flight.pc # "none"
  /\ gw.pend # NoPair => gw.suspended /\ gw.pend = gw.cfg

\* The gateway takes another pair into use only after the store has had it: a
\* rotation is never used before it is durable.
MemoryIsStored == gw.cfg \in written \cup {NoPair}

\* The gateway changes the row only when it still has the pair that was in use
\* when the request began, or the one whose refusal is pending: an activation that
\* arrives meanwhile is never overwritten or blanked by the outcome of an older
\* request.
Outside == UNCHANGED <<gw, flight, caller>>

OnlyOwnPairReplaced ==
  [][row' # row => \/ Outside
                   \/ flight.pc # "none" /\ row = flight.bound
                   \/ row = gw.pend]_vars

\* The gateway blanks the row, or forgets the pair it has in common with the
\* row, only when the server has refused that pair for good, or when a task had
\* tied it to the refresh of another pair: no transient failure, unreadable
\* database or late outcome logs the owner out.
Over(p) == p \in refused \cup strays

LogoutIsEarned ==
  [][/\ row # NoPair /\ row' = NoPair => Outside \/ Over(row)
     /\ gw.cfg = row /\ row # NoPair /\ gw'.cfg = NoPair => gw' = Fresh \/ Over(row)]_vars

\* docs/token-refresh.md:583, "A permanent result may clear only the pair that
\* started its request": what LogoutIsEarned says of memory, without the exception.
OnlyRefusedLogOut ==
  [][gw.cfg = row /\ row # NoPair /\ gw'.cfg = NoPair => gw' = Fresh \/ row \in refused]_vars

\* docs/token-refresh.md:546, the row is updated "only if its access and refresh
\* token still match the request's original pair": a rotation replaces the pair
\* it was asked for with.  The code violates it: an activation adopted between
\* asking and the refresh's first step is what its callbacks are bound to.
OnlyRequestedRotates ==
  [][flight.new # NoPair /\ row # flight.new /\ row' = flight.new => row = flight.pair]_vars

\* No task asks to refresh a pair whose refusal the process has taken note of,
\* whatever suspensions, discarded outcomes and cancellations come after, unless
\* it had been tied to the refresh of another pair.
RefusedNotResent ==
  [][\A c \in Callers :
       caller[c].pc = "idle" /\ caller'[c].pc = "asked"
         => caller'[c].pair \notin known \ strays]_vars

\* Memory and store agree: the row's pair is in use, or the connection is logged
\* out and the row has no pair, or one that was refused or tied to another.  They
\* come to agree again, and a task that asked for a refresh gets an answer,
\* however often other tasks ask and are cancelled.
Agree == \/ gw.cfg = row
         \/ gw.cfg = NoPair /\ Over(row)
Returned(c) == caller[c].pc = "idle"

=============================================================================
