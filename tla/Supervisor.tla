----------------------------- MODULE Supervisor -----------------------------
(***************************************************************************)
(* The task that keeps one connection of the gateway up: it waits for the   *)
(* instance locks, for an activation and for a readable credential store,   *)
(* refreshes a pair that is about to expire, connects, and settles what the *)
(* end of a connection means for the next: the wait, the retries and the    *)
(* streak of takeovers.                                                     *)
(*                                                                          *)
(* A pair of tokens is a number; a later activation or rotation has a       *)
(* greater one.  The server has given up the pairs in dead.  Pairs of Legacy*)
(* came without a refresh token.  Waits are counted in units of the initial *)
(* delay, one attempt of each kind standing for all their jitters.          *)
(***************************************************************************)
EXTENDS Integers, Sequences

CONSTANTS
  Legacy,        \* pairs without a refresh token
  MaxPairs,      \* bound: pairs ever minted
  MaxReads,      \* bound: failed reads of the store
  MaxEnds,       \* bound: connections that end
  ReadLimit,     \* CREDENTIAL_READ_FAILURE_LIMIT
  MaxDelay,      \* reconnect_max_delay_ms
  MaxRetries,    \* reconnect_max_retries
  FloorUnit, FloorMax,  \* TAKEOVER_BACKOFF_FLOOR_SECONDS, _MAX_SECONDS
  FromEnv        \* the pair of the environment at the start, or none

VARIABLES
  pc,         \* where the supervisor is
  lock,       \* who holds the lock of this identity
  waited,     \* _instance_lock_waited
  row,        \* the pair of the activation row, or none
  minted, dead,   \* the server: the newest pair, the pairs it has given up
  mem,        \* the pair of _cfg, or none
  db,         \* _using_activation_db_credentials
  rejected,   \* the pairs known to be rejected
  failures,   \* _credential_read_failures
  suspended,  \* _activation_source_suspended
  authFailed, \* _auth_failed
  started,    \* startup_refresh_done
  stopping,   \* _stopping
  stable,     \* _stable_ready_reset_done
  swapping,   \* _refresh_pending_reconnect
  streak, retries, delay, wait,  \* the backoff, and the last wait chosen
  ends,       \* history: how each connection ended, and whether it had been READY
  reads,      \* failed reads so far
  rotated     \* history: the pairs replaced during the standby

creds == <<mem, db, rejected, failures, suspended, authFailed>>
backoff == <<streak, retries, delay, wait>>
world == <<lock, row, minted, dead>>
vars == <<pc, waited, started, stopping, stable, swapping, world, creds,
          backoff, ends, reads, rotated>>

None == 0
Pairs == 1..MaxPairs

\* What the constants are.  The pair of the environment is the first one minted.
SupervisorConstants ==
  /\ {MaxPairs, MaxDelay, FloorUnit} \subseteq Nat \ {0}
  /\ {MaxReads, MaxEnds, ReadLimit, MaxRetries, FloorMax} \subseteq Nat
  /\ FloorUnit <= FloorMax
  /\ FromEnv \in {None, 1}

Least(a, b) == IF a < b THEN a ELSE b
Most(a, b) == IF a < b THEN b ELSE a

\* takeover_backoff_floor
Floor(n) == IF n <= 0 THEN 0 ELSE Least(FloorUnit * 2^(n - 1), FloorMax)

\* refusal_retry_after_seconds: what the server names, or one floor.
Refusals == {1, FloorUnit}

-----------------------------------------------------------------------------
Init ==
  /\ pc = "top" /\ lock \in {"us", "other"} /\ waited = FALSE
  /\ row \in {None, 1} /\ minted = 1 /\ dead = {}
  /\ mem = FromEnv /\ db = FALSE /\ rejected = {} /\ failures = 0
  /\ suspended = FALSE /\ authFailed = FALSE
  /\ started = FALSE /\ stopping = FALSE /\ stable = FALSE /\ swapping = FALSE
  /\ streak = 0 /\ retries = 0 /\ delay = 1 /\ wait = 0
  /\ ends = <<>> /\ reads = 0 /\ rotated = {}

-----------------------------------------------------------------------------
(* The credentials of this process *)

Apply(pair) ==
  /\ mem' = pair /\ db' = TRUE
  /\ rejected' = {}
  /\ failures' = 0 /\ suspended' = FALSE /\ authFailed' = FALSE

EnterAuthFailed ==
  /\ mem' = None /\ db' = FALSE
  /\ rejected' = rejected \cup ({mem} \ {None})
  /\ failures' = 0 /\ suspended' = FALSE /\ authFailed' = TRUE
  /\ swapping' = FALSE

Usable(pair) == pair \notin rejected

\* _recheck_activation_source and its result; boot: the row is read although the
\* pair came from the environment (include_bootstrap).
Unread(boot) ==
  /\ db \/ boot
  /\ reads < MaxReads /\ reads' = reads + 1
  /\ failures' = IF db THEN Least(failures + 1, ReadLimit) ELSE failures
  /\ suspended' = (suspended \/ (db /\ failures + 1 >= ReadLimit))
  /\ swapping' = (swapping /\ ~suspended')
  /\ UNCHANGED <<mem, db, rejected, authFailed>>

\* Mutant of Unchanged: the same pair read again does not end the suspension.
UnchangedStaysSuspended(boot) ==
  /\ row = mem \/ (~db /\ (~boot \/ row = None))
  /\ failures' = IF db \/ boot THEN 0 ELSE failures
  /\ UNCHANGED <<mem, db, rejected, suspended, authFailed, swapping, reads>>

Unchanged(boot) ==
  /\ row = mem \/ (~db /\ (~boot \/ row = None))
  /\ failures' = IF db \/ boot THEN 0 ELSE failures
  /\ suspended' = FALSE
  /\ UNCHANGED <<mem, db, rejected, authFailed, swapping, reads>>

Changed(boot) ==
  /\ db \/ boot
  /\ row # None /\ row # mem
  /\ \/ Usable(row) /\ Apply(row) /\ UNCHANGED swapping
     \/ ~Usable(row) /\ EnterAuthFailed
  /\ UNCHANGED reads

Revoked == db /\ row = None /\ EnterAuthFailed /\ UNCHANGED reads

Recheck(boot) == Unread(boot) \/ Unchanged(boot) \/ Changed(boot) \/ Revoked

\* Mutant of Ready: a pair is enough.
ReadyByPair == mem' # None

Ready == mem' # None /\ ~authFailed' /\ ~suspended'

\* A refresh that runs to its end: a new pair for both, the pair is dead and
\* the account is logged out, or nothing changes.
Refreshed ==
  /\ mem \notin dead /\ minted < MaxPairs
  /\ minted' = minted + 1 /\ mem' = minted + 1 /\ row' = minted + 1
  /\ dead' = dead \cup {mem}
  /\ db' = TRUE /\ UNCHANGED <<rejected, failures, suspended, authFailed, lock>>

RefreshDenied ==
  /\ mem \in dead
  /\ EnterAuthFailed /\ row' = None /\ UNCHANGED <<lock, minted, dead>>

CanRefresh == mem \notin Legacy

-----------------------------------------------------------------------------
(* The loop before a connection *)

Standby ==
  /\ pc \in {"creds", "go"} /\ mem # None /\ lock = "other"
  /\ waited' = TRUE
  /\ UNCHANGED <<pc, started, stopping, stable, swapping, world, creds,
                 backoff, ends, reads, rotated>>

\* The top of the loop: the store's pair comes first at the start, a rejected
\* pair is dropped.
CanLoad == ~started /\ ~db /\ row # None /\ Usable(row)

LoadStartup ==
  /\ pc = "top" /\ ~suspended /\ CanLoad
  /\ Apply(row)
  /\ UNCHANGED <<pc, waited, started, stopping, stable, swapping, world,
                 backoff, ends, reads, rotated>>

Top ==
  /\ pc = "top"
  /\ \/ /\ suspended
        /\ pc' = "source" /\ UNCHANGED <<creds, swapping>>
     \/ /\ ~suspended /\ ~CanLoad
        /\ \/ Usable(mem) /\ UNCHANGED <<creds, swapping>>
           \/ ~Usable(mem) /\ EnterAuthFailed
        /\ pc' = IF mem' = None THEN "creds" ELSE IF started THEN "recheck" ELSE "go"
  /\ UNCHANGED <<waited, started, stopping, stable, world, backoff, ends, reads, rotated>>

\* _wait_for_activation_source polls until the store can be read.
Source ==
  /\ pc = "source"
  /\ Recheck(FALSE)
  /\ pc' = IF suspended' THEN "source" ELSE "top"
  /\ UNCHANGED <<waited, started, stopping, stable, world, backoff, ends, rotated>>

\* _wait_for_activation_credentials: a row that is not the rejected one is
\* applied; after a wait for the locks it is read again.
Adopt ==
  /\ pc = "creds" /\ mem = None /\ row # None /\ Usable(row)
  /\ Apply(row)
  /\ UNCHANGED <<pc, waited, started, stopping, stable, swapping, world,
                 backoff, ends, reads, rotated>>

\* Mutant of RecheckAfterStandby: the pair read before the wait is used.
RecheckSkipped(boot) ==
  /\ waited /\ waited' = FALSE
  /\ UNCHANGED <<pc, started, stopping, stable, swapping, world, creds, backoff,
                 ends, reads, rotated>>

RecheckAfterStandby(boot) ==
  /\ waited /\ waited' = FALSE
  /\ Recheck(boot)
  /\ pc' = IF suspended' \/ (boot /\ mem' # mem) THEN "top" ELSE pc
  /\ UNCHANGED <<started, stopping, stable, world, backoff, ends, rotated>>

\* The pair is refreshed when it is about to expire; the connection is made with
\* whatever pair there is then.
FirstUse ==
  /\ ~waited /\ mem # None /\ lock = "us"
  /\ started' = TRUE
  /\ \/ UNCHANGED <<world, creds>> /\ swapping' = FALSE /\ pc' = "recheck"
     \/ CanRefresh /\ Refreshed /\ swapping' = FALSE /\ pc' = "recheck"
     \/ CanRefresh /\ RefreshDenied /\ pc' = IF pc = "go" THEN "top" ELSE "creds"
  /\ UNCHANGED <<waited, stopping, stable, backoff, ends, reads, rotated>>

Adopted == pc = "creds" /\ lock = "us" /\ mem # None
             /\ (RecheckAfterStandby(FALSE) \/ FirstUse)

Go == pc = "go" /\ lock = "us" /\ (RecheckAfterStandby(TRUE) \/ FirstUse)

\* The source is read once more right before the connection.
Gate ==
  /\ pc = "recheck"
  /\ Recheck(FALSE)
  /\ pc' = IF Ready THEN "handshake" ELSE "top"
  /\ UNCHANGED <<waited, started, stopping, stable, world, backoff, ends, rotated>>

-----------------------------------------------------------------------------
(* A connection *)

End(kind, ready) ==
  /\ Len(ends) < MaxEnds
  /\ ends' = Append(ends, [kind |-> kind, ready |-> ready,
                           planned |-> swapping' \/ authFailed' \/ suspended' \/ mem' # mem])
  /\ pc' = "ended"

HelloOk ==
  /\ pc = "handshake" /\ mem \notin dead
  /\ pc' = "ready" /\ stable' = FALSE
  /\ UNCHANGED <<waited, started, stopping, swapping, world, creds, backoff,
                 ends, reads, rotated>>

\* The server is unavailable, refuses for a reason of its own (a handler that
\* answers False), or never answers (an exception); a duplicate is throttled.
HelloFails ==
  /\ pc = "handshake"
  /\ UNCHANGED <<waited, started, stopping, stable, swapping, world, creds,
                 backoff, reads, rotated>>
  /\ \E kind \in {"plain", "error", "throttled", "superseded"} : End(kind, FALSE)

\* The token is rejected, dead or expired: the pair is refreshed; a pair without a
\* refresh token is given up, and the supervisor with it when the pair is the
\* environment's.
HelloRejected ==
  /\ pc = "handshake"
  /\ \/ /\ CanRefresh
        /\ \/ Refreshed /\ swapping' = TRUE
           \/ RefreshDenied
           \/ UNCHANGED <<creds, world, swapping>>
        /\ UNCHANGED stopping
     \/ /\ ~CanRefresh
        /\ rejected' = IF db THEN rejected \cup {mem} ELSE rejected
        /\ mem' = IF db THEN None ELSE mem
        /\ db' = FALSE /\ authFailed' = ~db
        /\ stopping' = ~db
        /\ UNCHANGED <<failures, suspended, swapping, world>>
  /\ End("plain", FALSE)
  /\ UNCHANGED <<waited, started, stable, backoff, reads, rotated>>

\* Five seconds of READY.
StableReady ==
  /\ pc = "ready" /\ ~stable /\ stable' = TRUE
  /\ UNCHANGED <<pc, waited, started, stopping, swapping, world, creds,
                 backoff, ends, reads, rotated>>

Lost ==
  /\ pc = "ready"
  /\ UNCHANGED <<waited, started, stopping, stable, swapping, world, creds,
                 backoff, reads, rotated>>
  /\ \E kind \in {"plain", "error", "replaced", "superseded"} : End(kind, TRUE)

\* The watcher: a changed, deleted or unreadable row ends the connection.
Watch ==
  /\ pc = "ready" /\ db
  /\ Recheck(FALSE)
  /\ IF mem' = mem /\ Ready
       THEN UNCHANGED <<pc, ends>>
       ELSE End("plain", TRUE)
  /\ UNCHANGED <<waited, started, stopping, stable, world, backoff, rotated>>

Proactive ==
  /\ pc = "ready" /\ CanRefresh
  /\ \/ Refreshed /\ swapping' = TRUE
     \/ RefreshDenied
  /\ End("plain", TRUE)
  /\ UNCHANGED <<waited, started, stopping, stable, backoff, reads, rotated>>

-----------------------------------------------------------------------------
(* What the end means *)

Ended == ends[Len(ends)]

\* The streak of takeovers, whatever else ended the connection in between.
\* Mutant of Streak: five seconds of READY end the streak.
StreakUntilStable == IF Ended.kind = "replaced" /\ ~stable THEN streak + 1 ELSE 0

Streak == IF Ended.kind = "replaced" THEN streak + 1 ELSE 0

\* The exponential delay starts again after five seconds of READY, and after a
\* close that swaps the token; not when the connection ended in an exception.
FreshStart == Ended.kind = "plain" /\ (stable \/ swapping)

RefusalFloor == IF Ended.kind = "throttled" THEN Refusals ELSE {0}

\* After a takeover by another installation the loop goes back to the wait for
\* the reclaim, with no delay of its own.
SettleSuperseded ==
  /\ pc = "ended" /\ Ended.kind = "superseded"
  /\ streak' = 0 /\ swapping' = FALSE /\ pc' = "top"
  /\ UNCHANGED <<waited, started, stopping, stable, world, creds, retries,
                 delay, wait, ends, reads, rotated>>

\* Without credentials, or with a store that cannot be read, the loop waits for
\* those instead.
SettleElsewhere ==
  /\ pc = "ended" /\ Ended.kind # "superseded"
  /\ stopping \/ authFailed \/ suspended
  /\ streak' = Streak
  /\ retries' = IF FreshStart THEN 0 ELSE retries
  /\ delay' = IF FreshStart THEN 1 ELSE delay
  /\ swapping' = (swapping /\ Ended.kind = "error")
  /\ pc' = IF stopping THEN "closed" ELSE "top"
  /\ UNCHANGED <<waited, started, stopping, stable, world, creds, wait, ends, reads, rotated>>

Settle ==
  LET tries == IF FreshStart THEN 1 ELSE retries + 1
      base == IF FreshStart THEN 1 ELSE delay
  IN
  /\ pc = "ended" /\ Ended.kind # "superseded"
  /\ ~stopping /\ ~authFailed /\ ~suspended
  /\ streak' = Streak
  /\ retries' = tries
  /\ swapping' = (swapping /\ Ended.kind = "error")
  /\ IF tries > MaxRetries
       THEN pc' = "closed" /\ UNCHANGED <<delay, wait>>
       ELSE /\ pc' = "top"
            /\ \E refusal \in RefusalFloor :
                 wait' = Most(base, Most(Floor(Streak), refusal))
            /\ delay' = Least(2 * base, MaxDelay)
  /\ UNCHANGED <<waited, started, stopping, stable, world, creds, ends, reads, rotated>>

-----------------------------------------------------------------------------
(* Others: the gateway that holds the lock of the identity ends; an           *)
(* activation writes a new row, a logout deletes it; the server gives a pair  *)
(* up.                                                                        *)

HolderLeaves ==
  /\ lock = "other" /\ lock' = "us"
  /\ UNCHANGED <<pc, waited, started, stopping, stable, swapping, row, minted,
                 dead, creds, backoff, ends, reads, rotated>>

Activation ==
  /\ minted < MaxPairs
  /\ minted' = minted + 1 /\ row' = minted + 1 /\ dead' = dead \cup ({row} \ {None})
  /\ rotated' = IF waited THEN rotated \cup ({row} \ {None}) ELSE rotated
  /\ UNCHANGED <<pc, lock, waited, started, stopping, stable, swapping, creds,
                 backoff, ends, reads>>

Revocation ==
  /\ mem \notin dead \cup {None}
  /\ dead' = dead \cup {mem}
  /\ row' \in {row, None}
  /\ UNCHANGED <<pc, lock, waited, started, stopping, stable, swapping, minted,
                 creds, backoff, ends, reads, rotated>>

Supervise ==
  \/ Standby \/ LoadStartup \/ Top \/ Source \/ Adopt \/ Adopted \/ Go \/ Gate
  \/ SettleSuperseded \/ SettleElsewhere \/ Settle

Connected == HelloOk \/ HelloFails \/ HelloRejected \/ StableReady \/ Lost
               \/ Watch \/ Proactive

Others == HolderLeaves \/ Activation \/ Revocation

Next == Supervise \/ Connected \/ Others

Spec == Init /\ [][Next]_vars

\* A poll of the watcher that sees a change.
WatchNotices == Watch /\ (mem' # mem \/ suspended' # suspended)

\* The supervisor's loop and its polls go on; the server answers each hello
\* (the handshake has a deadline); the watcher polls; the holder leaves.
Fairness == /\ WF_vars(Supervise)
            /\ WF_vars(HelloOk \/ HelloRejected)
            /\ SF_vars(WatchNotices)
            /\ WF_vars(HolderLeaves)

FairSpec == Spec /\ Fairness

-----------------------------------------------------------------------------
Endings == [kind : {"plain", "error", "throttled", "replaced", "superseded"},
            ready : BOOLEAN, planned : BOOLEAN]

\* The variables keep their types.
TypeOK ==
  /\ pc \in {"top", "source", "creds", "go", "recheck", "handshake", "ready",
             "ended", "closed"}
  /\ lock \in {"us", "other"} /\ waited \in BOOLEAN
  /\ row \in Pairs \cup {None} /\ minted \in Pairs /\ dead \subseteq Pairs
  /\ mem \in Pairs \cup {None} /\ db \in BOOLEAN /\ rejected \subseteq Pairs
  /\ failures \in 0..ReadLimit /\ suspended \in BOOLEAN /\ authFailed \in BOOLEAN
  /\ started \in BOOLEAN /\ stopping \in BOOLEAN /\ stable \in BOOLEAN
  /\ swapping \in BOOLEAN
  /\ streak \in 0..MaxEnds /\ retries \in 0..(MaxRetries + 1)
  /\ delay \in 1..MaxDelay /\ wait \in 0..Most(MaxDelay, FloorMax)
  /\ ends \in Seq(Endings) /\ Len(ends) <= MaxEnds /\ reads \in 0..MaxReads /\ rotated \subseteq Pairs

\* The number of connections at the end of the history that a newer session took
\* over, and the number that failed to become READY.
TrailingRun(T(_)) ==
  LET runs == {n \in 0..Len(ends) : \A i \in (Len(ends) - n + 1)..Len(ends) : T(ends[i])}
  IN CHOOSE n \in runs : \A m \in runs : m <= n

Evicted(e) == e.kind = "replaced"
Failed(e) == ~e.ready /\ ~e.planned /\ e.kind # "superseded"

Sleeps == pc = "ended" /\ pc' = "top" /\ wait' # wait

\* The loop goes on after a connection that ended, with nothing else to wait for.
Retries == /\ pc = "ended" /\ pc' = "top" /\ Ended.kind # "superseded"
           /\ ~stopping /\ ~authFailed /\ ~suspended

\* Two gateways that evict each other drift apart: before every next try the loop
\* waits the floor of all the takeovers in a row, and neither they nor other ends
\* of a connection make it wait longer than the delay or that floor.
EvictionsBackOffStep ==
  Retries =>
    LET n == TrailingRun(Evicted) IN
    /\ wait' >= Floor(n)
    /\ Ended.kind # "throttled" => wait' <= Most(MaxDelay, Floor(n))

\* No step of the code does otherwise.
EvictionsBackOff == [][EvictionsBackOffStep]_vars

\* Whatever changed while the supervisor stood by, waited for an activation or
\* for the store, a connection is opened with a pair that is not known to be
\* rejected, by a process whose source is readable.
OnlyUsablePairsConnect ==
  pc = "handshake" =>
    mem # None /\ Usable(mem) /\ ~suspended /\ ~authFailed /\ lock = "us"

\* A connection is only opened with a pair that may be usable (connection.py, the
\* supervisor's loop).
SupervisorSafe == TypeOK /\ OnlyUsablePairsConnect

\* A pair that was replaced while this process stood by behind the holder of its
\* identity is never presented for the first refresh: it would be rejected, and
\* the account logged out.
NoStaleFirstRefreshStep ==
  (pc \in {"creds", "go"}) /\ mem # None /\ authFailed' /\ ~authFailed /\ reads = 0
    => mem \notin rotated

\* No step of the code does otherwise.
NoStaleFirstRefresh == [][NoStaleFirstRefreshStep]_vars

\* The supervisor recovers from everything but the loss of the credentials: it
\* is READY again and again, unless no usable pair is left to it, it used up its
\* retries or gave up the environment's pair.
Recovered == \/ pc = "ready" \/ pc = "closed"
             \/ pc = "creds" /\ (row = None \/ ~Usable(row))
             \/ mem \in dead /\ Len(ends) = MaxEnds
Recovers == []<>Recovered

\* docs/client-integration.md: all nonterminal reconnects need backoff.  Each
\* connection in a row that does not become READY doubles the next wait.
FailuresBackOff ==
  [][Sleeps /\ TrailingRun(Failed) > 0
       => wait' >= Least(2^(TrailingRun(Failed) - 1), MaxDelay)]_vars

=============================================================================
