-------------------------- MODULE ConnectionProofs --------------------------
(***************************************************************************)
(* Proofs about a connection, for any number of pairs, failed reads,       *)
(* connections and retries: the task that keeps it up only opens it with a *)
(* pair that may be usable, does not refresh a pair rotated during a       *)
(* standby, and waits for evictions in a row.  And about an installation   *)
(* that another one has taken over, for any number of connections,         *)
(* processes, conflicts, reclaims, faults and restarts: a completed        *)
(* reclaim is not taken back by an older conflict, the owner is told once  *)
(* of each takeover, and no connection of a process that has seen the      *)
(* conflict begins a refresh.                                              *)
(***************************************************************************)
EXTENDS Supervisor, TLAPS

USE DEF None, Pairs

-----------------------------------------------------------------------------
(* The inductive invariant. *)

\* The row has the newest pair or none; what is known to be rejected, and what
\* was rotated, was minted before.
PairsInv ==
  /\ row \in {None, minted} /\ mem <= minted
  /\ rejected \subseteq 1..minted
  /\ rotated \subseteq dead /\ \A p \in rotated : p < minted

\* The pair in memory is not known to be rejected, and with one in memory
\* neither is the newest.
RejectedInv == Usable(mem) /\ (mem # None => minted \notin rejected)

\* The successor of a rotated pair that is still in memory is in the row.
RotatedInv == mem \in rotated => row = minted

\* Unless reads failed, the recheck after the standby is still to come then.
AwaitedInv == mem \in rotated /\ reads = 0 => waited

\* Where the loop is says what it holds: the locks from the first use on, a pair
\* of the store after the wait for one, a readable source while connected.
PlaceInv ==
  /\ started \/ pc \in {"recheck", "handshake", "ready"} => lock = "us"
  /\ pc = "creds" /\ mem # None => db
  /\ pc = "go" => mem # None
  /\ pc \in {"handshake", "ready"} => mem # None /\ ~suspended /\ ~authFailed
  /\ retries > MaxRetries => pc = "closed"

\* n is how many of the first m connections were taken over in a row at the end.
RunsTo(n, m) ==
  /\ n \in 0..m
  /\ \A i \in (m - n + 1)..m : Evicted(ends[i])
  /\ n < m => ~Evicted(ends[m - n])

\* The streak counts the takeovers of the connections that are settled.
StreakInv ==
  /\ pc = "ended" => ends # <<>>
  /\ RunsTo(streak, IF pc = "ended" THEN Len(ends) - 1 ELSE Len(ends))

CredsInv == PairsInv /\ RejectedInv /\ RotatedInv

IInv == TypeOK /\ CredsInv /\ AwaitedInv /\ PlaceInv /\ StreakInv
-----------------------------------------------------------------------------
(* The types, in parts: the credentials, the loop and the backoff. *)

CredsTypes ==
  /\ row \in Pairs \cup {None} /\ minted \in Pairs /\ dead \subseteq Pairs
  /\ mem \in Pairs \cup {None} /\ db \in BOOLEAN /\ rejected \subseteq Pairs
  /\ failures \in 0..ReadLimit /\ suspended \in BOOLEAN /\ authFailed \in BOOLEAN
  /\ reads \in 0..MaxReads /\ rotated \subseteq Pairs

LoopTypes ==
  /\ pc \in {"top", "source", "creds", "go", "recheck", "handshake", "ready",
             "ended", "closed"}
  /\ lock \in {"us", "other"} /\ waited \in BOOLEAN
  /\ started \in BOOLEAN /\ stopping \in BOOLEAN /\ stable \in BOOLEAN
  /\ swapping \in BOOLEAN

BackoffTypes ==
  /\ streak \in 0..MaxEnds /\ retries \in 0..(MaxRetries + 1)
  /\ delay \in 1..MaxDelay /\ wait \in 0..Most(MaxDelay, FloorMax)
  /\ ends \in Seq(Endings) /\ Len(ends) <= MaxEnds

LEMMA TypeParts == TypeOK <=> CredsTypes /\ LoopTypes /\ BackoffTypes
BY DEF TypeOK, CredsTypes, LoopTypes, BackoffTypes

LEMMA Assembled ==
  ASSUME CredsTypes', LoopTypes', BackoffTypes', CredsInv', AwaitedInv', PlaceInv', StreakInv'
  PROVE  IInv'
BY DEF TypeOK, CredsTypes, LoopTypes, BackoffTypes, IInv

LEMMA Limits ==
  ASSUME SupervisorConstants
  PROVE  /\ MaxPairs \in Nat /\ MaxPairs >= 1 /\ MaxDelay \in Nat /\ MaxDelay >= 1
         /\ FloorUnit \in Nat /\ FloorUnit >= 1 /\ FloorMax \in Nat /\ FloorUnit <= FloorMax
         /\ MaxReads \in Nat /\ MaxEnds \in Nat /\ ReadLimit \in Nat /\ MaxRetries \in Nat
         /\ FromEnv \in {None, 1}
BY DEF SupervisorConstants

-----------------------------------------------------------------------------
(* What may happen to the credentials. *)

\* The pair in memory stays, or one comes that was not rotated.
MemoryMoves == (mem' = mem /\ rotated' = rotated) \/ mem' \notin rotated'

\* The server and the store are as they were.
Calm == UNCHANGED <<row, minted, dead, rotated>>

LEMMA ApplyKeeps ==
  ASSUME SupervisorConstants, CredsTypes, CredsInv, Calm, reads' = reads,
         row # None, Usable(row), Apply(row)
  PROVE  CredsTypes' /\ CredsInv' /\ mem' = row /\ mem' \notin rotated' /\ db' = TRUE
           /\ suspended' = FALSE /\ authFailed' = FALSE
<1>1. CredsTypes'
  <2>1. /\ row' \in Pairs \cup {None} /\ minted' \in Pairs /\ dead' \subseteq Pairs
        /\ rotated' \subseteq Pairs /\ reads' \in 0..MaxReads
    BY DEF CredsTypes, Calm
  <2>2. mem' \in Pairs \cup {None} /\ rejected' \subseteq Pairs /\ failures' \in 0..ReadLimit
    BY Limits DEF CredsTypes, Apply
  <2>3. db' \in BOOLEAN /\ suspended' \in BOOLEAN /\ authFailed' \in BOOLEAN
    BY DEF Apply
  <2> QED
    BY <2>1, <2>2, <2>3 DEF CredsTypes
<1>2. row = minted /\ mem' = minted' /\ mem' \notin rotated' /\ rejected' = {}
  BY DEF CredsInv, PairsInv, Calm, Apply, CredsTypes
<1>3. CredsInv'
  BY <1>1, <1>2 DEF CredsTypes, CredsInv, PairsInv, RejectedInv, RotatedInv, Calm, Usable
<1> QED
  BY <1>1, <1>2, <1>3 DEF Apply, Calm

LEMMA AuthFailedKeeps ==
  ASSUME SupervisorConstants, CredsTypes, CredsInv, EnterAuthFailed,
         UNCHANGED <<minted, dead, rotated, reads>>, row' \in {row, None}
  PROVE  CredsTypes' /\ CredsInv' /\ mem' = None /\ mem' \notin rotated'
<1>1. CredsTypes'
  <2>1. /\ row' \in Pairs \cup {None} /\ minted' \in Pairs /\ dead' \subseteq Pairs
        /\ rotated' \subseteq Pairs /\ reads' \in 0..MaxReads
    BY DEF CredsTypes
  <2>2. mem' \in Pairs \cup {None} /\ rejected' \subseteq Pairs /\ failures' \in 0..ReadLimit
    BY Limits DEF CredsTypes, EnterAuthFailed
  <2>3. db' \in BOOLEAN /\ suspended' \in BOOLEAN /\ authFailed' \in BOOLEAN
    BY DEF EnterAuthFailed, CredsTypes
  <2> QED
    BY <2>1, <2>2, <2>3 DEF CredsTypes
<1>2. mem' = None /\ mem' \notin rotated' /\ rejected' \subseteq 1..minted'
  BY DEF CredsInv, PairsInv, EnterAuthFailed, CredsTypes
<1>3. CredsInv'
  BY <1>1, <1>2 DEF CredsTypes, CredsInv, PairsInv, RejectedInv, RotatedInv, Usable
<1> QED
  BY <1>1, <1>2, <1>3

LEMMA RefreshedKeeps ==
  ASSUME SupervisorConstants, CredsTypes, CredsInv, mem # None, Refreshed,
         UNCHANGED <<rotated, reads>>
  PROVE  CredsTypes' /\ CredsInv' /\ mem' # None /\ mem' \notin rotated'
BY Limits DEF CredsTypes, CredsInv, PairsInv, RejectedInv, RotatedInv,
       Usable, Refreshed

LEMMA RecheckKeeps ==
  ASSUME SupervisorConstants, CredsTypes, CredsInv, Calm, NEW boot \in BOOLEAN,
         Recheck(boot), swapping \in BOOLEAN
  PROVE  /\ CredsTypes' /\ CredsInv' /\ swapping' \in BOOLEAN /\ MemoryMoves
         /\ mem' # None => (mem' = mem /\ db' = db) \/ db' = TRUE
         /\ mem \in rotated /\ (boot \/ db) => reads' # 0 \/ mem' \notin rotated'
         /\ reads' = 0 => reads = 0
<1>1. CASE Unread(boot)
  <2>1. mem' = mem /\ rejected' = rejected /\ reads' # 0 /\ db' = db
    BY <1>1 DEF Unread, CredsTypes
  <2>2. CredsInv'
    BY <2>1 DEF CredsInv, PairsInv, RejectedInv, RotatedInv, Calm, Usable
  <2>3. failures' \in 0..ReadLimit /\ reads' \in 0..MaxReads
    BY Limits, <1>1 DEF Unread, CredsTypes, Least
  <2>4. suspended' \in BOOLEAN /\ swapping' \in BOOLEAN /\ authFailed' = authFailed
    BY <1>1 DEF Unread
  <2> QED
    BY <2>1, <2>2, <2>3, <2>4 DEF CredsTypes, Calm, MemoryMoves
<1>2. CASE Unchanged(boot)
  <2>1. mem' = mem /\ rejected' = rejected /\ reads' = reads /\ db' = db
    BY <1>2 DEF Unchanged
  <2>2. CredsInv'
    BY <2>1 DEF CredsInv, PairsInv, RejectedInv, RotatedInv, Calm, Usable
  <2>3. failures' \in 0..ReadLimit
    BY Limits, <1>2 DEF Unchanged, CredsTypes
  <2>4. suspended' \in BOOLEAN /\ swapping' \in BOOLEAN /\ authFailed' = authFailed
    BY <1>2 DEF Unchanged
  <2>5. mem \in rotated => row = minted /\ row # mem /\ row # None
    BY DEF CredsInv, PairsInv, RotatedInv, CredsTypes
  <2>6. mem \in rotated /\ (boot \/ db) => FALSE
    BY <1>2, <2>5 DEF Unchanged
  <2> QED
    BY <2>1, <2>2, <2>3, <2>4, <2>6 DEF CredsTypes, Calm, MemoryMoves
<1>3. CASE Changed(boot) /\ Usable(row)
  BY <1>3, ApplyKeeps DEF Changed, MemoryMoves
<1>4. CASE Changed(boot) /\ ~Usable(row)
  BY <1>4, AuthFailedKeeps DEF Changed, MemoryMoves, Calm, EnterAuthFailed
<1>5. CASE Revoked
  BY <1>5, AuthFailedKeeps DEF Revoked, MemoryMoves, Calm, EnterAuthFailed
<1> QED
  BY <1>1, <1>2, <1>3, <1>4, <1>5 DEF Recheck

CredsStay == UNCHANGED <<row, minted, dead, mem, db, rejected, failures, suspended,
                         authFailed, reads, rotated>>

LEMMA StayKeeps ==
  ASSUME CredsTypes, CredsInv, CredsStay
  PROVE  CredsTypes' /\ CredsInv' /\ MemoryMoves
BY DEF CredsTypes, CredsInv, PairsInv, RejectedInv, RotatedInv, Usable, CredsStay, MemoryMoves

LEMMA AwaitedStays ==
  ASSUME AwaitedInv, MemoryMoves, reads' = 0 => reads = 0, waited => waited'
  PROVE  AwaitedInv'
BY DEF AwaitedInv, MemoryMoves

-----------------------------------------------------------------------------
(* What the history of connections says. *)

LEMMA HistoryStays ==
  ASSUME BackoffTypes, StreakInv, UNCHANGED <<backoff, ends>>, pc' = "ended" <=> pc = "ended"
  PROVE  BackoffTypes' /\ StreakInv'
BY DEF BackoffTypes, StreakInv, RunsTo, Evicted, backoff

LEMMA HistoryGrows ==
  ASSUME SupervisorConstants, BackoffTypes, StreakInv, pc # "ended",
         NEW kind \in {"plain", "error", "throttled", "replaced", "superseded"},
         NEW ready \in BOOLEAN, End(kind, ready), UNCHANGED backoff
  PROVE  BackoffTypes' /\ StreakInv' /\ pc' = "ended"
<1> DEFINE planned == swapping' \/ authFailed' \/ suspended' \/ mem' # mem
           e == [kind |-> kind, ready |-> ready, planned |-> planned]
<1>1. e \in Endings
  <2>1. planned \in BOOLEAN
    OBVIOUS
  <2> HIDE DEF planned
  <2> QED
    BY <2>1 DEF Endings
<1>2. ends \in Seq(Endings) /\ Len(ends) < MaxEnds /\ ends' = Append(ends, e) /\ pc' = "ended"
  BY DEF End, BackoffTypes
<1> HIDE DEF e
<1>3. /\ ends' \in Seq(Endings) /\ Len(ends') = Len(ends) + 1 /\ ends' # <<>>
      /\ \A i \in 1..Len(ends) : ends'[i] = ends[i]
  BY <1>1, <1>2
<1>4. Len(ends) \in Nat /\ streak \in 0..Len(ends)
  BY <1>2 DEF StreakInv, RunsTo
<1>5. BackoffTypes'
  BY Limits, <1>2, <1>3, <1>4 DEF BackoffTypes, backoff
<1>6. RunsTo(streak, Len(ends))
  BY DEF StreakInv
<1>7. StreakInv'
  <2>1. streak' = streak /\ Len(ends') - 1 = Len(ends)
    BY <1>3, <1>4 DEF backoff
  <2>2. \A i \in (Len(ends) - streak + 1)..Len(ends) : Evicted(ends'[i])
    BY <1>3, <1>4, <1>6 DEF RunsTo, Evicted
  <2>3. streak < Len(ends) => ~Evicted(ends'[Len(ends) - streak])
    BY <1>3, <1>4, <1>6 DEF RunsTo, Evicted
  <2> QED
    BY <1>2, <1>3, <1>4, <2>1, <2>2, <2>3 DEF RunsTo, StreakInv, Evicted
<1> QED
  BY <1>2, <1>5, <1>7

-----------------------------------------------------------------------------
(* The loop before a connection keeps the invariant. *)

LEMMA StandbyKeeps ==
  ASSUME SupervisorConstants, IInv, Standby
  PROVE  IInv'
<1>1. CredsStay /\ UNCHANGED <<backoff, ends, pc>> /\ waited'
  BY DEF Standby, world, creds, CredsStay
<1>2. CredsTypes' /\ CredsInv' /\ AwaitedInv'
  BY <1>1, StayKeeps, AwaitedStays, TypeParts DEF IInv, CredsStay
<1>3. BackoffTypes' /\ StreakInv'
  BY <1>1, HistoryStays, TypeParts DEF IInv
<1>4. LoopTypes'
  BY TypeParts DEF IInv, Standby, LoopTypes, world
<1>5. PlaceInv'
  BY DEF IInv, Standby, PlaceInv, world, creds, backoff
<1> QED
  BY <1>2, <1>3, <1>4, <1>5, Assembled

LEMMA AppliedKeeps ==
  ASSUME SupervisorConstants, IInv, LoadStartup \/ Adopt
  PROVE  IInv'
<1>1. /\ row # None /\ Usable(row) /\ Apply(row) /\ Calm /\ reads' = reads /\ lock' = lock
      /\ UNCHANGED <<backoff, ends, pc, waited, started, stopping, stable, swapping>>
      /\ pc \in {"top", "creds"}
  BY DEF LoadStartup, CanLoad, Adopt, world, Calm
<1>2. CredsTypes' /\ CredsInv' /\ MemoryMoves /\ db' = TRUE
  BY <1>1, ApplyKeeps, TypeParts DEF IInv, MemoryMoves
<1>3. AwaitedInv'
  BY <1>1, <1>2, AwaitedStays DEF IInv
<1>4. BackoffTypes' /\ StreakInv'
  BY <1>1, HistoryStays, TypeParts DEF IInv
<1>5. LoopTypes'
  BY <1>1, TypeParts DEF IInv, LoopTypes
<1>6. PlaceInv'
  BY <1>1, <1>2 DEF IInv, PlaceInv, backoff
<1> QED
  BY <1>2, <1>3, <1>4, <1>5, <1>6, Assembled

LEMMA TopKeeps ==
  ASSUME SupervisorConstants, IInv, Top
  PROVE  IInv'
<1>1. /\ Calm /\ reads' = reads /\ lock' = lock /\ pc = "top"
      /\ UNCHANGED <<backoff, ends, waited, started, stopping, stable>>
      /\ pc' \in {"source", "creds", "recheck", "go"}
      /\ pc' = "go" => mem' # None
      /\ pc' = "creds" => mem' = None
      /\ pc' = "recheck" => started
  BY DEF Top, world, Calm
<1>2. (CredsStay /\ swapping' = swapping) \/ EnterAuthFailed
  BY <1>1 DEF Top, CredsStay, creds, Calm
<1>3. CredsTypes' /\ CredsInv' /\ MemoryMoves
  <2>1. CASE CredsStay
    BY <2>1, StayKeeps, TypeParts DEF IInv
  <2>2. CASE EnterAuthFailed
    BY <1>1, <2>2, AuthFailedKeeps, TypeParts DEF IInv, MemoryMoves, Calm
  <2> QED
    BY <1>2, <2>1, <2>2
<1>4. AwaitedInv'
  BY <1>1, <1>3, AwaitedStays DEF IInv
<1>5. BackoffTypes' /\ StreakInv'
  BY <1>1, HistoryStays, TypeParts DEF IInv
<1>6. LoopTypes'
  BY <1>1, <1>2, TypeParts DEF IInv, LoopTypes, EnterAuthFailed
<1>7. PlaceInv'
  BY <1>1 DEF IInv, PlaceInv, backoff
<1> QED
  BY <1>3, <1>4, <1>5, <1>6, <1>7, Assembled

\* A recheck that is not the one after a standby.
LEMMA SourceKeeps ==
  ASSUME SupervisorConstants, IInv, Source \/ Gate
  PROVE  IInv'
<1>1. /\ Calm /\ lock' = lock /\ Recheck(FALSE)
      /\ UNCHANGED <<backoff, ends, waited, started, stopping, stable>>
      /\ pc \in {"source", "recheck"} /\ pc' \in {"source", "top", "handshake"}
      /\ pc' = "handshake" => pc = "recheck" /\ mem' # None /\ ~authFailed' /\ ~suspended'
  BY DEF Source, Gate, Ready, world, Calm
<1>2. /\ CredsTypes' /\ CredsInv' /\ MemoryMoves /\ swapping' \in BOOLEAN
      /\ reads' = 0 => reads = 0
  BY <1>1, RecheckKeeps, TypeParts DEF IInv, LoopTypes
<1>3. AwaitedInv'
  BY <1>1, <1>2, AwaitedStays DEF IInv
<1>4. BackoffTypes' /\ StreakInv'
  BY <1>1, HistoryStays, TypeParts DEF IInv
<1>5. LoopTypes'
  BY <1>1, <1>2, TypeParts DEF IInv, LoopTypes
<1>6. PlaceInv'
  BY <1>1 DEF IInv, PlaceInv, backoff
<1> QED
  BY <1>2, <1>3, <1>4, <1>5, <1>6, Assembled

LEMMA StandbyEndsKeeps ==
  ASSUME SupervisorConstants, IInv, NEW boot \in BOOLEAN, RecheckAfterStandby(boot),
         mem # None, boot => pc = "go", ~boot => pc = "creds"
  PROVE  IInv'
<1>1. /\ Calm /\ lock' = lock /\ Recheck(boot)
      /\ UNCHANGED <<backoff, ends, started, stopping, stable>>
      /\ waited' = FALSE /\ pc' \in {pc, "top"}
      /\ pc' = "go" => mem' = mem
  BY DEF RecheckAfterStandby, world, Calm
<1>2. /\ CredsTypes' /\ CredsInv' /\ MemoryMoves /\ swapping' \in BOOLEAN
      /\ mem' # None => (mem' = mem /\ db' = db) \/ db' = TRUE
      /\ mem \in rotated /\ (boot \/ db) => reads' # 0 \/ mem' \notin rotated'
      /\ reads' = 0 => reads = 0
  BY <1>1, RecheckKeeps, TypeParts DEF IInv, LoopTypes
<1>3. boot \/ db
  BY DEF IInv, PlaceInv
<1>4. AwaitedInv'
  BY <1>2, <1>3 DEF AwaitedInv, MemoryMoves
<1>5. BackoffTypes' /\ StreakInv'
  BY <1>1, HistoryStays, TypeParts DEF IInv
<1>6. LoopTypes'
  BY <1>1, <1>2, TypeParts DEF IInv, LoopTypes
<1>7. PlaceInv'
  BY <1>1, <1>2, <1>3 DEF IInv, PlaceInv, backoff
<1> QED
  BY <1>2, <1>4, <1>5, <1>6, <1>7, Assembled

LEMMA FirstUseKeeps ==
  ASSUME SupervisorConstants, IInv, FirstUse, pc \in {"creds", "go"}
  PROVE  IInv'
<1>1. /\ rotated' = rotated /\ reads' = reads /\ lock' = lock /\ lock = "us"
      /\ UNCHANGED <<backoff, ends, waited, stopping, stable>> /\ started' = TRUE
      /\ pc' \in {"creds", "top", "recheck"}
  BY DEF FirstUse, world, Refreshed, RefreshDenied
<1>2. \/ CredsStay /\ swapping' = FALSE /\ pc' = "recheck"
      \/ Refreshed /\ mem # None /\ swapping' = FALSE /\ pc' = "recheck"
      \/ /\ EnterAuthFailed /\ row' \in {row, None} /\ UNCHANGED <<minted, dead>>
         /\ pc' \in {"creds", "top"}
  BY DEF FirstUse, RefreshDenied, CredsStay, creds, world
<1>3. CredsTypes' /\ CredsInv' /\ MemoryMoves /\ swapping' \in BOOLEAN
  <2>1. CASE CredsStay /\ swapping' = FALSE
    BY <2>1, StayKeeps, TypeParts DEF IInv
  <2>2. CASE Refreshed /\ mem # None /\ swapping' = FALSE
    BY <1>1, <2>2, RefreshedKeeps, TypeParts DEF IInv, MemoryMoves
  <2>3. CASE EnterAuthFailed /\ row' \in {row, None} /\ UNCHANGED <<minted, dead>>
    <3>1. swapping' = FALSE
      BY <2>3 DEF EnterAuthFailed
    <3> QED
      BY <1>1, <2>3, <3>1, AuthFailedKeeps, TypeParts DEF IInv, MemoryMoves
  <2> QED
    BY <1>2, <2>1, <2>2, <2>3
<1>4. AwaitedInv'
  BY <1>1, <1>3, AwaitedStays DEF IInv
<1>5. BackoffTypes' /\ StreakInv'
  BY <1>1, HistoryStays, TypeParts DEF IInv
<1>6. LoopTypes'
  BY <1>1, <1>3, TypeParts DEF IInv, LoopTypes
<1>7. PlaceInv'
  <2>1. pc' = "creds" => mem' = None
    BY <1>2 DEF EnterAuthFailed
  <2> QED
    BY <1>1, <2>1 DEF IInv, PlaceInv, backoff
<1> QED
  BY <1>3, <1>4, <1>5, <1>6, <1>7, Assembled

LEMMA BeforeConnection ==
  ASSUME SupervisorConstants, IInv,
         Standby \/ LoadStartup \/ Top \/ Source \/ Adopt \/ Adopted \/ Go \/ Gate
  PROVE  IInv'
<1>1. CASE Adopted
  BY <1>1, StandbyEndsKeeps, FirstUseKeeps DEF Adopted
<1>2. CASE Go
  <2>1. mem # None
    BY <1>2 DEF Go, IInv, PlaceInv
  <2>2. CASE RecheckAfterStandby(TRUE)
    BY <1>2, <2>1, <2>2, StandbyEndsKeeps DEF Go
  <2>3. CASE FirstUse
    BY <1>2, <2>3, FirstUseKeeps DEF Go
  <2> QED
    BY <1>2, <2>2, <2>3 DEF Go
<1> QED
  BY <1>1, <1>2, StandbyKeeps, AppliedKeeps, TopKeeps, SourceKeeps

-----------------------------------------------------------------------------
(* A connection keeps it. *)

EndKinds == {"plain", "error", "throttled", "replaced", "superseded"}

\* A connection ends, its credentials being what they are then.
LEMMA EndKeeps ==
  ASSUME SupervisorConstants, IInv, pc \in {"handshake", "ready"},
         NEW kind \in EndKinds, NEW ready \in BOOLEAN, End(kind, ready),
         CredsTypes', CredsInv', MemoryMoves, reads' = 0 => reads = 0,
         swapping' \in BOOLEAN, stopping' \in BOOLEAN, lock' = lock,
         UNCHANGED <<backoff, waited, started, stable>>
  PROVE  IInv'
<1>1. BackoffTypes' /\ StreakInv' /\ pc' = "ended"
  BY HistoryGrows, TypeParts DEF IInv, EndKinds
<1>2. AwaitedInv'
  BY AwaitedStays DEF IInv
<1>3. LoopTypes'
  BY <1>1, TypeParts DEF IInv, LoopTypes
<1>4. PlaceInv'
  BY <1>1 DEF IInv, PlaceInv, backoff
<1> QED
  BY <1>1, <1>2, <1>3, <1>4, Assembled

LEMMA UpKeeps ==
  ASSUME SupervisorConstants, IInv, HelloOk \/ StableReady
  PROVE  IInv'
<1>1. /\ CredsStay /\ UNCHANGED <<backoff, ends, waited, started, stopping, swapping, lock>>
      /\ stable' \in BOOLEAN /\ pc \in {"handshake", "ready"} /\ pc' = "ready"
  BY DEF HelloOk, StableReady, world, creds, CredsStay
<1>2. CredsTypes' /\ CredsInv' /\ AwaitedInv'
  BY <1>1, StayKeeps, AwaitedStays, TypeParts DEF IInv, CredsStay
<1>3. BackoffTypes' /\ StreakInv'
  BY <1>1, HistoryStays, TypeParts DEF IInv
<1>4. LoopTypes'
  BY <1>1, TypeParts DEF IInv, LoopTypes
<1>5. PlaceInv'
  BY <1>1 DEF IInv, PlaceInv, backoff, CredsStay
<1> QED
  BY <1>2, <1>3, <1>4, <1>5, Assembled

LEMMA LostKeeps ==
  ASSUME SupervisorConstants, IInv, HelloFails \/ Lost
  PROVE  IInv'
<1>1. /\ CredsStay /\ UNCHANGED <<backoff, waited, started, stopping, stable, swapping, lock>>
      /\ pc \in {"handshake", "ready"}
      /\ \E kind \in EndKinds, ready \in BOOLEAN : End(kind, ready)
  BY DEF HelloFails, Lost, world, creds, CredsStay, EndKinds
<1>2. CredsTypes' /\ CredsInv' /\ MemoryMoves
  BY <1>1, StayKeeps, TypeParts DEF IInv
<1>3. swapping' \in BOOLEAN /\ stopping' \in BOOLEAN
  BY <1>1, TypeParts DEF IInv, LoopTypes
<1> QED
  BY <1>1, <1>2, <1>3, EndKeeps DEF CredsStay

LEMMA WatchKeeps ==
  ASSUME SupervisorConstants, IInv, Watch
  PROVE  IInv'
<1>1. /\ Calm /\ lock' = lock /\ Recheck(FALSE) /\ pc = "ready"
      /\ UNCHANGED <<backoff, waited, started, stopping, stable>>
      /\ \/ mem' = mem /\ Ready /\ UNCHANGED <<pc, ends>>
         \/ End("plain", TRUE)
  BY DEF Watch, world, Calm
<1>2. /\ CredsTypes' /\ CredsInv' /\ MemoryMoves /\ swapping' \in BOOLEAN
      /\ reads' = 0 => reads = 0
  BY <1>1, RecheckKeeps, TypeParts DEF IInv, LoopTypes
<1>3. CASE End("plain", TRUE)
  <2>1. stopping' \in BOOLEAN
    BY <1>1, TypeParts DEF IInv, LoopTypes
  <2>2. "plain" \in EndKinds
    BY DEF EndKinds
  <2> QED
    BY <1>1, <1>2, <1>3, <2>1, <2>2, EndKeeps
<1>4. CASE mem' = mem /\ Ready /\ UNCHANGED <<pc, ends>>
  <2>1. AwaitedInv'
    BY <1>1, <1>2, AwaitedStays DEF IInv
  <2>2. BackoffTypes' /\ StreakInv'
    BY <1>1, <1>4, HistoryStays, TypeParts DEF IInv
  <2>3. LoopTypes'
    BY <1>1, <1>2, <1>4, TypeParts DEF IInv, LoopTypes
  <2>4. PlaceInv'
    BY <1>1, <1>4 DEF IInv, PlaceInv, backoff, Ready
  <2> QED
    BY <1>2, <2>1, <2>2, <2>3, <2>4, Assembled
<1> QED
  BY <1>1, <1>3, <1>4

LEMMA RefreshKeeps ==
  ASSUME SupervisorConstants, IInv, HelloRejected \/ Proactive
  PROVE  IInv'
<1>1. /\ UNCHANGED <<backoff, waited, started, stable, lock, reads, rotated>>
      /\ pc \in {"handshake", "ready"}
      /\ \E ready \in BOOLEAN : End("plain", ready)
  BY DEF HelloRejected, Proactive, world, Refreshed, RefreshDenied
<1>2. mem # None
  BY <1>1 DEF IInv, PlaceInv
<1>3. CredsTypes /\ CredsInv /\ stopping \in BOOLEAN /\ swapping \in BOOLEAN
  BY TypeParts DEF IInv, LoopTypes
<1>4. \/ Refreshed /\ swapping' = TRUE /\ stopping' = stopping
      \/ RefreshDenied /\ stopping' = stopping
      \/ CredsStay /\ swapping' = swapping /\ stopping' = stopping
      \/ /\ rejected' = IF db THEN rejected \cup {mem} ELSE rejected
         /\ mem' = IF db THEN None ELSE mem
         /\ db' = FALSE /\ authFailed' = ~db /\ stopping' = ~db
         /\ UNCHANGED <<failures, suspended, swapping, row, minted, dead>>
  BY <1>1 DEF HelloRejected, Proactive, CredsStay, creds, world
<1>5. CredsTypes' /\ CredsInv' /\ MemoryMoves /\ swapping' \in BOOLEAN /\ stopping' \in BOOLEAN
  <2>1. CASE Refreshed /\ swapping' = TRUE /\ stopping' = stopping
    BY <1>1, <1>2, <1>3, <2>1, RefreshedKeeps DEF MemoryMoves
  <2>2. CASE RefreshDenied /\ stopping' = stopping
    <3>1. /\ EnterAuthFailed /\ row' = None /\ UNCHANGED <<minted, dead>> /\ swapping' = FALSE
      BY <2>2 DEF RefreshDenied, EnterAuthFailed
    <3> QED
      BY <1>1, <1>3, <2>2, <3>1, AuthFailedKeeps DEF MemoryMoves
  <2>3. CASE CredsStay /\ swapping' = swapping /\ stopping' = stopping
    BY <1>3, <2>3, StayKeeps
  <2>4. CASE /\ rejected' = IF db THEN rejected \cup {mem} ELSE rejected
             /\ mem' = IF db THEN None ELSE mem
             /\ db' = FALSE /\ authFailed' = ~db /\ stopping' = ~db
             /\ UNCHANGED <<failures, suspended, swapping, row, minted, dead>>
    <3>1. CASE db
      <4>1. rejected' = rejected \cup {mem} /\ mem' = None
        BY <2>4, <3>1
      <4>2. CredsInv' /\ MemoryMoves
        BY <1>1, <1>2, <1>3, <2>4, <4>1
        DEF CredsTypes, CredsInv, PairsInv, RejectedInv, RotatedInv, Usable, MemoryMoves
      <4> QED
        BY <1>1, <1>2, <1>3, <2>4, <4>1, <4>2 DEF CredsTypes
    <3>2. CASE ~db
      <4>1. rejected' = rejected /\ mem' = mem
        BY <2>4, <3>2
      <4>2. CredsInv' /\ MemoryMoves
        BY <1>1, <1>3, <2>4, <4>1
        DEF CredsInv, PairsInv, RejectedInv, RotatedInv, Usable, MemoryMoves
      <4> QED
        BY <1>1, <1>3, <2>4, <4>1, <4>2 DEF CredsTypes
    <3> QED
      BY <3>1, <3>2
  <2> QED
    BY <1>4, <2>1, <2>2, <2>3, <2>4
<1>6. "plain" \in EndKinds
  BY DEF EndKinds
<1> QED
  BY <1>1, <1>5, <1>6, EndKeeps

-----------------------------------------------------------------------------
(* What an end means for the next connection. *)

LEMMA FloorBounds ==
  ASSUME SupervisorConstants, NEW n \in Nat
  PROVE  Floor(n) \in Int /\ Floor(n) <= FloorMax /\ Floor(0) = 0
<1>1. CASE n = 0
  BY Limits, <1>1 DEF Floor
<1>2. CASE n > 0
  <2>1. n - 1 \in Nat
    BY <1>2
  <2>2. 2^(n - 1) \in Int
    BY <2>1
  <2>3. FloorUnit * 2^(n - 1) \in Int
    BY Limits, <2>2
  <2>4. Floor(n) = Least(FloorUnit * 2^(n - 1), FloorMax)
    BY <1>2 DEF Floor
  <2>5. Floor(0) = 0
    BY DEF Floor
  <2> HIDE DEF Floor
  <2> QED
    BY Limits, <2>3, <2>4, <2>5 DEF Least
<1> QED
  BY <1>1, <1>2

\* The settled end is one more takeover of the run, or ends it.
LEMMA StreakCounts ==
  ASSUME SupervisorConstants, IInv, pc = "ended"
  PROVE  RunsTo(Streak, Len(ends)) /\ Streak \in 0..MaxEnds
<1>1. ends \in Seq(Endings) /\ ends # <<>> /\ Len(ends) \in Nat /\ Len(ends) <= MaxEnds
  BY DEF IInv, TypeOK, StreakInv
<1>2. Len(ends) > 0
  BY <1>1
<1>3. RunsTo(streak, Len(ends) - 1)
  BY DEF IInv, StreakInv
<1>4. CASE Ended.kind = "replaced"
  <2>1. Streak = streak + 1 /\ Evicted(ends[Len(ends)])
    BY <1>4 DEF Streak, Evicted, Ended
  <2>2. streak \in 0..(Len(ends) - 1)
    BY <1>3 DEF RunsTo
  <2>3. Len(ends) - 1 - streak = Len(ends) - Streak
    BY <1>1, <2>1, <2>2
  <2>4. \A i \in (Len(ends) - Streak + 1)..Len(ends) : Evicted(ends[i])
    <3> SUFFICES ASSUME NEW i \in (Len(ends) - Streak + 1)..Len(ends)
                 PROVE  Evicted(ends[i])
      OBVIOUS
    <3>1. i \in ((Len(ends) - 1) - streak + 1)..(Len(ends) - 1) \/ i = Len(ends)
      BY <1>1, <2>1, <2>2
    <3> QED
      BY <1>3, <2>1, <3>1 DEF RunsTo
  <2>5. Streak < Len(ends) => ~Evicted(ends[Len(ends) - Streak])
    BY <1>1, <1>3, <2>1, <2>2, <2>3 DEF RunsTo
  <2>6. Streak \in 0..Len(ends)
    BY <1>1, <2>1, <2>2
  <2> QED
    BY Limits, <1>1, <2>4, <2>5, <2>6 DEF RunsTo
<1>5. CASE Ended.kind # "replaced"
  <2>1. Streak = 0 /\ ~Evicted(ends[Len(ends)])
    BY <1>5 DEF Streak, Evicted, Ended
  <2> QED
    BY Limits, <1>1, <1>2, <2>1 DEF RunsTo
<1> QED
  BY <1>4, <1>5

\* An end is settled: the streak counts it, and the loop goes on.
LEMMA SettledKeeps ==
  ASSUME SupervisorConstants, IInv, pc = "ended", pc' \in {"top", "closed"},
         streak' = Streak \/ (Ended.kind = "superseded" /\ streak' = 0),
         retries' \in 0..(MaxRetries + 1), retries' > MaxRetries => pc' = "closed",
         delay' \in 1..MaxDelay, wait' \in 0..Most(MaxDelay, FloorMax),
         swapping' \in BOOLEAN, CredsStay,
         UNCHANGED <<ends, lock, waited, started, stopping, stable>>
  PROVE  IInv'
<1>1. streak' = Streak
  BY DEF Streak
<1>2. BackoffTypes' /\ StreakInv'
  BY <1>1, StreakCounts, TypeParts DEF IInv, BackoffTypes, StreakInv, RunsTo, Evicted
<1>3. CredsTypes' /\ CredsInv' /\ AwaitedInv'
  BY StayKeeps, AwaitedStays, TypeParts DEF IInv, CredsStay
<1>4. LoopTypes'
  BY TypeParts DEF IInv, LoopTypes
<1>5. PlaceInv'
  BY DEF IInv, PlaceInv
<1> QED
  BY <1>2, <1>3, <1>4, <1>5, Assembled

\* The wait is at least the floor of the streak, and at most the exponential
\* delay when neither takeovers nor a refusal ask for more.
LEMMA WaitChosen ==
  ASSUME SupervisorConstants, IInv, pc = "ended", Settle, pc' = "top"
  PROVE  /\ wait' \in 1..Most(MaxDelay, FloorMax) /\ delay' \in 1..MaxDelay
         /\ wait' >= Floor(Streak)
         /\ Ended.kind # "throttled" => wait' <= Most(MaxDelay, Floor(Streak))
<1> DEFINE base == IF FreshStart THEN 1 ELSE delay
<1>1. base \in 1..MaxDelay
  BY Limits DEF IInv, TypeOK
<1>2. PICK refusal \in RefusalFloor : wait' = Most(base, Most(Floor(Streak), refusal))
  BY DEF Settle
<1>3. delay' = Least(2 * base, MaxDelay)
  BY DEF Settle
<1>4. refusal \in 0..FloorMax /\ (Ended.kind # "throttled" => refusal = 0)
  BY Limits, <1>2 DEF RefusalFloor, Refusals
<1> HIDE DEF base
<1>5. Streak \in Nat
  BY Limits, StreakCounts
<1>6. Floor(Streak) \in Int /\ Floor(Streak) <= FloorMax /\ Floor(0) = 0
  BY <1>5, FloorBounds
<1> DEFINE floor == Floor(Streak)
<1>7. floor \in Int /\ floor <= FloorMax /\ (Streak = 0 => floor = 0)
  BY <1>6
<1>8. wait' = Most(base, Most(floor, refusal))
  BY <1>2
<1> HIDE DEF floor
<1>9. /\ wait' \in Int /\ wait' >= base /\ wait' >= floor
      /\ wait' = base \/ wait' <= FloorMax
      /\ refusal = 0 => wait' \in {base, floor}
  BY Limits, <1>1, <1>4, <1>7, <1>8 DEF Most
<1>10. wait' \in 1..Most(MaxDelay, FloorMax)
  BY Limits, <1>1, <1>9 DEF Most
<1>11. delay' \in 1..MaxDelay
  BY Limits, <1>1, <1>3 DEF Least
<1>12. Ended.kind # "throttled" => wait' <= Most(MaxDelay, floor)
  BY Limits, <1>1, <1>4, <1>7, <1>9 DEF Most
<1> QED
  BY <1>9, <1>10, <1>11, <1>12 DEF floor

LEMMA SettlesKeep ==
  ASSUME SupervisorConstants, IInv, SettleSuperseded \/ SettleElsewhere \/ Settle
  PROVE  IInv'
<1>1. /\ pc = "ended" /\ CredsStay
      /\ UNCHANGED <<ends, lock, waited, started, stopping, stable>>
      /\ pc' \in {"top", "closed"}
      /\ streak' = Streak \/ (Ended.kind = "superseded" /\ streak' = 0)
  <2>1. CASE SettleSuperseded
    BY <2>1 DEF SettleSuperseded, CredsStay, creds, world
  <2>2. CASE SettleElsewhere
    BY <2>2 DEF SettleElsewhere, CredsStay, creds, world
  <2>3. CASE Settle
    BY <2>3 DEF Settle, CredsStay, creds, world
  <2> QED
    BY <2>1, <2>2, <2>3
<1>2. /\ retries \in 0..MaxRetries /\ delay \in 1..MaxDelay
      /\ wait \in 0..Most(MaxDelay, FloorMax) /\ swapping \in BOOLEAN
  <2>1. BackoffTypes /\ LoopTypes /\ PlaceInv
    BY TypeParts DEF IInv
  <2>2. retries \in 0..(MaxRetries + 1) /\ ~(retries > MaxRetries)
    BY <1>1, <2>1 DEF BackoffTypes, PlaceInv
  <2> QED
    BY Limits, <2>1, <2>2 DEF BackoffTypes, LoopTypes
<1>3. CASE SettleSuperseded
  <2>1. retries' \in 0..MaxRetries /\ delay' = delay /\ wait' = wait /\ swapping' = FALSE
    BY <1>2, <1>3 DEF SettleSuperseded
  <2>2. retries' \in 0..(MaxRetries + 1) /\ ~(retries' > MaxRetries)
    BY Limits, <2>1
  <2>3. delay' \in 1..MaxDelay /\ wait' \in 0..Most(MaxDelay, FloorMax) /\ swapping' \in BOOLEAN
    BY <1>2, <2>1
  <2> QED
    BY <1>1, <2>2, <2>3, SettledKeeps
<1>4. CASE SettleElsewhere
  <2>1. /\ retries' \in 0..MaxRetries /\ delay' \in 1..MaxDelay /\ wait' = wait
        /\ swapping' \in BOOLEAN
    BY Limits, <1>2, <1>4 DEF SettleElsewhere
  <2> QED
    BY Limits, <1>1, <1>2, <2>1, SettledKeeps
<1>5. CASE Settle
  <2>1. /\ retries' \in 0..(MaxRetries + 1) /\ swapping' \in BOOLEAN
        /\ retries' > MaxRetries => pc' = "closed"
    BY Limits, <1>2, <1>5 DEF Settle
  <2>2. CASE pc' = "top"
    <3>1. wait' \in 0..Most(MaxDelay, FloorMax) /\ delay' \in 1..MaxDelay
      BY <1>1, <1>5, <2>2, WaitChosen
    <3> QED
      BY <1>1, <2>1, <3>1, SettledKeeps
  <2>3. CASE pc' = "closed"
    <3>1. wait' = wait /\ delay' = delay
      BY <1>5, <2>3 DEF Settle
    <3> QED
      BY <1>1, <1>2, <2>1, <3>1, SettledKeeps
  <2> QED
    BY <1>1, <2>2, <2>3
<1> QED
  BY <1>3, <1>4, <1>5

-----------------------------------------------------------------------------
(* What others do. *)

LEMMA OthersKeep ==
  ASSUME SupervisorConstants, IInv, Others
  PROVE  IInv'
<1>1. /\ UNCHANGED <<pc, waited, started, stopping, stable, swapping, creds, backoff,
                     ends, reads>>
      /\ lock' \in {"us", "other"}
      /\ lock = "us" => lock' = "us"
  BY TypeParts DEF IInv, LoopTypes, Others, HolderLeaves, Activation, Revocation
<1>2. BackoffTypes' /\ StreakInv'
  BY <1>1, HistoryStays, TypeParts DEF IInv
<1>3. LoopTypes'
  BY <1>1, TypeParts DEF IInv, LoopTypes
<1>4. PlaceInv'
  BY <1>1 DEF IInv, PlaceInv, backoff, creds
<1>5. CredsTypes' /\ CredsInv' /\ AwaitedInv'
  <2>1. CASE HolderLeaves
    BY <1>1, <2>1, StayKeeps, AwaitedStays, TypeParts DEF IInv, HolderLeaves, CredsStay, creds
  <2>2. CASE Activation
    <3>1. /\ minted' = minted + 1 /\ row' = minted' /\ minted' \in Pairs
          /\ dead' = dead \cup ({row} \ {None})
          /\ rotated' = (IF waited THEN rotated \cup ({row} \ {None}) ELSE rotated)
          /\ UNCHANGED <<mem, db, rejected, failures, suspended, authFailed, reads, waited>>
      BY Limits, <1>1, <2>2, TypeParts DEF IInv, CredsTypes, Activation, creds
    <3>2. rotated' \subseteq rotated \cup {row} /\ rotated' \subseteq dead'
      BY <3>1 DEF IInv, CredsInv, PairsInv
    <3>3. CredsTypes'
      BY <3>1, TypeParts DEF IInv, CredsTypes
    <3>4. PairsInv' /\ RejectedInv' /\ RotatedInv'
      <4>1. minted \in Nat /\ mem \in Nat /\ row \in {None, minted}
        BY TypeParts DEF IInv, CredsTypes, CredsInv, PairsInv
      <4>2. \A p \in rotated' : p < minted'
        <5>1. \A p \in rotated : p \in Nat /\ p < minted
          BY TypeParts DEF IInv, CredsTypes, CredsInv, PairsInv
        <5> QED
          BY <3>1, <3>2, <4>1, <5>1
      <4> QED
        BY <3>1, <3>2, <4>1, <4>2
        DEF IInv, CredsInv, PairsInv, RejectedInv, RotatedInv, Usable
    <3>5. AwaitedInv'
      BY <3>1 DEF IInv, AwaitedInv
    <3> QED
      BY <3>3, <3>4, <3>5 DEF CredsInv
  <2>3. CASE Revocation
    <3>1. /\ mem \notin dead \cup {None} /\ dead' = dead \cup {mem} /\ row' \in {row, None}
          /\ UNCHANGED <<minted, mem, db, rejected, failures, suspended, authFailed, reads,
                         waited, rotated>>
      BY <1>1, <2>3 DEF Revocation, creds
    <3>2. mem \notin rotated
      BY <3>1 DEF IInv, CredsInv, PairsInv
    <3>3. CredsTypes'
      BY <3>1, TypeParts DEF IInv, CredsTypes
    <3>4. PairsInv' /\ RejectedInv' /\ RotatedInv'
      BY <3>1, <3>2 DEF IInv, CredsInv, PairsInv, RejectedInv, RotatedInv, Usable
    <3>5. AwaitedInv'
      BY <3>1, <3>2 DEF AwaitedInv
    <3> QED
      BY <3>3, <3>4, <3>5 DEF CredsInv
  <2> QED
    BY <2>1, <2>2, <2>3 DEF Others
<1> QED
  BY <1>2, <1>3, <1>4, <1>5, Assembled

-----------------------------------------------------------------------------
(* The theorems *)

LEMMA InitInv == SupervisorConstants /\ Init => IInv
<1> SUFFICES ASSUME SupervisorConstants, Init
             PROVE  IInv
  OBVIOUS
<1>1. CredsTypes
  <2>1. row \in Pairs \cup {None} /\ minted \in Pairs /\ mem \in Pairs \cup {None}
    BY Limits DEF Init
  <2>2. failures \in 0..ReadLimit /\ reads \in 0..MaxReads
    BY Limits DEF Init
  <2> QED
    BY <2>1, <2>2 DEF Init, CredsTypes
<1>2. LoopTypes
  BY DEF Init, LoopTypes
<1>3. ends \in Seq(Endings) /\ Len(ends) = 0
  BY DEF Init
<1>4. BackoffTypes
  BY Limits, <1>3 DEF Init, BackoffTypes, Most
<1>5. CredsInv /\ AwaitedInv
  BY Limits DEF Init, CredsInv, PairsInv, RejectedInv, RotatedInv, AwaitedInv, Usable
<1>6. PlaceInv
  BY Limits DEF Init, PlaceInv
<1>7. StreakInv
  BY <1>3 DEF Init, StreakInv, RunsTo
<1> QED
  BY <1>1, <1>2, <1>4, <1>5, <1>6, <1>7, TypeParts DEF IInv

LEMMA NextInv == SupervisorConstants /\ IInv /\ [Next]_vars => IInv'
<1> SUFFICES ASSUME SupervisorConstants, IInv, [Next]_vars
             PROVE  IInv'
  OBVIOUS
<1>1. CASE Supervise
  BY <1>1, BeforeConnection, SettlesKeep DEF Supervise
<1>2. CASE Connected
  BY <1>2, UpKeeps, LostKeeps, RefreshKeeps, WatchKeeps DEF Connected
<1>3. CASE Others
  BY <1>3, OthersKeep
<1>4. CASE UNCHANGED vars
  <2>1. CredsStay /\ UNCHANGED <<backoff, ends, pc, lock, waited, started, stopping, stable, swapping>>
    BY <1>4 DEF vars, world, creds, CredsStay
  <2>2. CredsTypes' /\ CredsInv' /\ AwaitedInv'
    BY <2>1, StayKeeps, AwaitedStays, TypeParts DEF IInv, CredsStay
  <2>3. BackoffTypes' /\ StreakInv'
    BY <2>1, HistoryStays, TypeParts DEF IInv
  <2>4. LoopTypes' /\ PlaceInv'
    BY <2>1, TypeParts DEF IInv, LoopTypes, PlaceInv, backoff, CredsStay
  <2> QED
    BY <2>2, <2>3, <2>4, Assembled
<1> QED
  BY <1>1, <1>2, <1>3, <1>4 DEF Next

\* Whatever changes while the supervisor stands by or waits, a connection is
\* opened with a pair that is not known to be rejected (connection.py, the loop).
THEOREM UsablePairsConnect ==
  ASSUME SupervisorConstants
  PROVE  Spec => []SupervisorSafe
<1>1. Init => IInv
  BY InitInv
<1>2. IInv /\ [Next]_vars => IInv'
  BY NextInv
<1>3. IInv => SupervisorSafe
  BY DEF IInv, PlaceInv, CredsInv, RejectedInv, SupervisorSafe, OnlyUsablePairsConnect
<1> QED
  BY <1>1, <1>2, <1>3, PTL DEF Spec

\* Only the first use and the recheck after the standby can log the account out
\* before a connection.
LEMMA RotatedNotRefused ==
  SupervisorConstants /\ IInv /\ [Next]_vars => NoStaleFirstRefreshStep
<1> SUFFICES ASSUME SupervisorConstants, IInv, [Next]_vars, pc \in {"creds", "go"}, mem # None,
                    authFailed', ~authFailed, reads = 0, mem \in rotated
             PROVE  FALSE
  BY DEF NoStaleFirstRefreshStep
<1>1. waited /\ row = minted /\ row # None /\ Usable(row)
  BY TypeParts DEF IInv, AwaitedInv, CredsInv, RotatedInv, RejectedInv, Usable, CredsTypes
<1>2. ASSUME NEW boot \in BOOLEAN, RecheckAfterStandby(boot) PROVE FALSE
  <2>1. ~Unread(boot) /\ ~Unchanged(boot)
    BY DEF Unread, Unchanged
  <2>2. ~Changed(boot)
    BY <1>1 DEF Changed, Apply
  <2>3. ~Revoked
    BY <1>1 DEF Revoked
  <2> QED
    BY <1>2, <2>1, <2>2, <2>3 DEF RecheckAfterStandby, Recheck
<1>3. ~FirstUse
  BY <1>1 DEF FirstUse
<1>4. ~Adopted /\ ~Go
  BY <1>2, <1>3 DEF Adopted, Go
<1>5. ~Standby /\ ~LoadStartup /\ ~Top /\ ~Source /\ ~Adopt /\ ~Gate
  BY DEF Standby, LoadStartup, Top, Source, Adopt, Gate, creds
<1>6. ~SettleSuperseded /\ ~SettleElsewhere /\ ~Settle
  BY DEF SettleSuperseded, SettleElsewhere, Settle
<1>7. ~Connected
  BY DEF Connected, HelloOk, HelloFails, HelloRejected, StableReady, Lost, Watch, Proactive
<1>8. ~Others
  BY DEF Others, HolderLeaves, Activation, Revocation, creds
<1>9. ~UNCHANGED vars
  BY DEF vars, creds
<1> QED
  BY <1>4, <1>5, <1>6, <1>7, <1>8, <1>9 DEF Next, Supervise

\* A pair that was rotated while the process stood by is not presented for the
\* first refresh, which would log the account out (connection.py, the recheck
\* after the standby).
THEOREM RotatedPairsStay ==
  ASSUME SupervisorConstants
  PROVE  Spec => NoStaleFirstRefresh
<1>1. Init => IInv
  BY InitInv
<1>2. IInv /\ [Next]_vars => IInv'
  BY NextInv
<1>3. IInv /\ [Next]_vars => NoStaleFirstRefreshStep
  BY RotatedNotRefused
<1> QED
  BY <1>1, <1>2, <1>3, PTL DEF Spec, NoStaleFirstRefresh

\* The number of takeovers at the end of the history is the one that the streak
\* counts: there is only one such number.
LEMMA RunIsStreak ==
  ASSUME SupervisorConstants, IInv, pc = "ended"
  PROVE  TrailingRun(Evicted) = Streak
<1> DEFINE runs == {n \in 0..Len(ends) :
                      \A i \in (Len(ends) - n + 1)..Len(ends) : Evicted(ends[i])}
<1>1. Len(ends) \in Nat
  BY DEF IInv, TypeOK
<1>2. RunsTo(Streak, Len(ends))
  BY StreakCounts
<1>3. Streak \in runs
  BY <1>2 DEF RunsTo
<1>4. ASSUME NEW n \in runs PROVE n <= Streak
  <2>1. SUFFICES ASSUME n > Streak PROVE FALSE
    BY <1>1, <1>3
  <2>2. Streak < Len(ends) /\ Len(ends) - Streak \in (Len(ends) - n + 1)..Len(ends)
    BY <1>1, <1>3, <2>1
  <2> QED
    BY <1>2, <2>2 DEF RunsTo
<1>5. \A n \in runs : (\A m \in runs : m <= n) => n = Streak
  BY <1>1, <1>3, <1>4
<1>6. TrailingRun(Evicted) = CHOOSE n \in runs : \A m \in runs : m <= n
  BY DEF TrailingRun
<1> HIDE DEF runs
<1> QED
  BY <1>3, <1>4, <1>5, <1>6

LEMMA FloorIsWaited ==
  SupervisorConstants /\ IInv /\ [Next]_vars => EvictionsBackOffStep
<1> SUFFICES ASSUME SupervisorConstants, IInv, [Next]_vars, Retries
             PROVE  /\ wait' >= Floor(Streak)
                    /\ Ended.kind # "throttled" => wait' <= Most(MaxDelay, Floor(Streak))
  BY RunIsStreak DEF EvictionsBackOffStep, Retries
<1>0. /\ pc = "ended" /\ pc' = "top" /\ Ended.kind # "superseded"
      /\ ~stopping /\ ~authFailed /\ ~suspended
  BY DEF Retries
<1>1. ~SettleSuperseded /\ ~SettleElsewhere
  BY <1>0 DEF SettleSuperseded, SettleElsewhere
<1>2. /\ ~Standby /\ ~LoadStartup /\ ~Top /\ ~Source /\ ~Adopt /\ ~Adopted /\ ~Go /\ ~Gate
  BY <1>0 DEF Standby, LoadStartup, Top, Source, Adopt, Adopted, Go, Gate
<1>3. ~Connected
  BY <1>0 DEF Connected, HelloOk, HelloFails, HelloRejected, StableReady, Lost, Watch, Proactive
<1>4. ~Others /\ ~UNCHANGED vars
  BY <1>0 DEF Others, HolderLeaves, Activation, Revocation, vars
<1>5. Settle
  BY <1>1, <1>2, <1>3, <1>4 DEF Next, Supervise
<1> QED
  BY <1>0, <1>5, WaitChosen

\* Before every next try the loop waits the floor of all the takeovers in a row,
\* and no longer than that or the delay (takeover_backoff_floor).
THEOREM EvictionsAreWaited ==
  ASSUME SupervisorConstants
  PROVE  Spec => EvictionsBackOff
<1>1. Init => IInv
  BY InitInv
<1>2. IInv /\ [Next]_vars => IInv'
  BY NextInv
<1>3. IInv /\ [Next]_vars => EvictionsBackOffStep
  BY FloorIsWaited
<1> QED
  BY <1>1, <1>2, <1>3, PTL DEF Spec, EvictionsBackOff
-----------------------------------------------------------------------------
(* An installation that another one has taken over: its own constants and  *)
(* variables, of which place is where a connection's supervisor is.        *)

CONSTANTS Conns, Procs, ProcOf, Operators,
          MaxConflicts, MaxReclaims, MaxFaults, MaxRestarts

VARIABLES
  disk,       \* the event in install_superseded.json
  gen,        \* the contents of install_reclaim_generation
  guard,      \* who holds the lock file: the only holder of several steps is a reclaim
  failed,     \* per process: the event it could not write (_failed_writes)
  failedGen,  \* per process: the generation of that event (_failed_generations)
  place,      \* per connection: where its supervisor is
  flag,       \* per connection: _superseded
  event,      \* per connection: the conflict it handles
  snapshot,   \* per connection: _superseded_snapshot
  notices,    \* the tasks that tell the owner
  refreshing, \* per connection: a refresh of its credentials is under way
  conflicts, reclaims, faults, restarts,  \* how many there were
  began,      \* history: the reclaims begun when an event's generation was read
  blind,      \* history: events whose generation was unreadable, or vanished
  stood,      \* history: the last reclaim that was completed
  told        \* history: the notices sent, with the reclaims begun at their record

T == INSTANCE Superseded WITH pc <- place

Places == {"waiting", "up", "latched", "settling", "standby"}
Notices == [conn : Conns, event : T!Events, epoch : 0..MaxReclaims,
            at : {"checking", "rechecking", "sending", "done"}]
Tellings == [event : T!Events, conn : Conns, epoch : 0..MaxReclaims]

-----------------------------------------------------------------------------
(* The inductive invariant. *)

\* The generation file has the number of the last reclaim that began, unless
\* somebody has removed it; a lock that is held is held for a reclaim.
GenerationInv ==
  /\ blind = T!Events \/ gen = reclaims
  /\ stood <= reclaims
  /\ guard # "free" => reclaims > 0
  /\ \A e \in T!Events : began[e] <= reclaims

\* Every event has had its conflict.
EventsInv ==
  /\ disk \in T!Events => disk <= conflicts
  /\ \A p \in Procs : failed[p] <= conflicts
  /\ \A c \in Conns : event[c] <= conflicts

\* The event of a conflict that is not settled yet is nowhere else.
UnsettledInv ==
  \A c \in Conns : place[c] \in {"latched", "settling"} =>
    /\ event[c] \in T!Events /\ event[c] # disk
    /\ \A p \in Procs : failed[p] # event[c]
    /\ \A d \in Conns \ {c} : event[d] # event[c]

\* Unless it is blind, an event goes with the generation it began under: in the
\* connection that settles it and in the process that could not write it.
SnapshotInv ==
  /\ \A c \in Conns : place[c] = "settling" /\ event[c] \notin blind =>
       snapshot[c] = began[event[c]]
  /\ \A p \in Procs : failed[p] \in T!Events \ blind => failedGen[p] = began[failed[p]]

\* The event on the disk began after the last completed reclaim did.
DiskInv == disk \in T!Events \ blind => began[disk] >= stood

\* A connection refuses refreshes from the conflict to its release.
FlagInv == \A c \in Conns : place[c] \in {"latched", "settling", "standby"} => flag[c]

\* A notice is of a connection in standby.  An epoch has one event, which is on
\* the disk until the next epoch has begun, and hence one notice.
NoticeInv ==
  /\ \A n \in notices : place[n.conn] = "standby"
  /\ \A r \in notices \cup told :
       r.epoch <= reclaims /\ (r.epoch = reclaims => guard = "free" /\ disk # T!None)
  /\ \A n, m \in notices : n.epoch = m.epoch => n = m
  /\ \A t, u \in told : t.epoch = u.epoch => t = u
  /\ \A n \in notices, t \in told : n.epoch = t.epoch => n.at = "done"

TakeoverInv == /\ T!TypeOK /\ GenerationInv /\ EventsInv /\ UnsettledInv
        /\ SnapshotInv /\ DiskInv /\ FlagInv /\ NoticeInv
-----------------------------------------------------------------------------
(* Every step keeps the invariant.  For each action, its parts one by one. *)

\* A notice that goes on keeps its epoch and its connection.
LEMMA NoticeMoves ==
  ASSUME T!TypeOK, NoticeInv, NEW n \in notices, n.at # "done",
         NEW there \in {"checking", "rechecking", "sending", "done"},
         notices' = T!At(n, there), told' = told, UNCHANGED <<reclaims, guard, disk, place>>
  PROVE  NoticeInv'
<1> DEFINE new == [n EXCEPT !.at = there]
<1>1. n \in Notices
  BY DEF T!TypeOK, Notices
<1>2. new.epoch = n.epoch /\ new.conn = n.conn
  BY <1>1 DEF Notices
<1>3. notices' = (notices \ {n}) \cup {new}
  BY DEF T!At
<1> HIDE DEF new
<1>4. \A m \in notices \ {n} : m.epoch # n.epoch
  BY DEF NoticeInv
<1>5. \A t \in told : t.epoch # n.epoch
  BY DEF NoticeInv
<1>6. \A m \in notices' : place'[m.conn] = "standby"
  BY <1>2, <1>3 DEF NoticeInv
<1>7. \A r \in notices' \cup told' :
        r.epoch <= reclaims' /\ (r.epoch = reclaims' => guard' = "free" /\ disk' # T!None)
  BY <1>2, <1>3 DEF NoticeInv
<1>8. \A m, k \in notices' : m.epoch = k.epoch => m = k
  BY <1>2, <1>3, <1>4 DEF NoticeInv
<1>9. \A m \in notices', t \in told' : m.epoch = t.epoch => m.at = "done"
  BY <1>2, <1>3, <1>5 DEF NoticeInv
<1> QED
  BY <1>6, <1>7, <1>8, <1>9 DEF NoticeInv

LEMMA ConflictKeeps ==
  ASSUME T!TakeoverConstants, TakeoverInv, NEW c \in Conns, T!Conflict(c)
  PROVE  TakeoverInv'
<1>1. T!TypeOK'
  <2>1. place' \in [Conns -> Places]
    BY DEF TakeoverInv, T!TypeOK, T!Conflict, Places, T!TakeoverConstants
  <2>2. flag' \in [Conns -> BOOLEAN]
    BY DEF TakeoverInv, T!TypeOK, T!Conflict
  <2>3. event' \in [Conns -> T!Events \cup {T!None}]
    BY DEF TakeoverInv, T!TypeOK, T!Conflict, T!None, T!Unreadable, T!TakeoverConstants,
           T!Events
  <2>4. conflicts' \in 0..MaxConflicts
    BY DEF TakeoverInv, T!TypeOK, T!Conflict, T!TakeoverConstants
  <2>5. UNCHANGED <<disk, gen, guard, failed, failedGen, snapshot, refreshing,
                    notices, reclaims, faults, restarts, began, blind, stood, told>>
    BY DEF T!Conflict, T!installVars, T!history
  <2> QED
    BY <2>1, <2>2, <2>3, <2>4, <2>5 DEF TakeoverInv, T!TypeOK, Notices, Places, Tellings
<1>2. EventsInv'
  <2>1. conflicts \in Nat /\ conflicts' = conflicts + 1 /\ disk' = disk /\ failed' = failed
    BY DEF TakeoverInv, T!TypeOK, T!Conflict, T!installVars, T!TakeoverConstants
  <2>2. event'[c] = conflicts + 1 /\ \A d \in Conns \ {c} : event'[d] = event[d]
    BY DEF TakeoverInv, T!TypeOK, T!Conflict
  <2>3. /\ \A d \in Conns : event[d] \in Int /\ \A p \in Procs : failed[p] \in Int
        /\ disk \in Int
    BY DEF TakeoverInv, T!TypeOK, T!Events, T!None, T!Unreadable, T!TakeoverConstants
  <2>4. \A d \in Conns : event'[d] <= conflicts'
    BY <2>1, <2>2, <2>3 DEF TakeoverInv, EventsInv
  <2>5. (disk \in T!Events => disk <= conflicts') /\ \A p \in Procs : failed[p] <= conflicts'
    BY <2>1, <2>3 DEF TakeoverInv, EventsInv
  <2> QED
    BY <2>1, <2>4, <2>5 DEF EventsInv
<1>3. UnsettledInv'
  <2>1. /\ conflicts \in Nat /\ conflicts + 1 \in T!Events
        /\ disk' = disk /\ failed' = failed
    BY DEF TakeoverInv, T!TypeOK, T!Conflict, T!Events, T!installVars, T!TakeoverConstants
  <2>2. /\ event'[c] = conflicts + 1 /\ \A d \in Conns \ {c} : event'[d] = event[d]
        /\ \A d \in Conns \ {c} : place'[d] = place[d]
    BY DEF TakeoverInv, T!TypeOK, T!Conflict
  <2>3. /\ \A d \in Conns : event[d] # conflicts + 1
        /\ \A p \in Procs : failed[p] # conflicts + 1
    BY <2>1 DEF TakeoverInv, EventsInv, T!TypeOK, T!Events, T!None
  <2>4. disk # conflicts + 1
    BY <2>1 DEF TakeoverInv, EventsInv
  <2>5. ASSUME NEW d \in Conns, place'[d] \in {"latched", "settling"}
        PROVE  /\ event'[d] \in T!Events /\ event'[d] # disk
               /\ \A p \in Procs : failed[p] # event'[d]
               /\ \A b \in Conns \ {d} : event'[b] # event'[d]
    <3>1. CASE d = c
      BY <2>1, <2>2, <2>3, <2>4, <3>1
    <3>2. CASE d # c
      BY <2>2, <2>3, <2>5, <3>2 DEF TakeoverInv, UnsettledInv
    <3> QED
      BY <3>1, <3>2
  <2> QED
    BY <2>1, <2>5 DEF UnsettledInv
<1>4. SnapshotInv'
  BY DEF TakeoverInv, SnapshotInv, UnsettledInv, T!TypeOK, GenerationInv, T!Conflict,
         T!installVars, T!history, T!None, T!Unreadable, T!Unknown, T!Events
<1>5. FlagInv'
  BY DEF TakeoverInv, FlagInv, T!TypeOK, T!Conflict, T!installVars, T!history, T!None,
         T!Unreadable, T!Unknown, T!Events
<1>6. NoticeInv'
  BY DEF TakeoverInv, NoticeInv, FlagInv, T!TypeOK, T!Conflict, T!installVars, T!history,
         T!None, T!Unreadable, T!Unknown, T!Events
<1>7. GenerationInv' /\ DiskInv'
  BY DEF TakeoverInv, GenerationInv, DiskInv, T!Conflict, T!installVars, T!history
<1> QED
  BY <1>1, <1>2, <1>3, <1>4, <1>5, <1>6, <1>7 DEF TakeoverInv

LEMMA ReadGenerationKeeps ==
  ASSUME T!TakeoverConstants, TakeoverInv, NEW c \in Conns, T!ReadGeneration(c)
  PROVE  TakeoverInv'
<1>1. T!TypeOK'
  <2>1. event[c] \in T!Events
    BY DEF TakeoverInv, UnsettledInv, T!ReadGeneration
  <2>2. gen \in -1..MaxReclaims /\ T!Unknown \in -1..MaxReclaims /\ MaxFaults \in Nat
    BY DEF T!TakeoverConstants, TakeoverInv, T!TypeOK, T!Unknown
  <2>3. snapshot' \in [Conns -> -1..MaxReclaims] /\ blind' \subseteq T!Events
    BY <2>1, <2>2 DEF TakeoverInv, T!TypeOK, T!ReadGeneration
  <2>4. faults' \in 0..MaxFaults
    BY <2>2 DEF TakeoverInv, T!TypeOK, T!ReadGeneration
  <2> QED
    BY <2>3, <2>4 DEF TakeoverInv, T!TypeOK, T!ReadGeneration, T!installVars
<1>2. GenerationInv'
  <2>1. event[c] \in T!Events
    BY DEF TakeoverInv, UnsettledInv, T!ReadGeneration
  <2>2. blind = T!Events => blind' = T!Events
    BY <2>1 DEF TakeoverInv, T!TypeOK, T!ReadGeneration
  <2>3. began' = [began EXCEPT ![event[c]] = reclaims] /\ reclaims' = reclaims
    BY DEF T!ReadGeneration
  <2>4. \A e \in T!Events : began'[e] = began[e] \/ began'[e] = reclaims
    BY <2>3 DEF TakeoverInv, T!TypeOK
  <2>5. reclaims \in Int
    BY DEF TakeoverInv, T!TypeOK, T!TakeoverConstants
  <2>6. \A e \in T!Events : began'[e] <= reclaims
    BY <2>4, <2>5 DEF TakeoverInv, GenerationInv
  <2> QED
    BY <2>2, <2>3, <2>6 DEF TakeoverInv, GenerationInv, T!ReadGeneration, T!installVars
<1>3. UnsettledInv'
  BY DEF TakeoverInv, UnsettledInv, EventsInv, T!TypeOK, T!ReadGeneration, T!Unknown,
         T!installVars, T!None, T!Unreadable, T!Events
<1>4. SnapshotInv'
  <2>1. /\ event[c] \in T!Events
        /\ \A d \in Conns \ {c} : event[d] # event[c]
        /\ \A p \in Procs : failed[p] # event[c]
    BY DEF TakeoverInv, UnsettledInv, T!ReadGeneration
  <2>2. /\ event' = event /\ failed' = failed /\ failedGen' = failedGen
        /\ \A d \in Conns \ {c} : place'[d] = place[d] /\ snapshot'[d] = snapshot[d]
    BY DEF TakeoverInv, T!TypeOK, T!ReadGeneration, T!installVars
  <2>3. \/ blind' = blind /\ snapshot'[c] = gen
        \/ blind' = blind \cup {event[c]}
    BY DEF TakeoverInv, T!TypeOK, T!ReadGeneration
  <2>4. /\ began'[event[c]] = reclaims
        /\ \A e \in T!Events \ {event[c]} : began'[e] = began[e]
    BY <2>1 DEF TakeoverInv, T!TypeOK, T!ReadGeneration
  <2>5. event[c] \notin blind' => snapshot'[c] = began'[event[c]]
    BY <2>1, <2>3, <2>4 DEF TakeoverInv, GenerationInv
  <2>6. blind \subseteq blind'
    BY <2>3
  <2>7. ASSUME NEW d \in Conns, d # c, place'[d] = "settling", event'[d] \notin blind'
        PROVE  snapshot'[d] = began'[event'[d]]
    <3>1. place[d] = "settling" /\ event[d] \notin blind /\ snapshot'[d] = snapshot[d]
      BY <2>2, <2>6, <2>7
    <3>2. event[d] \in T!Events \ {event[c]}
      BY <2>1, <2>7, <3>1 DEF TakeoverInv, UnsettledInv
    <3> QED
      BY <2>2, <2>4, <3>1, <3>2 DEF TakeoverInv, SnapshotInv
  <2>8. \A p \in Procs : failed'[p] \in T!Events \ blind' => failedGen'[p] = began'[failed'[p]]
    BY <2>1, <2>2, <2>4, <2>6 DEF TakeoverInv, SnapshotInv
  <2> QED
    BY <2>2, <2>5, <2>7, <2>8 DEF SnapshotInv
<1>5. DiskInv'
  BY DEF TakeoverInv, DiskInv, GenerationInv, SnapshotInv, UnsettledInv, T!TypeOK,
         T!ReadGeneration, T!Unknown, T!installVars, T!None, T!Unreadable, T!Events
<1>6. FlagInv'
  BY DEF TakeoverInv, FlagInv, T!TypeOK, T!ReadGeneration, T!Unknown, T!installVars,
         T!None, T!Unreadable, T!Events
<1>7. NoticeInv'
  BY DEF TakeoverInv, NoticeInv, FlagInv, T!TypeOK, T!ReadGeneration, T!Unknown,
         T!installVars, T!None, T!Unreadable, T!Events
<1>8. EventsInv'
  BY DEF TakeoverInv, EventsInv, T!ReadGeneration, T!installVars
<1> QED
  BY <1>1, <1>2, <1>3, <1>4, <1>5, <1>6, <1>7, <1>8 DEF TakeoverInv

LEMMA RecordKeeps ==
  ASSUME T!TakeoverConstants, TakeoverInv, NEW c \in Conns, T!Record(c)
  PROVE  TakeoverInv'
<1>1. T!TypeOK'
  <2>1. ProcOf[c] \in Procs /\ event[c] \in T!Events
    BY DEF T!TakeoverConstants, TakeoverInv, UnsettledInv, T!Record
  <2>2. T!Notice(c) \in Notices
    BY <2>1 DEF T!Notice, Notices, TakeoverInv, T!TypeOK
  <2>3. /\ failed' \in [Procs -> T!Events \cup {T!None}]
        /\ failedGen' \in [Procs -> -1..MaxReclaims]
    BY <2>1 DEF T!Record, T!Remember, TakeoverInv, T!TypeOK
  <2>4. disk' \in T!Events \cup {T!None, T!Unreadable} /\ notices' \subseteq Notices
    <3>1. disk' = disk \/ disk' = event[c]
      BY DEF T!Record
    <3>2. notices' = notices \/ notices' = notices \cup {T!Notice(c)}
      BY DEF T!Record
    <3>3. disk \in T!Events \cup {T!None, T!Unreadable} /\ notices \subseteq Notices
      BY DEF TakeoverInv, T!TypeOK, Notices
    <3> QED
      BY <2>1, <2>2, <3>1, <3>2, <3>3
  <2>5. faults' \in 0..MaxFaults /\ place' \in [Conns -> Places]
    BY DEF T!Record, T!Standby, TakeoverInv, T!TypeOK, T!TakeoverConstants, Places
  <2> QED
    BY <2>3, <2>4, <2>5 DEF T!Record, TakeoverInv, T!TypeOK, T!history, Notices, Places
<1>2. EventsInv'
  BY DEF TakeoverInv, EventsInv, T!TypeOK, T!Record, T!Standby, T!Believed, T!None,
         T!Disk, T!Overtaken, T!Unknown, T!Notice, T!Remember, T!history, T!Unreadable,
         T!Events
<1>3. UnsettledInv'
  BY DEF TakeoverInv, UnsettledInv, EventsInv, T!TypeOK, T!Record, T!Standby, T!Believed,
         T!None, T!Disk, T!Overtaken, T!Unknown, T!Notice, T!Remember, T!history,
         T!Unreadable, T!Events
<1>4. SnapshotInv'
  <2>1. /\ place[c] = "settling" /\ event[c] \in T!Events /\ event[c] # disk
        /\ \A d \in Conns \ {c} : event[d] # event[c]
    BY DEF TakeoverInv, UnsettledInv, T!Record
  <2>2. /\ place' = [place EXCEPT ![c] = "standby"] /\ event' = event /\ blind' = blind
        /\ snapshot' = snapshot /\ began' = began /\ stood' = stood
        /\ \A d \in Conns : place'[d] \in {"latched", "settling"} => d # c /\ place[d] = place'[d]
    BY DEF TakeoverInv, T!TypeOK, T!Record, T!Standby, T!history
  <2>3. \A d \in Conns : place'[d] = "settling" /\ event'[d] \notin blind' =>
          snapshot'[d] = began'[event'[d]]
    BY <2>2 DEF TakeoverInv, SnapshotInv
  <2>4. \/ failed' = failed /\ failedGen' = failedGen
        \/ T!Remember(c)
    BY DEF T!Record
  <2>5. ASSUME NEW p \in Procs, failed'[p] \in T!Events \ blind
        PROVE  failedGen'[p] = began[failed'[p]]
    <3>1. CASE failed' = failed /\ failedGen' = failedGen
      BY <2>5, <3>1 DEF TakeoverInv, SnapshotInv
    <3>2. CASE T!Remember(c)
      <4>1. CASE p = ProcOf[c]
        <5>1. failed'[p] = event[c] /\ failedGen'[p] = snapshot[c]
          BY <3>2, <4>1 DEF T!Remember, TakeoverInv, T!TypeOK
        <5> QED
          BY <2>1, <2>5, <5>1 DEF TakeoverInv, SnapshotInv
      <4>2. CASE p # ProcOf[c]
        <5>1. failed'[p] = failed[p] /\ failedGen'[p] = failedGen[p]
          BY <3>2, <4>2 DEF T!Remember, TakeoverInv, T!TypeOK
        <5> QED
          BY <2>5, <5>1 DEF TakeoverInv, SnapshotInv
      <4> QED
        BY <4>1, <4>2
    <3> QED
      BY <2>4, <3>1, <3>2
  <2> QED
    BY <2>2, <2>3, <2>5 DEF SnapshotInv
<1>5. DiskInv'
  <2>1. /\ place[c] = "settling" /\ event[c] \in T!Events /\ event[c] # disk
        /\ \A d \in Conns \ {c} : event[d] # event[c]
    BY DEF TakeoverInv, UnsettledInv, T!Record
  <2>2. blind' = blind /\ began' = began /\ stood' = stood
    BY DEF T!Record, T!history
  <2>3. \/ disk' = disk
        \/ disk' = event[c] /\ ~T!Overtaken(snapshot[c])
    BY DEF T!Record
  <2>4. CASE disk' = disk
    BY <2>2, <2>4 DEF TakeoverInv, DiskInv
  <2>5. CASE disk' = event[c] /\ ~T!Overtaken(snapshot[c]) /\ event[c] \notin blind
    <3>1. snapshot[c] = began[event[c]] /\ began[event[c]] \in 0..MaxReclaims
      BY <2>1, <2>5 DEF TakeoverInv, SnapshotInv, T!TypeOK
    <3>2. gen = reclaims /\ stood <= reclaims /\ reclaims \in Nat /\ stood \in Nat
      BY <2>1, <2>5 DEF TakeoverInv, GenerationInv, T!TypeOK, T!TakeoverConstants
    <3>3. gen = 0 \/ gen = snapshot[c]
      BY <2>5, <3>1 DEF T!Overtaken, T!Unknown, T!None
    <3>4. began[event[c]] >= stood
      BY <3>1, <3>2, <3>3
    <3> QED
      BY <2>2, <2>5, <3>4 DEF DiskInv
  <2>6. CASE disk' = event[c] /\ event[c] \in blind
    BY <2>2, <2>6 DEF DiskInv
  <2> QED
    BY <2>3, <2>4, <2>5, <2>6
<1>6. FlagInv'
  BY DEF TakeoverInv, FlagInv, T!TypeOK, T!Record, T!Standby, T!Believed, T!None, T!Disk,
         T!Overtaken, T!Unknown, T!Notice, T!Remember, T!history, T!Unreadable, T!Events
<1>7. NoticeInv'
  <2>1. /\ place' = [place EXCEPT ![c] = "standby"] /\ reclaims' = reclaims /\ told' = told
        /\ guard' = guard /\ guard = "free" /\ place[c] = "settling" /\ event[c] \in T!Events
    BY DEF T!Record, T!Standby, T!history, TakeoverInv, UnsettledInv
  <2>2. CASE disk' = disk /\ notices' = notices
    BY <2>1, <2>2 DEF TakeoverInv, NoticeInv, T!TypeOK
  <2>3. CASE disk = T!None /\ disk' = event[c] /\ notices' = notices \cup {T!Notice(c)}
    <3> DEFINE new == T!Notice(c)
    <3>1. new.conn = c /\ new.epoch = reclaims /\ notices' = notices \cup {new}
      BY <2>3 DEF T!Notice
    <3> HIDE DEF new
    <3>2. disk' # T!None
      BY <2>1, <2>3 DEF T!Events, T!None
    <3>3. \A r \in notices \cup told : r.epoch <= reclaims /\ r.epoch # reclaims
      BY <2>3 DEF TakeoverInv, NoticeInv
    <3>4. \A n \in notices' : place'[n.conn] = "standby"
      BY <2>1, <2>3, <3>1 DEF TakeoverInv, NoticeInv, T!TypeOK
    <3>5. \A r \in notices' \cup told : r.epoch <= reclaims
      <4>1. reclaims <= reclaims
        BY DEF TakeoverInv, T!TypeOK, T!TakeoverConstants
      <4> QED
        BY <2>3, <3>1, <3>3, <4>1
    <3>6. /\ \A n, m \in notices' : n.epoch = m.epoch => n = m
          /\ \A n \in notices', t \in told : n.epoch = t.epoch => n.at = "done"
      BY <2>3, <3>1, <3>3 DEF TakeoverInv, NoticeInv
    <3>7. \A t, u \in told : t.epoch = u.epoch => t = u
      BY DEF TakeoverInv, NoticeInv
    <3> QED
      BY <2>1, <3>2, <3>4, <3>5, <3>6, <3>7 DEF NoticeInv
  <2> QED
    BY <2>2, <2>3 DEF T!Record, T!Believed, T!Disk
<1>8. GenerationInv'
  BY DEF TakeoverInv, GenerationInv, T!Record, T!history
<1> QED
  BY <1>1, <1>2, <1>3, <1>4, <1>5, <1>6, <1>7, <1>8 DEF TakeoverInv

LEMMA RecordUnlockedKeeps ==
  ASSUME T!TakeoverConstants, TakeoverInv, NEW c \in Conns, T!RecordUnlocked(c)
  PROVE  TakeoverInv'
<1>1. T!TypeOK'
  <2>1. ProcOf[c] \in Procs /\ event[c] \in T!Events
    BY DEF T!TakeoverConstants, TakeoverInv, UnsettledInv, T!RecordUnlocked
  <2>2. /\ failed' \in [Procs -> T!Events \cup {T!None}]
        /\ failedGen' \in [Procs -> -1..MaxReclaims]
    BY <2>1 DEF T!RecordUnlocked, T!Remember, TakeoverInv, T!TypeOK
  <2>3. faults' \in 0..MaxFaults /\ place' \in [Conns -> Places]
    BY DEF T!RecordUnlocked, T!Standby, TakeoverInv, T!TypeOK, T!TakeoverConstants, Places
  <2> QED
    BY <2>2, <2>3 DEF T!RecordUnlocked, TakeoverInv, T!TypeOK, T!history, Places
<1>2. EventsInv'
  BY DEF TakeoverInv, EventsInv, T!TypeOK, T!RecordUnlocked, T!Standby, T!Believed,
         T!None, T!Disk, T!Remember, T!history, T!Unreadable, T!Unknown, T!Events
<1>3. UnsettledInv'
  <2>1. /\ place[c] = "settling" /\ event[c] \in T!Events /\ event[c] # disk
        /\ \A d \in Conns \ {c} : event[d] # event[c]
    BY DEF TakeoverInv, UnsettledInv, T!RecordUnlocked
  <2>2. /\ event' = event /\ disk' = disk
        /\ \A d \in Conns : place'[d] \in {"latched", "settling"} => d # c /\ place[d] = place'[d]
    BY DEF TakeoverInv, T!TypeOK, T!RecordUnlocked, T!Standby
  <2>3. \A p \in Procs : failed'[p] = failed[p] \/ failed'[p] = event[c]
    BY DEF TakeoverInv, T!TypeOK, T!RecordUnlocked, T!Remember
  <2> QED
    BY <2>1, <2>2, <2>3 DEF TakeoverInv, UnsettledInv
<1>4. SnapshotInv'
  <2>1. /\ place[c] = "settling" /\ event[c] \in T!Events /\ event[c] # disk
        /\ \A d \in Conns \ {c} : event[d] # event[c]
    BY DEF TakeoverInv, UnsettledInv, T!RecordUnlocked
  <2>2. /\ place' = [place EXCEPT ![c] = "standby"] /\ event' = event /\ blind' = blind
        /\ snapshot' = snapshot /\ began' = began /\ stood' = stood
        /\ \A d \in Conns : place'[d] \in {"latched", "settling"} => d # c /\ place[d] = place'[d]
    BY DEF TakeoverInv, T!TypeOK, T!RecordUnlocked, T!Standby, T!history
  <2>3. \A d \in Conns : place'[d] = "settling" /\ event'[d] \notin blind' =>
          snapshot'[d] = began'[event'[d]]
    BY <2>2 DEF TakeoverInv, SnapshotInv
  <2>4. \/ failed' = failed /\ failedGen' = failedGen
        \/ T!Remember(c)
    BY DEF T!RecordUnlocked
  <2>5. ASSUME NEW p \in Procs, failed'[p] \in T!Events \ blind
        PROVE  failedGen'[p] = began[failed'[p]]
    <3>1. CASE failed' = failed /\ failedGen' = failedGen
      BY <2>5, <3>1 DEF TakeoverInv, SnapshotInv
    <3>2. CASE T!Remember(c)
      <4>1. CASE p = ProcOf[c]
        <5>1. failed'[p] = event[c] /\ failedGen'[p] = snapshot[c]
          BY <3>2, <4>1 DEF T!Remember, TakeoverInv, T!TypeOK
        <5> QED
          BY <2>1, <2>5, <5>1 DEF TakeoverInv, SnapshotInv
      <4>2. CASE p # ProcOf[c]
        <5>1. failed'[p] = failed[p] /\ failedGen'[p] = failedGen[p]
          BY <3>2, <4>2 DEF T!Remember, TakeoverInv, T!TypeOK
        <5> QED
          BY <2>5, <5>1 DEF TakeoverInv, SnapshotInv
      <4> QED
        BY <4>1, <4>2
    <3> QED
      BY <2>4, <3>1, <3>2
  <2> QED
    BY <2>2, <2>3, <2>5 DEF SnapshotInv
<1>5. FlagInv'
  BY DEF TakeoverInv, FlagInv, T!TypeOK, T!RecordUnlocked, T!Standby, T!Believed, T!None,
         T!Disk, T!Remember, T!history, T!Unreadable, T!Unknown, T!Events
<1>6. NoticeInv'
  BY DEF TakeoverInv, NoticeInv, FlagInv, T!TypeOK, T!RecordUnlocked, T!Standby,
         T!Believed, T!None, T!Disk, T!Remember, T!history, T!Unreadable, T!Unknown,
         T!Events
<1>7. GenerationInv' /\ DiskInv'
  BY DEF TakeoverInv, GenerationInv, DiskInv, T!RecordUnlocked, T!history
<1> QED
  BY <1>1, <1>2, <1>3, <1>4, <1>5, <1>6, <1>7 DEF TakeoverInv

LEMMA CheckKeeps ==
  ASSUME T!TakeoverConstants, TakeoverInv, NEW c \in Conns, T!Check(c)
  PROVE  TakeoverInv'
<1>1. T!TypeOK'
  <2>1. ProcOf[c] \in Procs /\ T!None \in -1..MaxReclaims /\ T!Unknown \in -1..MaxReclaims
    BY DEF T!TakeoverConstants, T!None, T!Unknown
  <2>2. failed' \in [Procs -> T!Events \cup {T!None}] /\ failedGen' \in [Procs -> -1..MaxReclaims]
    BY <2>1 DEF T!Check, TakeoverInv, T!TypeOK
  <2>3. /\ place' \in [Conns -> Places] /\ flag' \in [Conns -> BOOLEAN]
        /\ event' \in [Conns -> T!Events \cup {T!None}] /\ snapshot' \in [Conns -> -1..MaxReclaims]
        /\ notices' \subseteq Notices
    BY <2>1 DEF T!Check, TakeoverInv, T!TypeOK, T!Cancelled, Places, Notices
  <2> QED
    BY <2>2, <2>3 DEF T!Check, TakeoverInv, T!TypeOK, T!counters, T!history, Notices, Places
<1>2. EventsInv'
  <2>1. disk' = disk /\ conflicts' = conflicts /\ conflicts \in Nat
    BY DEF T!Check, T!counters, TakeoverInv, T!TypeOK, T!TakeoverConstants
  <2>2. \A p \in Procs : failed'[p] = failed[p] \/ failed'[p] = 0
    BY DEF T!Check, T!Released, T!None, TakeoverInv, T!TypeOK
  <2>3. \A d \in Conns : event'[d] = event[d] \/ event'[d] = 0
    BY DEF T!Check, T!None, TakeoverInv, T!TypeOK
  <2>4. 0 <= conflicts
    BY <2>1
  <2> QED
    BY <2>1, <2>2, <2>3, <2>4 DEF TakeoverInv, EventsInv
<1>3. UnsettledInv'
  <2>1. disk' = disk /\ 0 \notin T!Events
    BY DEF T!Check, T!Events
  <2>2. \A d \in Conns : place'[d] \in {"latched", "settling"} =>
          d # c /\ place[d] = place'[d] /\ event'[d] = event[d]
    BY DEF T!Check, TakeoverInv, T!TypeOK
  <2>3. \A d \in Conns : event'[d] = event[d] \/ event'[d] = 0
    BY DEF T!Check, T!None, TakeoverInv, T!TypeOK
  <2>4. \A p \in Procs : failed'[p] = failed[p] \/ failed'[p] = 0
    BY DEF T!Check, T!Released, T!None, TakeoverInv, T!TypeOK
  <2> QED
    BY <2>1, <2>2, <2>3, <2>4 DEF TakeoverInv, UnsettledInv
<1>4. SnapshotInv'
  <2>1. blind' = blind /\ began' = began /\ 0 \notin T!Events
    BY DEF T!Check, T!history, T!Events
  <2>2. \A d \in Conns : place'[d] = "settling" =>
          d # c /\ place[d] = "settling" /\ event'[d] = event[d] /\ snapshot'[d] = snapshot[d]
    BY DEF T!Check, TakeoverInv, T!TypeOK
  <2>3. \A p \in Procs : \/ failed'[p] = failed[p] /\ failedGen'[p] = failedGen[p]
                         \/ failed'[p] = 0
    <3>1. ASSUME NEW p \in Procs, ~(p = ProcOf[c] /\ T!Released(p))
          PROVE  failed'[p] = failed[p] /\ failedGen'[p] = failedGen[p]
      BY <3>1 DEF T!Check, TakeoverInv, T!TypeOK
    <3>2. ASSUME NEW p \in Procs, p = ProcOf[c] /\ T!Released(p)
          PROVE  failed'[p] = 0
      BY <3>2 DEF T!Check, TakeoverInv, T!TypeOK, T!None
    <3> QED
      BY <3>1, <3>2
  <2>4. \A d \in Conns : place'[d] = "settling" /\ event'[d] \notin blind =>
          snapshot'[d] = began[event'[d]]
    BY <2>2 DEF TakeoverInv, SnapshotInv
  <2>5. \A p \in Procs : failed'[p] \in T!Events \ blind => failedGen'[p] = began[failed'[p]]
    BY <2>1, <2>3 DEF TakeoverInv, SnapshotInv
  <2> QED
    BY <2>1, <2>4, <2>5 DEF SnapshotInv
<1>5. FlagInv'
  <2>1. \A d \in Conns : d # c => place'[d] = place[d] /\ flag'[d] = flag[d]
    BY DEF T!Check, TakeoverInv, T!TypeOK
  <2>2. \/ place'[c] = "up"
        \/ place'[c] = "standby" /\ flag'[c]
    BY DEF T!Check, TakeoverInv, T!TypeOK
  <2> QED
    BY <2>1, <2>2 DEF TakeoverInv, FlagInv
<1>6. NoticeInv'
  BY DEF TakeoverInv, NoticeInv, FlagInv, T!TypeOK, T!Check, T!Released, T!None,
         T!Overtaken, T!Unknown, T!Disk, T!Cancelled, T!counters, T!history, T!Unreadable,
         T!Events
<1>7. GenerationInv' /\ DiskInv'
  BY DEF TakeoverInv, GenerationInv, DiskInv, T!Check, T!counters, T!history
<1> QED
  BY <1>1, <1>2, <1>3, <1>4, <1>5, <1>6, <1>7 DEF TakeoverInv

LEMMA LoseKeeps ==
  ASSUME T!TakeoverConstants, TakeoverInv, NEW c \in Conns, T!Lose(c)
  PROVE  TakeoverInv'
<1>1. T!TypeOK'
  <2>1. place' \in [Conns -> Places]
    BY DEF TakeoverInv, T!TypeOK, T!Lose, Places, T!TakeoverConstants
  <2>2. UNCHANGED <<disk, gen, guard, failed, failedGen, flag, event, snapshot,
                    refreshing, notices, conflicts, reclaims, faults, restarts,
                    began, blind, stood, told>>
    BY DEF T!Lose, T!installVars, T!counters, T!history
  <2> QED
    BY <2>1, <2>2 DEF TakeoverInv, T!TypeOK, Notices, Places, Tellings
<1>2. UnsettledInv'
  BY DEF TakeoverInv, UnsettledInv, EventsInv, T!TypeOK, T!Lose, T!installVars,
         T!counters, T!history, T!None, T!Unreadable, T!Unknown, T!Events
<1>3. SnapshotInv'
  BY DEF TakeoverInv, SnapshotInv, UnsettledInv, T!TypeOK, GenerationInv, T!Lose,
         T!installVars, T!counters, T!history, T!None, T!Unreadable, T!Unknown, T!Events
<1>4. FlagInv'
  BY DEF TakeoverInv, FlagInv, T!TypeOK, T!Lose, T!installVars, T!counters, T!history,
         T!None, T!Unreadable, T!Unknown, T!Events
<1>5. NoticeInv'
  BY DEF TakeoverInv, NoticeInv, FlagInv, T!TypeOK, T!Lose, T!installVars, T!counters,
         T!history, T!None, T!Unreadable, T!Unknown, T!Events
<1>6. GenerationInv' /\ EventsInv' /\ DiskInv'
  BY DEF TakeoverInv, GenerationInv, EventsInv, DiskInv, T!Lose, T!installVars,
         T!counters, T!history
<1> QED
  BY <1>1, <1>2, <1>3, <1>4, <1>5, <1>6 DEF TakeoverInv

LEMMA RefreshStartsKeeps ==
  ASSUME T!TakeoverConstants, TakeoverInv, NEW c \in Conns, T!RefreshStarts(c)
  PROVE  TakeoverInv'
<1>1. T!TypeOK'
  <2>1. refreshing' \in [Conns -> BOOLEAN]
    BY DEF TakeoverInv, T!TypeOK, T!RefreshStarts, T!Blocked, T!Same, T!Believed, T!None,
           T!Disk
  <2>2. UNCHANGED <<disk, gen, guard, failed, failedGen, place, flag, event, snapshot,
                    notices, conflicts, reclaims, faults, restarts, began, blind,
                    stood, told>>
    BY DEF T!RefreshStarts, T!installVars, T!counters, T!history
  <2> QED
    BY <2>1, <2>2 DEF TakeoverInv, T!TypeOK, Notices, Places, Tellings
<1>2. /\ GenerationInv' /\ EventsInv' /\ UnsettledInv' /\ SnapshotInv'
      /\ DiskInv' /\ FlagInv' /\ NoticeInv'
  BY DEF TakeoverInv, GenerationInv, EventsInv, UnsettledInv, SnapshotInv, DiskInv, FlagInv,
         NoticeInv, T!RefreshStarts, T!installVars, T!counters, T!history
<1> QED
  BY <1>1, <1>2 DEF TakeoverInv

LEMMA RefreshEndsKeeps ==
  ASSUME T!TakeoverConstants, TakeoverInv, NEW c \in Conns, T!RefreshEnds(c)
  PROVE  TakeoverInv'
<1>1. T!TypeOK'
  <2>1. refreshing' \in [Conns -> BOOLEAN]
    BY DEF TakeoverInv, T!TypeOK, T!RefreshEnds
  <2>2. UNCHANGED <<disk, gen, guard, failed, failedGen, place, flag, event, snapshot,
                    notices, conflicts, reclaims, faults, restarts, began, blind,
                    stood, told>>
    BY DEF T!RefreshEnds, T!installVars, T!counters, T!history
  <2> QED
    BY <2>1, <2>2 DEF TakeoverInv, T!TypeOK, Notices, Places, Tellings
<1>2. /\ GenerationInv' /\ EventsInv' /\ UnsettledInv' /\ SnapshotInv'
      /\ DiskInv' /\ FlagInv' /\ NoticeInv'
  BY DEF TakeoverInv, GenerationInv, EventsInv, UnsettledInv, SnapshotInv, DiskInv, FlagInv,
         NoticeInv, T!RefreshEnds, T!installVars, T!counters, T!history
<1> QED
  BY <1>1, <1>2 DEF TakeoverInv

LEMMA NoticeChecksKeeps ==
  ASSUME T!TakeoverConstants, TakeoverInv, NEW n \in notices, T!NoticeChecks(n)
  PROVE  TakeoverInv'
<1>1. T!TypeOK'
  <2>1. notices' \subseteq Notices
    BY DEF TakeoverInv, T!TypeOK, T!NoticeChecks, T!At, T!Disk, Notices
  <2>2. UNCHANGED <<disk, gen, guard, failed, failedGen, place, flag, event, snapshot,
                    refreshing, conflicts, reclaims, faults, restarts, began, blind,
                    stood, told>>
    BY DEF T!NoticeChecks, T!installVars, T!connVars, T!counters, T!history
  <2> QED
    BY <2>1, <2>2 DEF TakeoverInv, T!TypeOK, Notices, Places, Tellings
<1>2. NoticeInv'
  <2>1. PICK there \in {"checking", "rechecking", "sending", "done"} : notices' = T!At(n, there)
    BY DEF T!NoticeChecks
  <2>2. /\ told' = told /\ n.at # "done"
        /\ UNCHANGED <<reclaims, guard, disk, place>>
    BY DEF T!NoticeChecks, T!installVars, T!connVars, T!counters, T!history
  <2> QED
    BY <2>1, <2>2, NoticeMoves DEF TakeoverInv
<1>3. /\ GenerationInv' /\ EventsInv' /\ UnsettledInv' /\ SnapshotInv'
      /\ DiskInv' /\ FlagInv'
  BY DEF TakeoverInv, GenerationInv, EventsInv, UnsettledInv, SnapshotInv, DiskInv, FlagInv,
         T!NoticeChecks, T!installVars, T!connVars, T!counters, T!history
<1> QED
  BY <1>1, <1>2, <1>3 DEF TakeoverInv

LEMMA NoticeSentKeeps ==
  ASSUME T!TakeoverConstants, TakeoverInv, NEW n \in notices, T!NoticeSent(n)
  PROVE  TakeoverInv'
<1>1. T!TypeOK'
  <2>1. n \in Notices
    BY DEF TakeoverInv, T!TypeOK, Notices
  <2>2. [event |-> n.event, conn |-> n.conn, epoch |-> n.epoch] \in Tellings
    BY <2>1 DEF Notices, Tellings
  <2>3. notices' \subseteq Notices /\ told' \subseteq Tellings
    BY <2>1, <2>2 DEF TakeoverInv, T!TypeOK, T!NoticeSent, T!At, Notices, Tellings
  <2> QED
    BY <2>3 DEF TakeoverInv, T!TypeOK, T!NoticeSent, T!installVars, T!connVars,
       T!counters, Notices, Tellings
<1>2. NoticeInv'
  <2> DEFINE t == [event |-> n.event, conn |-> n.conn, epoch |-> n.epoch]
             new == [n EXCEPT !.at = "done"]
  <2>1. /\ n.at = "sending" /\ notices' = (notices \ {n}) \cup {new} /\ told' = told \cup {t}
        /\ UNCHANGED <<reclaims, guard, disk, place>>
    BY DEF T!NoticeSent, T!At, T!installVars, T!connVars, T!counters
  <2>2. n \in Notices
    BY DEF TakeoverInv, T!TypeOK, Notices
  <2>3. new.epoch = n.epoch /\ new.conn = n.conn /\ new.at = "done" /\ t.epoch = n.epoch
    BY <2>2 DEF Notices
  <2> HIDE DEF t, new
  <2>4. \A u \in told : u.epoch # n.epoch
    BY <2>1 DEF TakeoverInv, NoticeInv
  <2>5. \A m \in notices \ {n} : m.epoch # n.epoch
    BY DEF TakeoverInv, NoticeInv
  <2>6. \A m \in notices' : place'[m.conn] = "standby"
    BY <2>1, <2>3 DEF TakeoverInv, NoticeInv
  <2>7. \A r \in notices' \cup told' :
          r.epoch <= reclaims' /\ (r.epoch = reclaims' => guard' = "free" /\ disk' # T!None)
    BY <2>1, <2>3 DEF TakeoverInv, NoticeInv
  <2>8. \A m, k \in notices' : m.epoch = k.epoch => m = k
    BY <2>1, <2>3, <2>5 DEF TakeoverInv, NoticeInv
  <2>9. \A u, v \in told' : u.epoch = v.epoch => u = v
    BY <2>1, <2>3, <2>4 DEF TakeoverInv, NoticeInv
  <2>10. \A m \in notices', u \in told' : m.epoch = u.epoch => m.at = "done"
    BY <2>1, <2>3, <2>5 DEF TakeoverInv, NoticeInv
  <2> QED
    BY <2>6, <2>7, <2>8, <2>9, <2>10 DEF NoticeInv
<1>3. /\ GenerationInv' /\ EventsInv' /\ UnsettledInv' /\ SnapshotInv'
      /\ DiskInv' /\ FlagInv'
  BY DEF TakeoverInv, GenerationInv, EventsInv, UnsettledInv, SnapshotInv, DiskInv, FlagInv,
         T!NoticeSent, T!installVars, T!connVars, T!counters
<1> QED
  BY <1>1, <1>2, <1>3 DEF TakeoverInv

LEMMA NoticeFailsKeeps ==
  ASSUME T!TakeoverConstants, TakeoverInv, NEW n \in notices, T!NoticeFails(n)
  PROVE  TakeoverInv'
<1>1. T!TypeOK'
  <2>1. notices' \subseteq Notices
    BY DEF TakeoverInv, T!TypeOK, T!NoticeFails, T!At, Notices
  <2>2. UNCHANGED <<disk, gen, guard, failed, failedGen, place, flag, event, snapshot,
                    refreshing, conflicts, reclaims, faults, restarts, began, blind,
                    stood, told>>
    BY DEF T!NoticeFails, T!installVars, T!connVars, T!counters, T!history
  <2> QED
    BY <2>1, <2>2 DEF TakeoverInv, T!TypeOK, Notices, Places, Tellings
<1>2. NoticeInv'
  <2>1. PICK there \in {"checking", "rechecking", "sending", "done"} : notices' = T!At(n, there)
    BY DEF T!NoticeFails
  <2>2. /\ told' = told /\ n.at # "done"
        /\ UNCHANGED <<reclaims, guard, disk, place>>
    BY DEF T!NoticeFails, T!installVars, T!connVars, T!counters, T!history
  <2> QED
    BY <2>1, <2>2, NoticeMoves DEF TakeoverInv
<1>3. /\ GenerationInv' /\ EventsInv' /\ UnsettledInv' /\ SnapshotInv'
      /\ DiskInv' /\ FlagInv'
  BY DEF TakeoverInv, GenerationInv, EventsInv, UnsettledInv, SnapshotInv, DiskInv, FlagInv,
         T!NoticeFails, T!installVars, T!connVars, T!counters, T!history
<1> QED
  BY <1>1, <1>2, <1>3 DEF TakeoverInv

LEMMA NoticeNotedKeeps ==
  ASSUME T!TakeoverConstants, TakeoverInv, NEW n \in notices, T!NoticeNoted(n)
  PROVE  TakeoverInv'
<1>1. T!TypeOK'
  <2>1. disk' \in T!Events \cup {T!None, T!Unreadable}
    BY DEF TakeoverInv, T!TypeOK, T!NoticeNoted, T!Rewritten, T!Disk, T!None, T!Unreadable
  <2>2. notices' \subseteq Notices
    BY DEF TakeoverInv, T!TypeOK, T!NoticeNoted, T!Rewritten, T!Disk, Notices
  <2>3. UNCHANGED <<gen, guard, failed, failedGen, place, flag, event, snapshot,
                    refreshing, conflicts, reclaims, faults, restarts, began, blind,
                    stood, told>>
    BY DEF T!NoticeNoted, T!connVars, T!counters, T!history
  <2> QED
    BY <2>1, <2>2, <2>3 DEF TakeoverInv, T!TypeOK, Notices, Places, Tellings
<1>2. EventsInv'
  BY DEF TakeoverInv, EventsInv, T!TypeOK, T!NoticeNoted, T!Rewritten, T!Disk, T!connVars,
         T!counters, T!history, T!None, T!Unreadable, T!Unknown, T!Events
<1>3. UnsettledInv'
  BY DEF TakeoverInv, UnsettledInv, EventsInv, T!TypeOK, T!NoticeNoted, T!Rewritten,
         T!Disk, T!connVars, T!counters, T!history, T!None, T!Unreadable, T!Unknown,
         T!Events
<1>4. DiskInv'
  BY DEF TakeoverInv, DiskInv, GenerationInv, SnapshotInv, UnsettledInv, T!TypeOK,
         T!NoticeNoted, T!Rewritten, T!Disk, T!connVars, T!counters, T!history, T!None,
         T!Unreadable, T!Unknown, T!Events
<1>5. NoticeInv'
  BY DEF TakeoverInv, NoticeInv, FlagInv, T!TypeOK, T!NoticeNoted, T!Rewritten, T!Disk,
         T!connVars, T!counters, T!history, T!None, T!Unreadable, T!Unknown, T!Events
<1>6. GenerationInv' /\ SnapshotInv' /\ FlagInv'
  BY DEF TakeoverInv, GenerationInv, SnapshotInv, FlagInv, T!NoticeNoted, T!connVars,
         T!counters, T!history, T!Rewritten, T!Disk
<1> QED
  BY <1>1, <1>2, <1>3, <1>4, <1>5, <1>6 DEF TakeoverInv

LEMMA ReclaimKeeps ==
  ASSUME T!TakeoverConstants, TakeoverInv, NEW o \in Operators \cup Procs, T!Reclaim(o)
  PROVE  TakeoverInv'
<1>1. T!TypeOK'
  <2>1. reclaims + 1 \in 0..MaxReclaims
    BY DEF T!Reclaim, TakeoverInv, T!TypeOK, T!TakeoverConstants
  <2> QED
    BY <2>1 DEF T!Reclaim, TakeoverInv, T!TypeOK, T!connVars, T!history
<1>2. GenerationInv'
  <2>1. /\ reclaims \in Nat /\ stood \in Int /\ \A e \in T!Events : began[e] \in Int
        /\ gen' = reclaims + 1 /\ reclaims' = reclaims + 1
        /\ blind' = blind /\ stood' = stood /\ began' = began
    BY DEF T!Reclaim, T!history, TakeoverInv, T!TypeOK, T!TakeoverConstants
  <2> QED
    BY <2>1 DEF TakeoverInv, GenerationInv
<1>3. NoticeInv'
  BY DEF TakeoverInv, NoticeInv, FlagInv, T!TypeOK, T!Reclaim, T!connVars, T!history,
         T!None, T!Unreadable, T!Unknown, T!Events
<1>4. /\ EventsInv' /\ UnsettledInv' /\ SnapshotInv' /\ DiskInv'
      /\ FlagInv'
  BY DEF TakeoverInv, EventsInv, UnsettledInv, SnapshotInv, DiskInv, FlagInv, T!Reclaim,
         T!connVars, T!history
<1> QED
  BY <1>1, <1>2, <1>3, <1>4 DEF TakeoverInv

LEMMA ReclaimedKeeps ==
  ASSUME T!TakeoverConstants, TakeoverInv, NEW o \in Operators \cup Procs, T!Reclaimed(o)
  PROVE  TakeoverInv'
<1>1. T!TypeOK'
  <2>1. disk' \in T!Events \cup {T!None, T!Unreadable}
    BY DEF TakeoverInv, T!TypeOK, T!Reclaimed, T!None, T!Cancelled
  <2>2. guard' \in {"free"} \cup Operators \cup Procs
    BY DEF TakeoverInv, T!TypeOK, T!Reclaimed, T!None, T!Cancelled
  <2>3. failed' \in [Procs -> T!Events \cup {T!None}]
    BY DEF TakeoverInv, T!TypeOK, T!Reclaimed, T!None, T!Cancelled, T!TakeoverConstants
  <2>4. failedGen' \in [Procs -> -1..MaxReclaims]
    BY DEF TakeoverInv, T!TypeOK, T!Reclaimed, T!None, T!Cancelled, T!Unknown,
           T!TakeoverConstants
  <2>5. notices' \subseteq Notices
    BY DEF TakeoverInv, T!TypeOK, T!Reclaimed, T!None, T!Cancelled, Notices
  <2>6. stood' \in 0..MaxReclaims
    BY DEF TakeoverInv, T!TypeOK, T!Reclaimed, T!None, T!Cancelled, T!TakeoverConstants
  <2>7. UNCHANGED <<gen, place, flag, event, snapshot, refreshing, conflicts, reclaims,
                    faults, restarts, began, blind, told>>
    BY DEF T!Reclaimed, T!connVars, T!counters
  <2> QED
    BY <2>1, <2>2, <2>3, <2>4, <2>5, <2>6, <2>7 DEF TakeoverInv, T!TypeOK, Notices, Places,
                                                    Tellings
<1>2. GenerationInv'
  BY DEF TakeoverInv, GenerationInv, T!TypeOK, T!Reclaimed, T!None, T!Cancelled,
         T!connVars, T!counters, T!Unreadable, T!Unknown, T!Events
<1>3. EventsInv'
  BY DEF TakeoverInv, EventsInv, T!TypeOK, T!Reclaimed, T!None, T!Cancelled, T!connVars,
         T!counters, T!Unreadable, T!Unknown, T!Events
<1>4. UnsettledInv'
  BY DEF TakeoverInv, UnsettledInv, EventsInv, T!TypeOK, T!Reclaimed, T!None, T!Cancelled,
         T!connVars, T!counters, T!Unreadable, T!Unknown, T!Events
<1>5. SnapshotInv'
  BY DEF TakeoverInv, SnapshotInv, UnsettledInv, T!TypeOK, GenerationInv, T!Reclaimed,
         T!None, T!Cancelled, T!connVars, T!counters, T!Unreadable, T!Unknown, T!Events
<1>6. DiskInv'
  BY DEF TakeoverInv, DiskInv, GenerationInv, SnapshotInv, UnsettledInv, T!TypeOK,
         T!Reclaimed, T!None, T!Cancelled, T!connVars, T!counters, T!Unreadable,
         T!Unknown, T!Events
<1>7. NoticeInv'
  <2>1. /\ guard = o /\ o # "free" /\ notices' \subseteq notices
        /\ UNCHANGED <<reclaims, told, place>>
    BY DEF T!Reclaimed, T!Cancelled, T!connVars, T!counters, T!TakeoverConstants
  <2>2. \A r \in notices \cup told : r.epoch <= reclaims /\ r.epoch # reclaims
    BY <2>1 DEF TakeoverInv, NoticeInv
  <2>3. \A r \in notices' \cup told' :
          r.epoch <= reclaims' /\ (r.epoch = reclaims' => guard' = "free" /\ disk' # T!None)
    BY <2>1, <2>2
  <2> QED
    BY <2>1, <2>3 DEF TakeoverInv, NoticeInv
<1>8. FlagInv'
  BY DEF TakeoverInv, FlagInv, T!Reclaimed, T!connVars, T!counters
<1> QED
  BY <1>1, <1>2, <1>3, <1>4, <1>5, <1>6, <1>7, <1>8 DEF TakeoverInv

LEMMA ReclaimDiesKeeps ==
  ASSUME T!TakeoverConstants, TakeoverInv, NEW o \in Operators \cup Procs, T!ReclaimDies(o)
  PROVE  TakeoverInv'
<1>1. T!TypeOK'
  <2>1. guard' \in {"free"} \cup Operators \cup Procs
    BY DEF TakeoverInv, T!TypeOK, T!ReclaimDies
  <2>2. faults' \in 0..MaxFaults
    BY DEF TakeoverInv, T!TypeOK, T!ReclaimDies, T!TakeoverConstants
  <2>3. UNCHANGED <<disk, gen, failed, failedGen, place, flag, event, snapshot,
                    refreshing, notices, conflicts, reclaims, restarts, began, blind,
                    stood, told>>
    BY DEF T!ReclaimDies, T!connVars, T!history
  <2> QED
    BY <2>1, <2>2, <2>3 DEF TakeoverInv, T!TypeOK, Notices, Places, Tellings
<1>2. GenerationInv'
  BY DEF TakeoverInv, GenerationInv, T!TypeOK, T!ReclaimDies, T!connVars, T!history,
         T!None, T!Unreadable, T!Unknown, T!Events
<1>3. NoticeInv'
  BY DEF TakeoverInv, NoticeInv, FlagInv, T!TypeOK, T!ReclaimDies, T!connVars, T!history,
         T!None, T!Unreadable, T!Unknown, T!Events
<1>4. /\ EventsInv' /\ UnsettledInv' /\ SnapshotInv' /\ DiskInv'
      /\ FlagInv'
  BY DEF TakeoverInv, EventsInv, UnsettledInv, SnapshotInv, DiskInv, FlagInv, T!ReclaimDies,
         T!connVars, T!history
<1> QED
  BY <1>1, <1>2, <1>3, <1>4 DEF TakeoverInv

LEMMA GenerationVanishesKeeps ==
  ASSUME T!TakeoverConstants, TakeoverInv, T!GenerationVanishes
  PROVE  TakeoverInv'
<1>1. T!TypeOK'
  <2>1. gen' \in 0..MaxReclaims
    BY DEF TakeoverInv, T!TypeOK, T!GenerationVanishes, T!None, T!Events,
           T!TakeoverConstants
  <2>2. faults' \in 0..MaxFaults
    BY DEF TakeoverInv, T!TypeOK, T!GenerationVanishes, T!None, T!Events,
           T!TakeoverConstants
  <2>3. blind' \subseteq T!Events
    BY DEF TakeoverInv, T!TypeOK, T!GenerationVanishes, T!None, T!Events
  <2>4. UNCHANGED <<disk, guard, failed, failedGen, place, flag, event, snapshot,
                    refreshing, notices, conflicts, reclaims, restarts, began, stood,
                    told>>
    BY DEF T!GenerationVanishes, T!connVars
  <2> QED
    BY <2>1, <2>2, <2>3, <2>4 DEF TakeoverInv, T!TypeOK, Notices, Places, Tellings
<1>2. GenerationInv'
  BY DEF TakeoverInv, GenerationInv, T!TypeOK, T!GenerationVanishes, T!None, T!Events,
         T!connVars, T!Unreadable, T!Unknown
<1>3. SnapshotInv'
  BY DEF TakeoverInv, SnapshotInv, UnsettledInv, T!TypeOK, GenerationInv,
         T!GenerationVanishes, T!None, T!Events, T!connVars, T!Unreadable, T!Unknown
<1>4. DiskInv'
  BY DEF TakeoverInv, DiskInv, GenerationInv, SnapshotInv, UnsettledInv, T!TypeOK,
         T!GenerationVanishes, T!None, T!Events, T!connVars, T!Unreadable, T!Unknown
<1>5. EventsInv' /\ UnsettledInv' /\ FlagInv' /\ NoticeInv'
  BY DEF TakeoverInv, EventsInv, UnsettledInv, FlagInv, NoticeInv, T!GenerationVanishes,
         T!connVars
<1> QED
  BY <1>1, <1>2, <1>3, <1>4, <1>5 DEF TakeoverInv

LEMMA DamagedKeeps ==
  ASSUME T!TakeoverConstants, TakeoverInv, T!Damaged
  PROVE  TakeoverInv'
<1>1. T!TypeOK'
  <2>1. disk' \in T!Events \cup {T!None, T!Unreadable}
    BY DEF TakeoverInv, T!TypeOK, T!Damaged, T!None, T!Unreadable
  <2>2. faults' \in 0..MaxFaults
    BY DEF TakeoverInv, T!TypeOK, T!Damaged, T!None, T!Unreadable, T!TakeoverConstants
  <2>3. UNCHANGED <<gen, guard, failed, failedGen, place, flag, event, snapshot,
                    refreshing, notices, conflicts, reclaims, restarts, began, blind,
                    stood, told>>
    BY DEF T!Damaged, T!connVars, T!history
  <2> QED
    BY <2>1, <2>2, <2>3 DEF TakeoverInv, T!TypeOK, Notices, Places, Tellings
<1>2. EventsInv'
  BY DEF TakeoverInv, EventsInv, T!TypeOK, T!Damaged, T!None, T!Unreadable, T!connVars,
         T!history, T!Unknown, T!Events
<1>3. UnsettledInv'
  BY DEF TakeoverInv, UnsettledInv, EventsInv, T!TypeOK, T!Damaged, T!None, T!Unreadable,
         T!connVars, T!history, T!Unknown, T!Events
<1>4. DiskInv'
  BY DEF TakeoverInv, DiskInv, GenerationInv, SnapshotInv, UnsettledInv, T!TypeOK,
         T!Damaged, T!None, T!Unreadable, T!connVars, T!history, T!Unknown, T!Events
<1>5. NoticeInv'
  BY DEF TakeoverInv, NoticeInv, FlagInv, T!TypeOK, T!Damaged, T!None, T!Unreadable,
         T!connVars, T!history, T!Unknown, T!Events
<1>6. GenerationInv' /\ SnapshotInv' /\ FlagInv'
  BY DEF TakeoverInv, GenerationInv, SnapshotInv, FlagInv, T!Damaged, T!connVars, T!history
<1> QED
  BY <1>1, <1>2, <1>3, <1>4, <1>5, <1>6 DEF TakeoverInv

LEMMA RestartKeeps ==
  ASSUME T!TakeoverConstants, TakeoverInv, NEW p \in Procs, T!Restart(p)
  PROVE  TakeoverInv'
<1>1. T!TypeOK'
  <2>1. guard' \in {"free"} \cup Operators \cup Procs
    BY DEF TakeoverInv, T!TypeOK, T!Restart, T!None, T!Unknown, T!Cancelled
  <2>2. failed' \in [Procs -> T!Events \cup {T!None}]
    BY DEF TakeoverInv, T!TypeOK, T!Restart, T!None, T!Unknown, T!Cancelled,
           T!TakeoverConstants
  <2>3. failedGen' \in [Procs -> -1..MaxReclaims]
    BY DEF TakeoverInv, T!TypeOK, T!Restart, T!None, T!Unknown, T!Cancelled,
           T!TakeoverConstants
  <2>4. place' \in [Conns -> Places]
    BY DEF TakeoverInv, T!TypeOK, T!Restart, T!None, T!Unknown, T!Cancelled, Places,
           T!TakeoverConstants
  <2>5. flag' \in [Conns -> BOOLEAN]
    BY DEF TakeoverInv, T!TypeOK, T!Restart, T!None, T!Unknown, T!Cancelled
  <2>6. event' \in [Conns -> T!Events \cup {T!None}]
    BY DEF TakeoverInv, T!TypeOK, T!Restart, T!None, T!Unknown, T!Cancelled,
           T!TakeoverConstants
  <2>7. snapshot' \in [Conns -> -1..MaxReclaims]
    BY DEF TakeoverInv, T!TypeOK, T!Restart, T!None, T!Unknown, T!Cancelled,
           T!TakeoverConstants
  <2>8. refreshing' \in [Conns -> BOOLEAN]
    BY DEF TakeoverInv, T!TypeOK, T!Restart, T!None, T!Unknown, T!Cancelled
  <2>9. notices' \subseteq Notices
    BY DEF TakeoverInv, T!TypeOK, T!Restart, T!None, T!Unknown, T!Cancelled, Notices
  <2>10. restarts' \in 0..MaxRestarts
    BY DEF TakeoverInv, T!TypeOK, T!Restart, T!None, T!Unknown, T!Cancelled,
           T!TakeoverConstants
  <2>11. UNCHANGED <<disk, gen, conflicts, reclaims, faults, began, blind, stood,
                     told>>
    BY DEF T!Restart, T!history
  <2> QED
    BY <2>1, <2>2, <2>3, <2>4, <2>5, <2>6, <2>7, <2>8, <2>9, <2>10, <2>11 DEF TakeoverInv,
                                                                              T!TypeOK,
                                                                              Notices,
                                                                              Places,
                                                                              Tellings
<1>2. GenerationInv'
  BY DEF TakeoverInv, GenerationInv, T!TypeOK, T!Restart, T!None, T!Unknown, T!Cancelled,
         T!history, T!Unreadable, T!Events
<1>3. EventsInv'
  BY DEF TakeoverInv, EventsInv, T!TypeOK, T!Restart, T!None, T!Unknown, T!Cancelled,
         T!history, T!Unreadable, T!Events
<1>4. UnsettledInv'
  BY DEF TakeoverInv, UnsettledInv, EventsInv, T!TypeOK, T!Restart, T!None, T!Unknown,
         T!Cancelled, T!history, T!Unreadable, T!Events
<1>5. SnapshotInv'
  BY DEF TakeoverInv, SnapshotInv, UnsettledInv, T!TypeOK, GenerationInv, T!Restart, T!None,
         T!Unknown, T!Cancelled, T!history, T!Unreadable, T!Events
<1>6. FlagInv'
  BY DEF TakeoverInv, FlagInv, T!TypeOK, T!Restart, T!None, T!Unknown, T!Cancelled,
         T!history, T!Unreadable, T!Events
<1>7. NoticeInv'
  BY DEF TakeoverInv, NoticeInv, FlagInv, T!TypeOK, T!Restart, T!None, T!Unknown,
         T!Cancelled, T!history, T!Unreadable, T!Events
<1>8. DiskInv'
  BY DEF TakeoverInv, DiskInv, T!Restart, T!history
<1> QED
  BY <1>1, <1>2, <1>3, <1>4, <1>5, <1>6, <1>7, <1>8 DEF TakeoverInv

LEMMA TakeoverInit == T!TakeoverConstants /\ T!Init => TakeoverInv
<1> SUFFICES ASSUME T!TakeoverConstants, T!Init PROVE TakeoverInv
  OBVIOUS
<1>1. T!TypeOK
  BY DEF T!Init, T!TypeOK, T!TakeoverConstants, T!None, T!Unknown, T!Unreadable
<1>2. GenerationInv /\ EventsInv
  BY DEF T!Init, GenerationInv, EventsInv, T!None, T!Unreadable, T!Events
<1>3. UnsettledInv /\ SnapshotInv /\ DiskInv /\ FlagInv /\ NoticeInv
  BY DEF T!Init, UnsettledInv, SnapshotInv, DiskInv, FlagInv, NoticeInv, T!None, T!Events
<1> QED
  BY <1>1, <1>2, <1>3 DEF TakeoverInv

LEMMA TakeoverNext == T!TakeoverConstants /\ TakeoverInv /\ [T!Next]_T!vars => TakeoverInv'
<1> SUFFICES ASSUME T!TakeoverConstants, TakeoverInv, [T!Next]_T!vars PROVE TakeoverInv'
  OBVIOUS
<1>1. ASSUME NEW c \in Conns, T!Connection(c) PROVE TakeoverInv'
  BY <1>1, ConflictKeeps, ReadGenerationKeeps, RecordKeeps, RecordUnlockedKeeps, CheckKeeps,
     LoseKeeps, RefreshStartsKeeps, RefreshEndsKeeps DEF T!Connection
<1>2. ASSUME NEW n \in notices, T!Telling(n) PROVE TakeoverInv'
  BY <1>2, NoticeChecksKeeps, NoticeSentKeeps, NoticeFailsKeeps, NoticeNotedKeeps DEF
     T!Telling
<1>3. ASSUME NEW o \in Operators \cup Procs, T!Reclaim(o) \/ T!Reclaimed(o) \/ T!ReclaimDies(o)
      PROVE  TakeoverInv'
  BY <1>3, ReclaimKeeps, ReclaimedKeeps, ReclaimDiesKeeps
<1>4. ASSUME NEW p \in Procs, T!Restart(p) PROVE TakeoverInv'
  BY <1>4, RestartKeeps
<1>5. CASE T!GenerationVanishes \/ T!Damaged
  BY <1>5, GenerationVanishesKeeps, DamagedKeeps
<1>6. CASE UNCHANGED T!vars
  BY <1>6 DEF T!vars, T!installVars, T!connVars, T!counters, T!history, TakeoverInv,
     T!TypeOK, GenerationInv, EventsInv, UnsettledInv, SnapshotInv, DiskInv, FlagInv,
     NoticeInv, T!Released, T!Overtaken
<1> QED
  BY <1>1, <1>2, <1>3, <1>4, <1>5, <1>6 DEF T!Next

-----------------------------------------------------------------------------
(* The properties. *)

\* An event a process could not write either began after the last completed
\* reclaim or carries a generation that is not the file's any more.
LEMMA InvIsSafe == T!TakeoverConstants /\ TakeoverInv => T!TakeoverSafe
<1> SUFFICES ASSUME T!TakeoverConstants, TakeoverInv PROVE T!TakeoverSafe
  OBVIOUS
<1>1. disk \in T!Events \ blind => began[disk] >= stood
  BY DEF TakeoverInv, DiskInv
<1>2. ASSUME NEW p \in Procs, failed[p] \in T!Events \ blind, ~(began[failed[p]] >= stood)
      PROVE  T!Released(p)
  <2>1. failedGen[p] = began[failed[p]] /\ failed[p] # T!None
    BY <1>2 DEF TakeoverInv, SnapshotInv, T!Events, T!None
  <2>2. gen = reclaims /\ stood <= reclaims
    BY <1>2 DEF TakeoverInv, GenerationInv, T!TypeOK
  <2>3. began[failed[p]] \in Nat /\ stood \in Nat /\ reclaims \in Nat
    BY <1>2 DEF TakeoverInv, T!TypeOK, T!TakeoverConstants
  <2>4. failedGen[p] # T!Unknown /\ gen # T!None /\ gen # failedGen[p]
    BY <1>2, <2>1, <2>2, <2>3 DEF T!Unknown, T!None
  <2> QED
    BY <2>1, <2>4 DEF T!Released, T!Overtaken
<1>3. T!ReclaimStands
  BY <1>1, <1>2 DEF T!ReclaimStands
<1>4. T!OwnerToldOnce
  BY DEF TakeoverInv, NoticeInv, T!OwnerToldOnce
<1> QED
  BY <1>3, <1>4 DEF TakeoverInv, T!TakeoverSafe

\* A completed reclaim stands, and the owner is told once of each takeover, for
\* any number of connections, processes, reclaims, faults and restarts.
THEOREM TakeoverIsSafe ==
  ASSUME T!TakeoverConstants
  PROVE  T!Spec => []T!TakeoverSafe
<1>1. T!Init => TakeoverInv
  BY TakeoverInit
<1>2. TakeoverInv /\ [T!Next]_T!vars => TakeoverInv'
  BY TakeoverNext
<1>3. TakeoverInv => T!TakeoverSafe
  BY InvIsSafe
<1> QED
  BY <1>1, <1>2, <1>3, PTL DEF T!Spec

LEMMA RefreshNeedsRelease ==
  T!TakeoverConstants /\ TakeoverInv /\ [T!Next]_T!vars => T!NoRefreshOnceTakenOverStep
<1> SUFFICES ASSUME T!TakeoverConstants, TakeoverInv, [T!Next]_T!vars,
                    NEW c \in Conns, ~refreshing[c] /\ refreshing'[c]
             PROVE  \A d \in T!Same(c) : place[d] \notin {"latched", "settling", "standby"}
  BY DEF T!NoRefreshOnceTakenOverStep
<1>1. T!RefreshStarts(c)
  <2>1. refreshing \in [Conns -> BOOLEAN]
    BY DEF TakeoverInv, T!TypeOK
  <2>2. ASSUME NEW d \in Conns, T!Connection(d) PROVE T!RefreshStarts(c)
    <3>1. T!RefreshStarts(d) \/ T!RefreshEnds(d)
      BY <2>2 DEF T!Connection, T!Conflict, T!ReadGeneration, T!Record, T!RecordUnlocked,
         T!Check, T!Lose
    <3>2. CASE T!RefreshStarts(d)
      <4>1. d = c
        BY <2>1, <3>2 DEF T!RefreshStarts
      <4> QED
        BY <3>2, <4>1
    <3>3. CASE T!RefreshEnds(d)
      BY <2>1, <3>3 DEF T!RefreshEnds
    <3> QED
      BY <3>1, <3>2, <3>3
  <2>3. ASSUME NEW n \in notices, T!Telling(n) PROVE FALSE
    BY <2>3 DEF T!Telling, T!NoticeChecks, T!NoticeSent, T!NoticeFails, T!NoticeNoted,
       T!connVars
  <2>4. ASSUME NEW o \in Operators \cup Procs, T!Reclaim(o) \/ T!Reclaimed(o) \/ T!ReclaimDies(o)
        PROVE  FALSE
    BY <2>4 DEF T!Reclaim, T!Reclaimed, T!ReclaimDies, T!connVars
  <2>5. ASSUME NEW p \in Procs, T!Restart(p) PROVE FALSE
    BY <2>1, <2>5 DEF T!Restart
  <2>6. CASE T!GenerationVanishes \/ T!Damaged
    BY <2>6 DEF T!GenerationVanishes, T!Damaged, T!connVars
  <2>7. CASE UNCHANGED T!vars
    BY <2>7 DEF T!vars, T!connVars
  <2> QED
    BY <2>2, <2>3, <2>4, <2>5, <2>6, <2>7 DEF T!Next
<1>2. \A d \in T!Same(c) : ~flag[d]
  BY <1>1 DEF T!RefreshStarts, T!Blocked
<1> QED
  BY <1>2 DEF TakeoverInv, FlagInv, T!Same

\* From the conflict to its release no connection of the process begins a
\* refresh, which would take the account away from the installation that has it.
THEOREM TakenOverDoesNotRefresh ==
  ASSUME T!TakeoverConstants
  PROVE  T!Spec => T!NoRefreshOnceTakenOver
<1>1. T!Init => TakeoverInv
  BY TakeoverInit
<1>2. TakeoverInv /\ [T!Next]_T!vars => TakeoverInv'
  BY TakeoverNext
<1>3. TakeoverInv /\ [T!Next]_T!vars => T!NoRefreshOnceTakenOverStep
  BY RefreshNeedsRelease
<1> QED
  BY <1>1, <1>2, <1>3, PTL DEF T!Spec, T!NoRefreshOnceTakenOver
=============================================================================
