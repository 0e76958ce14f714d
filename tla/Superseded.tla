----------------------------- MODULE Superseded -----------------------------
(***************************************************************************)
(* An installation that another one has taken over (close code 4003) stops  *)
(* connecting until its operator reclaims it.  The event is a file of the   *)
(* profile, shared by every process of the profile; a process that cannot   *)
(* write the file blocks itself from memory; a reclaim advances a           *)
(* generation file first and then removes the event.                        *)
(*                                                                          *)
(* Conns are the gateway connections, ProcOf[c] the process that runs c.    *)
(* An event is the number of the conflict that began it (superseded_at), a  *)
(* generation the number of the reclaim that wrote it (a fresh uuid).  The  *)
(* conflicts, reclaims, faults and restarts of a run are bounded.           *)
(***************************************************************************)
EXTENDS Integers, FiniteSets

CONSTANTS Conns, Procs, ProcOf, Operators,
          MaxConflicts, MaxReclaims, MaxFaults, MaxRestarts

\* What the constants are: every connection has a process, the lock file's holder
\* has a name, and the bounds are numbers.
TakeoverConstants ==
  /\ \A c \in Conns : ProcOf[c] \in Procs
  /\ "free" \notin Operators \cup Procs
  /\ MaxConflicts \in Nat /\ MaxReclaims \in Nat
  /\ MaxFaults \in Nat /\ MaxRestarts \in Nat

VARIABLES
  disk,       \* the event in install_superseded.json
  gen,        \* the contents of install_reclaim_generation
  guard,      \* who holds the lock file: the only holder of several steps is a reclaim
  failed,     \* per process: the event it could not write (_failed_writes)
  failedGen,  \* per process: the generation of that event (_failed_generations)
  pc,         \* per connection: where its supervisor is
  flag,       \* per connection: _superseded
  event,      \* per connection: the conflict it handles
  snapshot,   \* per connection: _superseded_snapshot
  notices,    \* the tasks that tell the owner
  refreshing, \* per connection: a refresh of its credentials is under way
  conflicts, reclaims, faults, restarts,  \* how many there were
  began,      \* history: the reclaims begun when an event's generation was read
  blind,      \* history: events whose generation was unreadable, or vanished
  stood,      \* history: the last reclaim that was completed
  told        \* history: the notices sent, with the reclaims begun at their record

installVars == <<disk, gen, guard, failed, failedGen>>
connVars == <<pc, flag, event, snapshot, refreshing>>
counters == <<conflicts, reclaims, faults, restarts>>
history == <<began, blind, stood, told>>
vars == <<installVars, connVars, notices, counters, history>>

None == 0          \* no event; also the empty generation, before any reclaim
Unreadable == -1   \* an event file that cannot be parsed
Unknown == -1      \* a generation that cannot be read

Events == 1..MaxConflicts
Same(c) == {d \in Conns : ProcOf[d] = ProcOf[c]}

-----------------------------------------------------------------------------
(* Reading *)

Disk == disk
\* Mutant of Believed: only the event a process could not write counts.
BelievedUnwritten(p) == failed[p]

\* The event a process believes in: its own unwritten one hides the file.
Believed(p) == IF failed[p] # None THEN failed[p] ELSE Disk

\* Only a present, different generation shows that a reclaim completed.
Overtaken(snap) == snap # Unknown /\ gen # None /\ gen # snap

\* Mutant of Blocked: only the recorded event blocks, not the one being settled.
BlockedByRecord(c) == Believed(ProcOf[c]) # None

Blocked(c) == (\E d \in Same(c) : flag[d]) \/ Believed(ProcOf[c]) # None

\* Mutant of Released: the unwritten event is kept until the process ends.
ReleasedNever(p) == FALSE

\* release_reclaimed_cache: the process forgets an unwritten event that a
\* reclaim has overtaken.
Released(p) == failed[p] # None /\ Overtaken(failedGen[p])

-----------------------------------------------------------------------------
Init ==
  /\ disk = None /\ gen = None /\ guard = "free"
  /\ failed = [p \in Procs |-> None] /\ failedGen = [p \in Procs |-> None]
  /\ pc = [c \in Conns |-> "waiting"]
  /\ flag = [c \in Conns |-> FALSE]
  /\ event = [c \in Conns |-> None]
  /\ snapshot = [c \in Conns |-> Unknown]
  /\ refreshing = [c \in Conns |-> FALSE]
  /\ notices = {}
  /\ conflicts = 0 /\ reclaims = 0 /\ faults = 0 /\ restarts = 0
  /\ began = [e \in Events |-> 0] /\ blind = {} /\ stood = 0 /\ told = {}

-----------------------------------------------------------------------------
(* The connection *)

\* The socket is closed with 4003: the reader blocks refreshing at once, before
\* the generation is read.
Conflict(c) ==
  /\ pc[c] = "up" /\ conflicts < MaxConflicts
  /\ conflicts' = conflicts + 1
  /\ event' = [event EXCEPT ![c] = conflicts + 1]
  /\ flag' = [flag EXCEPT ![c] = TRUE]
  /\ pc' = [pc EXCEPT ![c] = "latched"]
  /\ UNCHANGED <<installVars, snapshot, refreshing, notices, history,
                 reclaims, faults, restarts>>

\* The generation of the conflict; a file that cannot be read is a fault.
ReadGeneration(c) ==
  /\ pc[c] = "latched"
  /\ pc' = [pc EXCEPT ![c] = "settling"]
  /\ \/ /\ snapshot' = [snapshot EXCEPT ![c] = gen]
        /\ UNCHANGED <<faults, blind>>
     \/ /\ faults < MaxFaults
        /\ faults' = faults + 1
        /\ snapshot' = [snapshot EXCEPT ![c] = Unknown]
        /\ blind' = blind \cup {event[c]}
  /\ began' = [began EXCEPT ![event[c]] = reclaims]
  /\ UNCHANGED <<installVars, flag, event, refreshing, notices, stood, told,
                 conflicts, reclaims, restarts>>

Standby(c) == pc' = [pc EXCEPT ![c] = "standby"]

Remember(c) ==
  /\ failed' = [failed EXCEPT ![ProcOf[c]] = event[c]]
  /\ failedGen' = [failedGen EXCEPT ![ProcOf[c]] = snapshot[c]]

Notice(c) == [conn |-> c, event |-> event[c], at |-> "checking", epoch |-> reclaims]

\* record_superseded under the lock: an existing event stands, a reclaim that
\* overtook this one wins, and only a written event is told to the owner.
Record(c) ==
  /\ pc[c] = "settling" /\ guard = "free"
  /\ Standby(c)
  /\ \/ /\ Believed(ProcOf[c]) # None \/ Overtaken(snapshot[c])
        /\ UNCHANGED <<disk, failed, failedGen, notices, faults>>
     \/ /\ Believed(ProcOf[c]) = None /\ ~Overtaken(snapshot[c])
        /\ disk' = event[c]
        /\ notices' = notices \cup {Notice(c)}
        /\ UNCHANGED <<failed, failedGen, faults>>
     \/ /\ Believed(ProcOf[c]) = None /\ ~Overtaken(snapshot[c])
        /\ faults < MaxFaults /\ faults' = faults + 1
        /\ Remember(c)
        /\ UNCHANGED <<disk, notices>>
  /\ UNCHANGED <<gen, guard, flag, event, snapshot, refreshing, history,
                 conflicts, reclaims, restarts>>

\* The lock file cannot be had: an event already believed in is not repeated.
RecordUnlocked(c) ==
  /\ pc[c] = "settling" /\ faults < MaxFaults
  /\ faults' = faults + 1
  /\ Standby(c)
  /\ IF Believed(ProcOf[c]) # None THEN UNCHANGED <<failed, failedGen>>
                                   ELSE Remember(c)
  /\ UNCHANGED <<disk, gen, guard, flag, event, snapshot, refreshing, notices,
                 history, conflicts, reclaims, restarts>>

Cancelled(cs) == {n \in notices : n.conn \notin cs}

\* One round of _wait_if_superseded, before every connection and each 30 s.
Check(c) ==
  LET p == ProcOf[c]
      kept == IF Released(p) THEN None ELSE failed[p]
  IN
  /\ pc[c] \in {"waiting", "standby"}
  /\ failed' = [failed EXCEPT ![p] = kept]
  /\ failedGen' = [failedGen EXCEPT ![p] = IF Released(p) THEN None ELSE @]
  /\ \/ /\ kept = None /\ Disk = None
        /\ pc' = [pc EXCEPT ![c] = "up"]
        /\ notices' = IF flag[c] THEN Cancelled({c}) ELSE notices
        /\ flag' = [flag EXCEPT ![c] = FALSE]
        /\ snapshot' = [snapshot EXCEPT ![c] = Unknown]
        /\ event' = [event EXCEPT ![c] = None]
     \/ /\ kept # None \/ Disk # None
        /\ pc' = [pc EXCEPT ![c] = "standby"]
        /\ flag' = [flag EXCEPT ![c] = TRUE]
        /\ UNCHANGED <<notices, snapshot, event>>
  /\ UNCHANGED <<disk, gen, guard, refreshing, counters, history>>

\* The socket is lost for another reason: the supervisor goes round again.
Lose(c) ==
  /\ pc[c] = "up"
  /\ pc' = [pc EXCEPT ![c] = "waiting"]
  /\ UNCHANGED <<installVars, flag, event, snapshot, refreshing, notices,
                 counters, history>>

RefreshStarts(c) ==
  /\ ~refreshing[c] /\ ~Blocked(c)
  /\ refreshing' = [refreshing EXCEPT ![c] = TRUE]
  /\ UNCHANGED <<installVars, pc, flag, event, snapshot, notices, counters, history>>

RefreshEnds(c) ==
  /\ refreshing[c]
  /\ refreshing' = [refreshing EXCEPT ![c] = FALSE]
  /\ UNCHANGED <<installVars, pc, flag, event, snapshot, notices, counters, history>>

-----------------------------------------------------------------------------
(* The notice to the owner *)

At(n, there) == (notices \ {n}) \cup {[n EXCEPT !.at = there]}

\* The event is checked as the notice starts, and again after the handshake.
NoticeChecks(n) ==
  /\ n.at \in {"checking", "rechecking"}
  /\ notices' = At(n, IF Disk # n.event THEN "done"
                      ELSE IF n.at = "checking" THEN "rechecking" ELSE "sending")
  /\ UNCHANGED <<installVars, connVars, counters, history>>

NoticeSent(n) ==
  /\ n.at = "sending"
  /\ notices' = At(n, "done")
  /\ told' = told \cup {[event |-> n.event, conn |-> n.conn, epoch |-> n.epoch]}
  /\ UNCHANGED <<installVars, connVars, counters, began, blind, stood>>

NoticeFails(n) ==
  /\ n.at \in {"rechecking", "sending"}
  /\ notices' = At(n, "done")
  /\ UNCHANGED <<installVars, connVars, counters, history>>

\* Mutant of Rewritten: the outcome is written over whatever the file holds now.
RewrittenAnyway(n) == n.event

\* update_owner_notice rewrites the file with the outcome, the original event
\* only; a failed write is not tried again.
Rewritten(n) == IF Disk = n.event THEN n.event ELSE disk

NoticeNoted(n) ==
  /\ n.at = "done" /\ guard = "free"
  /\ disk' = Rewritten(n)
  /\ notices' = notices \ {n}
  /\ UNCHANGED <<gen, guard, failed, failedGen, connVars, counters, history>>

-----------------------------------------------------------------------------
(* The reclaim: `hermes clawchat reclaim` in a process of its own, the chat  *)
(* command and an activation in a gateway process                            *)

Reclaim(o) ==
  /\ guard = "free" /\ reclaims < MaxReclaims
  /\ guard' = o
  /\ reclaims' = reclaims + 1
  /\ gen' = reclaims + 1
  /\ UNCHANGED <<disk, failed, failedGen, connVars, notices, history,
                 conflicts, faults, restarts>>

\* The event is removed, from the file and from the reclaiming process; its
\* connections are woken.
Reclaimed(o) ==
  LET mine == {c \in Conns : ProcOf[c] = o} IN
  /\ guard = o
  /\ guard' = "free"
  /\ disk' = None
  /\ failed' = [p \in Procs |-> IF p = o THEN None ELSE failed[p]]
  /\ failedGen' = [p \in Procs |-> IF p = o THEN None ELSE failedGen[p]]
  /\ notices' = Cancelled(mine)
  /\ stood' = reclaims
  /\ UNCHANGED <<gen, connVars, counters, began, blind, told>>

\* The file cannot be removed, or the reclaiming process dies.
ReclaimDies(o) ==
  /\ guard = o /\ faults < MaxFaults
  /\ guard' = "free"
  /\ faults' = faults + 1
  /\ UNCHANGED <<disk, gen, failed, failedGen, connVars, notices, history,
                 conflicts, reclaims, restarts>>

\* Someone removes the generation file.
GenerationVanishes ==
  /\ gen # None /\ faults < MaxFaults /\ guard = "free"
  /\ gen' = None
  /\ faults' = faults + 1
  /\ blind' = Events
  /\ UNCHANGED <<disk, guard, failed, failedGen, connVars, notices, began, stood, told,
                 conflicts, reclaims, restarts>>

\* The event file is damaged: unreadable state blocks every connection.
Damaged ==
  /\ disk # None /\ faults < MaxFaults /\ guard = "free"
  /\ disk' = Unreadable
  /\ faults' = faults + 1
  /\ UNCHANGED <<gen, guard, failed, failedGen, connVars, notices, history,
                 conflicts, reclaims, restarts>>

\* A gateway process ends and starts again: its memory and its tasks are gone.
Restart(p) ==
  LET mine == {c \in Conns : ProcOf[c] = p} IN
  /\ restarts < MaxRestarts
  /\ restarts' = restarts + 1
  /\ guard' = IF guard = p THEN "free" ELSE guard
  /\ failed' = [failed EXCEPT ![p] = None]
  /\ failedGen' = [failedGen EXCEPT ![p] = None]
  /\ pc' = [c \in Conns |-> IF c \in mine THEN "waiting" ELSE pc[c]]
  /\ flag' = [c \in Conns |-> c \notin mine /\ flag[c]]
  /\ event' = [c \in Conns |-> IF c \in mine THEN None ELSE event[c]]
  /\ snapshot' = [c \in Conns |-> IF c \in mine THEN Unknown ELSE snapshot[c]]
  /\ refreshing' = [c \in Conns |-> c \notin mine /\ refreshing[c]]
  /\ notices' = Cancelled(mine)
  /\ UNCHANGED <<disk, gen, conflicts, reclaims, faults, history>>

-----------------------------------------------------------------------------
Connection(c) ==
  \/ Conflict(c) \/ ReadGeneration(c) \/ Record(c) \/ RecordUnlocked(c)
  \/ Check(c) \/ Lose(c) \/ RefreshStarts(c) \/ RefreshEnds(c)

Telling(n) == NoticeChecks(n) \/ NoticeSent(n) \/ NoticeFails(n) \/ NoticeNoted(n)

Next ==
  \/ \E c \in Conns : Connection(c)
  \/ \E n \in notices : Telling(n)
  \/ \E o \in Operators \cup Procs : Reclaim(o) \/ Reclaimed(o) \/ ReclaimDies(o)
  \/ \E p \in Procs : Restart(p)
  \/ GenerationVanishes \/ Damaged

Spec == Init /\ [][Next]_vars

\* The standby loop and the supervisor run; a lock that is held is let go.
Fairness ==
  /\ \A c \in Conns : WF_vars(Check(c)) /\ WF_vars(ReadGeneration(c))
                      /\ WF_vars(Record(c) \/ RecordUnlocked(c))
  /\ \A o \in Operators \cup Procs : WF_vars(Reclaimed(o) \/ ReclaimDies(o))

FairSpec == Spec /\ Fairness

-----------------------------------------------------------------------------
TypeOK ==
  /\ disk \in Events \cup {None, Unreadable}
  /\ gen \in 0..MaxReclaims
  /\ guard \in {"free"} \cup Operators \cup Procs
  /\ failed \in [Procs -> Events \cup {None}]
  /\ failedGen \in [Procs -> -1..MaxReclaims]
  /\ pc \in [Conns -> {"waiting", "up", "latched", "settling", "standby"}]
  /\ flag \in [Conns -> BOOLEAN]
  /\ event \in [Conns -> Events \cup {None}]
  /\ snapshot \in [Conns -> -1..MaxReclaims]
  /\ refreshing \in [Conns -> BOOLEAN]
  /\ notices \subseteq [conn : Conns, event : Events, epoch : 0..MaxReclaims,
                        at : {"checking", "rechecking", "sending", "done"}]
  /\ conflicts \in 0..MaxConflicts /\ reclaims \in 0..MaxReclaims
  /\ faults \in 0..MaxFaults /\ restarts \in 0..MaxRestarts
  /\ began \in [Events -> 0..MaxReclaims] /\ blind \subseteq Events
  /\ stood \in 0..MaxReclaims
  /\ told \subseteq [event : Events, conn : Conns, epoch : 0..MaxReclaims]

\* What the operator reclaims is not taken back by an older conflict: the event
\* on the disk is one whose generation was read after the last completed reclaim
\* began, and a process that still blocks itself from memory with an older one
\* lets go of it at its next look.  (Unless the generation could not be read or
\* its file was removed.)
ReclaimStands ==
  /\ disk \in Events \ blind => began[disk] >= stood
  /\ \A p \in Procs :
       failed[p] \in Events \ blind => began[failed[p]] >= stood \/ Released(p)

\* The owner hears of a stay in standby once, however many connections and
\* processes saw the conflict; and a connection that is up again has no notice
\* of its own still on the way.
OwnerToldOnce ==
  /\ \A t, u \in told : t.epoch = u.epoch => t = u
  /\ \A n \in notices : pc[n.conn] = "up" => n.at = "done"

\* A reclaim that was completed stands, and each takeover is told to the owner
\* once (install_identity.py, connection.py).
TakeoverSafe == TypeOK /\ ReclaimStands /\ OwnerToldOnce

\* From the moment a connection of a process sees the conflict until it is
\* released, no connection of that process begins a refresh.
NoRefreshOnceTakenOverStep ==
  \A c \in Conns :
    ~refreshing[c] /\ refreshing'[c]
      => \A d \in Same(c) : pc[d] \notin {"latched", "settling", "standby"}

\* No step of the code does otherwise.
NoRefreshOnceTakenOver == [][NoRefreshOnceTakenOverStep]_vars

\* A reclaim is noticed: no connection stays in standby for good with nothing
\* on the disk and no unwritten event that still stands.
StandbyHasCause ==
  \A c \in Conns :
    LET e == failed[ProcOf[c]] IN
    pc[c] = "standby" =>
      disk # None \/ e \in blind \/ (e \in Events /\ began[e] >= stood)
ReclaimFrees == []<>StandbyHasCause

=============================================================================
