---------------------------- MODULE InstanceLock ----------------------------
(***************************************************************************)
(* The host-local locks that keep two gateways of one host apart           *)
(* (instance_lock.py, and their use in connection.py).                     *)
(*                                                                         *)
(* A process takes the kernel's lock on a file once and counts references  *)
(* to it: one for every connection that owns the lock and one for every    *)
(* refresh worker that needs it until its HTTP request is over.  The       *)
(* kernel's lock is given back with the last reference, or when the        *)
(* process dies.  A profile lock belongs to a profile home, an identity    *)
(* lock to a user id.                                                      *)
(*                                                                         *)
(* Everything between two awaits of the event loop is one step; worker     *)
(* threads interleave with it at every use of the registry.                *)
(***************************************************************************)
EXTENDS Integers, FiniteSets

CONSTANTS
  Procs,       \* processes of the host
  Conns,       \* connections: the host builds a fresh one for every start
  Workers,     \* refresh requests
  ProcOf,      \* the process of a connection or a request
  HomeOf,      \* the profile home of a connection
  Homes, Users,
  FirstUser,   \* the user id a connection is configured with
  Adoptions,   \* bound: the changes of credentials that may come
  Unlockable,  \* lock files on which locking is unsupported
  NoUser, Nobody

ProfileLock(h) == <<"profile", h>>
IdentityLock(u) == <<"identity", u>>
Identity(u) == {IdentityLock(v) : v \in {u} \cap Users}   \* none without a user id
Paths == {ProfileLock(h) : h \in Homes} \cup {IdentityLock(u) : u \in Users}
Holders == Conns \cup Workers

ASSUME HoldersAssumption ==
  /\ Conns \cap Workers = {} /\ Adoptions \subseteq Conns \X (Users \cup {NoUser})
  /\ ProcOf \in [Holders -> Procs] /\ HomeOf \in [Conns -> Homes]
  /\ FirstUser \in [Conns -> Users \cup {NoUser}]
  /\ Nobody \notin Procs \cup Conns /\ NoUser \notin Users
  /\ IsFiniteSet(Holders)

VARIABLES
  owner,   \* the process that has the kernel's lock on a file
  refs,    \* _registry: the references a process counts for a file (0: no entry)
  holds,   \* the references of a connection (_instance_locks) or a request (leases)
  phase,   \* where a connection's supervisor stands
  user,    \* _cfg.user_id of a connection
  live,    \* _live_supervisors: the connection of a process and profile home
  prior,   \* the connection a starting one replaces
  req      \* the refresh requests

vars == <<owner, refs, holds, phase, user, live, prior, req>>

NoReq == [stage |-> "idle", by |-> Nobody, for |-> NoUser, as |-> NoUser,
          asked |-> {}, revoked |-> {}]

-----------------------------------------------------------------------------
(***************************************************************************)
(* instance_lock.py.  A reference to a lock that is unsupported counts     *)
(* nothing and excludes nobody.                                            *)
(***************************************************************************)
\* acquire(): the process shares its own entry, or asks the kernel.
CanTake(h, x) == x \in Unlockable \/ refs[ProcOf[h]][x] > 0 \/ owner[x] = Nobody

\* acquire() and retain(): h gets references to the locks in S.
Take(h, S) ==
  /\ holds' = [holds EXCEPT ![h] = @ \cup S]
  /\ refs' = [refs EXCEPT ![ProcOf[h]] =
                [x \in Paths |-> IF x \in S \ Unlockable THEN @[x] + 1 ELSE @[x]]]
  /\ owner' = [x \in Paths |-> IF x \in S \ Unlockable THEN ProcOf[h] ELSE owner[x]]

\* Mutant: releasing a reference unlocks the file although others are left.
ReleaseUnlocks(h, S) ==
  /\ holds' = [holds EXCEPT ![h] = @ \ S]
  /\ refs' = [refs EXCEPT ![ProcOf[h]] =
                [x \in Paths |-> IF x \in S \ Unlockable THEN @[x] - 1 ELSE @[x]]]
  /\ owner' = [x \in Paths |-> IF x \in S \ Unlockable THEN Nobody ELSE owner[x]]

\* release(): the last reference unlocks the file.
Release(h, S) ==
  /\ holds' = [holds EXCEPT ![h] = @ \ S]
  /\ refs' = [refs EXCEPT ![ProcOf[h]] =
                [x \in Paths |-> IF x \in S \ Unlockable THEN @[x] - 1 ELSE @[x]]]
  /\ owner' = [x \in Paths |-> IF x \in S \ Unlockable /\ refs[ProcOf[h]][x] = 1
                                 THEN Nobody ELSE owner[x]]

\* A released result cannot be retained any more: the requests that were given
\* it when they were built find that out.
Revoke(c, S) ==
  req' = [w \in Workers |-> IF req[w].by = c THEN [req[w] EXCEPT !.revoked = @ \cup S] ELSE req[w]]

-----------------------------------------------------------------------------
(***************************************************************************)
(* connection.py                                                           *)
(***************************************************************************)
Running(c) == phase[c] \in {"profile", "activation", "identity", "ready"}

\* _instance_locks_ready.
Ready(c) ==
  /\ Running(c)
  /\ ProfileLock(HomeOf[c]) \in holds[c]
  /\ Identity(user[c]) \subseteq holds[c]

Slot(c) == <<ProcOf[c], HomeOf[c]>>

\* start() with no other connection in the slot.
Start(c) ==
  /\ phase[c] = "new"
  /\ live[Slot(c)] = Nobody
  /\ phase' = [phase EXCEPT ![c] = "profile"]
  /\ live' = [live EXCEPT ![Slot(c)] = c]
  /\ UNCHANGED <<owner, refs, holds, user, prior, req>>

\* Mutant: the replacement takes over the results without retaining them.
StartShares(c) ==
  LET d == live[Slot(c)] IN
  /\ phase[c] = "new" /\ d # Nobody
  /\ prior' = [prior EXCEPT ![c] = d]
  /\ phase' = [phase EXCEPT ![c] = "starting"]
  /\ holds' = [holds EXCEPT ![c] = holds[d]]
  /\ UNCHANGED <<owner, refs, user, live, req>>

\* start() in a taken slot: references to the prior connection's locks are
\* taken before it is asked to stop.
StartReplacing(c) ==
  LET d == live[Slot(c)] IN
  /\ phase[c] = "new"
  /\ d # Nobody
  /\ prior' = [prior EXCEPT ![c] = d]
  /\ phase' = [phase EXCEPT ![c] = "starting"]
  /\ Take(c, holds[d])
  /\ UNCHANGED <<user, live, req>>

\* The prior connection has stopped.
StartGoesOn(c) ==
  /\ phase[c] = "starting"
  /\ phase[prior[c]] = "stopped"
  /\ phase' = [phase EXCEPT ![c] = "profile"]
  /\ live' = [live EXCEPT ![Slot(c)] = c]
  /\ prior' = [prior EXCEPT ![c] = Nobody]
  /\ UNCHANGED <<owner, refs, holds, user, req>>

\* Mutant: an abandoned start keeps the references it had taken.
StartCancelledKeeps(c) ==
  /\ phase[c] = "starting"
  /\ phase' = [phase EXCEPT ![c] = "stopped"]
  /\ prior' = [prior EXCEPT ![c] = Nobody]
  /\ UNCHANGED <<owner, refs, holds, user, live, req>>

\* The host gives up a start that takes too long.
StartCancelled(c) ==
  /\ phase[c] = "starting"
  /\ phase' = [phase EXCEPT ![c] = "stopped"]
  /\ prior' = [prior EXCEPT ![c] = Nobody]
  /\ Release(c, holds[c])
  /\ UNCHANGED <<user, live, req>>

\* _wait_for_instance_locks(profile_only=True).
TakeProfile(c) ==
  /\ phase[c] = "profile"
  /\ LET want == {ProfileLock(HomeOf[c])} \ holds[c]
     IN  (\A x \in want : CanTake(c, x)) /\ Take(c, want)
  /\ phase' = [phase EXCEPT ![c] = "activation"]
  /\ UNCHANGED <<user, live, prior, req>>

\* The credentials that may come to a connection.
Adopted(c) == {u \in Users \cup {NoUser} : <<c, u>> \in Adoptions}

\* Credentials are loaded, adopted or dropped (see TokenRefresh); the
\* supervisor takes the identity's lock next, or waits for an activation.
Adopt(c, u) ==
  /\ phase[c] \in {"activation", "ready"}
  /\ u \in Adopted(c)
  /\ user' = [user EXCEPT ![c] = u]
  /\ UNCHANGED <<owner, refs, holds, phase, live, prior, req>>

WaitIdentity(c) ==
  /\ phase[c] = "activation" /\ user[c] # NoUser
  /\ phase' = [phase EXCEPT ![c] = "identity"]
  /\ UNCHANGED <<owner, refs, holds, user, live, prior, req>>

\* _wait_for_instance_locks: another identity's lock is given back.
DropIdentity(c) ==
  LET old == {IdentityLock(u) : u \in Users \ {user[c]}} \cap holds[c] IN
  /\ phase[c] = "identity"
  /\ old # {}
  /\ Release(c, old) /\ Revoke(c, old)
  /\ UNCHANGED <<phase, user, live, prior>>

\* Mutant: the identity's lock is believed to be ours whoever has it.
TakeIdentityAnyway(c) ==
  LET want == Identity(user[c]) \ holds[c] IN
  /\ phase[c] = "identity"
  /\ \A u \in Users \ {user[c]} : IdentityLock(u) \notin holds[c]
  /\ Take(c, want)
  /\ phase' = [phase EXCEPT ![c] = "ready"]
  /\ UNCHANGED <<user, live, prior, req>>

TakeIdentity(c) ==
  LET want == Identity(user[c]) \ holds[c] IN
  /\ phase[c] = "identity"
  /\ \A u \in Users \ {user[c]} : IdentityLock(u) \notin holds[c]
  /\ \A x \in want : CanTake(c, x)
  /\ Take(c, want)
  /\ phase' = [phase EXCEPT ![c] = "ready"]
  /\ UNCHANGED <<user, live, prior, req>>

\* The connection is over; the supervisor's loop starts again, with the
\* profile's lock in its hands.
Loop(c) ==
  /\ phase[c] = "ready"
  /\ phase' = [phase EXCEPT ![c] = "activation"]
  /\ UNCHANGED <<owner, refs, holds, user, live, prior, req>>

\* stop(), called by the host or by the start of a replacement.
StopBegins(c) ==
  /\ Running(c)
  /\ phase' = [phase EXCEPT ![c] = "stopping"]
  /\ UNCHANGED <<owner, refs, holds, user, live, prior, req>>

\* The end of stop(), cancelled or not.
StopReleases(c) ==
  \E x \in holds[c] :
    /\ phase[c] = "stopping"
    /\ Release(c, {x}) /\ Revoke(c, {x})
    /\ UNCHANGED <<phase, user, live, prior>>

\* A cancelled stop() leaves its slot to the next start.
StopEnds(c) ==
  /\ phase[c] = "stopping"
  /\ holds[c] = {}
  /\ phase' = [phase EXCEPT ![c] = "stopped"]
  /\ \/ live' = [live EXCEPT ![Slot(c)] = IF @ = c THEN Nobody ELSE @]
     \/ UNCHANGED live
  /\ UNCHANGED <<owner, refs, holds, user, prior, req>>

-----------------------------------------------------------------------------
(***************************************************************************)
(* One refresh request: _attempt_refresh, then the worker thread           *)
(* (guarded_refresh_sync).                                                 *)
(***************************************************************************)
\* _attempt_refresh finds the locks ready and starts a refresh of its pair; the
\* client is built in the next turn of the event loop, with the connection's
\* locks and credentials as they are then: other tasks of that turn may have
\* adopted an activation.
Ask(w, c) ==
  /\ req[w].stage = "idle" /\ ProcOf[w] = ProcOf[c]
  /\ Ready(c) /\ user[c] # NoUser
  /\ \E u \in {user[c]} \cup Adopted(c) :
       /\ user' = [user EXCEPT ![c] = u]
       /\ req' = [req EXCEPT ![w] = [stage |-> "leasing", by |-> c, for |-> user[c], as |-> u,
                                     asked |-> holds[c], revoked |-> {}]]
  /\ UNCHANGED <<owner, refs, holds, phase, live, prior>>

\* Mutant: the worker trusts its connection's references.
LeaseNothing(w, x) ==
  /\ req[w].stage = "leasing" /\ x \in req[w].asked
  /\ req' = [req EXCEPT ![w] = [@ EXCEPT !.asked = @ \ {x}]]
  /\ UNCHANGED <<owner, refs, holds, phase, user, live, prior>>

\* retain(), one lock after the other.  The result of an unsupported lock can
\* be retained even when it was released.
Lease(w, x) ==
  /\ req[w].stage = "leasing"
  /\ x \in req[w].asked \ (holds[w] \cup (req[w].revoked \ Unlockable))
  /\ Take(w, {x})
  /\ UNCHANGED <<phase, user, live, prior, req>>

\* A result was released meanwhile, the locks are not ready any more, or the
\* connection has other credentials than those the client was built with.
Refused(w) ==
  /\ req[w].stage = "leasing"
  /\ \/ \E x \in req[w].asked \ holds[w] : x \in req[w].revoked \ Unlockable
     \/ /\ req[w].asked \subseteq holds[w]
        /\ ~Ready(req[w].by) \/ user[req[w].by] # req[w].as
  /\ req' = [req EXCEPT ![w] = [@ EXCEPT !.stage = "done"]]
  /\ UNCHANGED <<owner, refs, holds, phase, user, live, prior>>

\* The HTTP request goes out.
Request(w) ==
  /\ req[w].stage = "leasing"
  /\ req[w].asked \subseteq holds[w]
  /\ Ready(req[w].by) /\ user[req[w].by] = req[w].as
  /\ req' = [req EXCEPT ![w] = [@ EXCEPT !.stage = "http"]]
  /\ UNCHANGED <<owner, refs, holds, phase, user, live, prior>>

\* The server answers, or the request times out.
Respond(w) ==
  /\ req[w].stage = "http"
  /\ req' = [req EXCEPT ![w] = [@ EXCEPT !.stage = "done"]]
  /\ UNCHANGED <<owner, refs, holds, phase, user, live, prior>>

Unlease(w) ==
  \E x \in holds[w] :
    /\ req[w].stage = "done"
    /\ Release(w, {x})
    /\ UNCHANGED <<phase, user, live, prior, req>>

Finish(w) ==
  /\ req[w].stage = "done" /\ holds[w] = {}
  /\ req' = [req EXCEPT ![w] = NoReq]
  /\ UNCHANGED <<owner, refs, holds, phase, user, live, prior>>

-----------------------------------------------------------------------------
\* The process dies with its connections, its threads and its registry.
Crash(p) ==
  /\ \E c \in Conns : ProcOf[c] = p /\ phase[c] # "new"
  /\ owner' = [x \in Paths |-> IF owner[x] = p THEN Nobody ELSE owner[x]]
  /\ refs' = [refs EXCEPT ![p] = [x \in Paths |-> 0]]
  /\ holds' = [h \in Holders |-> IF ProcOf[h] = p THEN {} ELSE holds[h]]
  /\ phase' = [c \in Conns |-> IF ProcOf[c] = p /\ phase[c] # "new" THEN "stopped" ELSE phase[c]]
  /\ live' = [s \in DOMAIN live |-> IF s[1] = p THEN Nobody ELSE live[s]]
  /\ prior' = [c \in Conns |-> IF ProcOf[c] = p THEN Nobody ELSE prior[c]]
  /\ req' = [w \in Workers |-> IF ProcOf[w] = p THEN NoReq ELSE req[w]]
  /\ UNCHANGED user

Init ==
  /\ owner = [x \in Paths |-> Nobody]
  /\ refs = [p \in Procs |-> [x \in Paths |-> 0]]
  /\ holds = [h \in Holders |-> {}]
  /\ phase = [c \in Conns |-> "new"]
  /\ user = FirstUser
  /\ live = [s \in Procs \X Homes |-> Nobody]
  /\ prior = [c \in Conns |-> Nobody]
  /\ req = [w \in Workers |-> NoReq]

Starting(c) == Start(c) \/ StartReplacing(c) \/ StartGoesOn(c) \/ StartCancelled(c)
Locking(c) == TakeProfile(c) \/ WaitIdentity(c) \/ DropIdentity(c) \/ TakeIdentity(c)
Stopping(c) == StopReleases(c) \/ StopEnds(c)
Work(w) == (\E x \in Paths : Lease(w, x)) \/ Refused(w) \/ Request(w) \/ Respond(w)
           \/ Unlease(w) \/ Finish(w)

Next ==
  \/ \E c \in Conns : Starting(c) \/ Locking(c) \/ Stopping(c) \/ Loop(c) \/ StopBegins(c)
                      \/ \E u \in Adopted(c) : Adopt(c, u)
  \/ \E w \in Workers : Work(w) \/ \E c \in Conns : Ask(w, c)
  \/ \E p \in Procs : Crash(p)

Spec == Init /\ [][Next]_vars

\* What a connection's tasks do next; the prior of a starting one stops.
GoesOn(c) == StartGoesOn(c) \/ Locking(c) \/ Stopping(c)
IsReplaced(c) == (\E d \in Conns : prior[d] = c) /\ StopBegins(c)

\* Starts that wait, supervisors, stops and workers go on; an HTTP request ends
\* (it has a timeout).  The prior of a starting connection is told to stop.
\* New starts, stops by the host, activations and crashes may never come.
FairSpec ==
  /\ Spec
  /\ \A c \in Conns : WF_vars(GoesOn(c)) /\ WF_vars(IsReplaced(c))
  /\ \A w \in Workers : WF_vars(Work(w))

-----------------------------------------------------------------------------
(***************************************************************************)
(* Properties                                                              *)
(***************************************************************************)
\* Every variable has its type; a connection keeps one lock of a kind; only a
\* working request has leases.
TypeOK ==
  /\ owner \in [Paths -> Procs \cup {Nobody}]
  /\ refs \in [Procs -> [Paths -> Nat]]
  /\ holds \in [Holders -> SUBSET Paths]
  /\ phase \in [Conns -> {"new", "starting", "profile", "activation", "identity", "ready",
                          "stopping", "stopped"}]
  /\ user \in [Conns -> Users \cup {NoUser}]
  /\ live \in [Procs \X Homes -> Conns \cup {Nobody}]
  /\ prior \in [Conns -> Conns \cup {Nobody}]
  /\ req \in [Workers -> [stage : {"idle", "leasing", "http", "done"},
                          by : Conns \cup {Nobody}, for : Users \cup {NoUser},
                          as : Users \cup {NoUser}, asked : SUBSET Paths,
                          revoked : SUBSET Paths]]

Referrers(p, x) == {h \in Holders : ProcOf[h] = p /\ x \in holds[h]}

\* The registry counts exactly the references that exist, and the kernel's
\* lock is the process's as long as there is one: no reference leaks when a
\* start is abandoned, a stop cancelled or a request refused half-way, and no
\* lock is given back under a holder.
ReferencesAccounted ==
  \A p \in Procs, x \in Paths \ Unlockable :
    /\ refs[p][x] = Cardinality(Referrers(p, x))
    /\ owner[x] = p <=> refs[p][x] > 0

\* Two requests of different processes that are on the wire at once share no
\* lock, whatever happened to the connections that sent them.
LeasesExclude ==
  \A v, w \in Workers :
    ProcOf[v] # ProcOf[w] /\ req[v].stage = "http" /\ req[w].stage = "http" =>
      holds[v] \cap holds[w] \subseteq Unlockable

\* Two processes never refresh one identity's tokens at the same time.
OneRefreshPerIdentity ==
  \A v, w \in Workers :
    ProcOf[v] # ProcOf[w] /\ req[v].stage = "http" /\ req[w].stage = "http" =>
      req[v].for # req[w].for \/ IdentityLock(req[v].for) \in Unlockable

\* Two connections of different processes never both have their locks for one
\* profile home or one identity.
OneReadyPerLock ==
  \A c, d \in Conns :
    ProcOf[c] # ProcOf[d] /\ Ready(c) /\ Ready(d) =>
      /\ HomeOf[c] = HomeOf[d] => ProfileLock(HomeOf[c]) \in Unlockable
      /\ user[c] = user[d] => user[c] = NoUser \/ IdentityLock(user[c]) \in Unlockable

\* No two processes are READY under one lock, refresh one identity, or lease
\* one to a request at the same time (instance_lock.py, connection.py).
Exclusion == LeasesExclude /\ OneRefreshPerIdentity /\ OneReadyPerLock

\* Standby ends: a connection that waits for a lock gets on, once the other
\* processes' connections have stopped for good and whatever their requests
\* and cancelled starts left behind.
Waits(c) == phase[c] \in {"starting", "profile", "identity"}
OthersGone(c) == \A d \in Conns : ProcOf[d] # ProcOf[c] => phase[d] \in {"new", "stopped"}

NobodyStandsBy == \A c \in Conns : ~(OthersGone(c) /\ Waits(c))
StandbyEnds ==
  []<>NobodyStandsBy

=============================================================================
