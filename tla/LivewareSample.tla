-------------------------- MODULE LivewareSample --------------------------
(***************************************************************************)
(* The supervisor of the sample app (liveware_sample.py, started and        *)
(* stopped by adapter.py).                                                  *)
(*                                                                         *)
(* A READY starts the one supervisor of the adapter or, when nothing is     *)
(* running or scheduled, kicks it.  A launch downloads the bundle, starts   *)
(* the server, logs the CLI in, finds or creates the app, binds the tunnel, *)
(* starts the agent, registers the app's card and saves its row; two kinds  *)
(* of launch exist, the start (retried on a ladder) and the relaunch after  *)
(* a child died, serialised by a lock.  Every await of a launch is a step   *)
(* of its own; a failure of any of them ends the launch.                    *)
(***************************************************************************)
EXTENDS Naturals, FiniteSets

CONSTANTS
  MaxTries,      \* length of the start ladder
  MaxRestarts,   \* restarts of one window
  MaxFailures, MaxDeaths, MaxStops, MaxLost

Flows == {"start", "crash"}
Children == {"server", "tunnel"}
Free == "free"
NoRow == [status |-> "none", url |-> 0, intro |-> 0]
NoFlow == [pc |-> "off", row |-> NoRow, boot |-> FALSE, current |-> TRUE]

VARIABLES
  on,         \* the adapter holds a supervisor
  flow,       \* per kind: the launch under way
  lock,       \* _launch_lock
  child,      \* the two children: "none", "up", "dead"
  watched,    \* children with a watcher of this generation
  intro,      \* the delivery of the intro
  tries,      \* position in the start ladder
  restarts,   \* restarts counted in the window
  row,        \* the liveware_sample row
  apps,       \* apps the liveware side has
  card,       \* the tile in ClawChat: "none", "shown", "removed"
  left,       \* an agent of an earlier process runs
  failures, deaths, stops,     \* bounds
  misses,     \* lookups that did not see an existing app
  lost,       \* a write of the row was lost
  leaked      \* a live child was overwritten

vars == <<on, flow, lock, child, watched, intro, tries, restarts, row, apps, card,
          left, failures, deaths, stops, misses, lost, leaked>>

NoChild == [c \in Children |-> "none"]

Init ==
  /\ on = FALSE
  /\ flow = [f \in Flows |-> NoFlow]
  /\ lock = Free
  /\ child = NoChild
  /\ watched = {} /\ intro = "none" /\ tries = 0 /\ restarts = 0
  /\ row = NoRow
  /\ apps = 0 /\ card = "none" /\ left = FALSE
  /\ failures = 0 /\ deaths = 0 /\ stops = 0
  /\ misses = 0 /\ lost = 0 /\ leaked = FALSE

Memory == <<on, tries, restarts>>
Bounds == <<failures, deaths, stops, misses, lost>>

(***************************************************************************)
(* Parts of the steps                                                      *)
(***************************************************************************)
\* Mutant of Idle: a pending relaunch does not count.
IdleIgnoresTasks ==
  /\ flow["start"].pc = "off" /\ lock = Free
  /\ child = NoChild /\ intro = "none"

\* _is_idle: nothing runs and nothing is scheduled.
Idle ==
  /\ \A f \in Flows : flow[f].pc = "off"
  /\ lock = Free /\ child = NoChild /\ intro = "none"

\* The launch reads the row; a disabled one ends it.
Begun(f) ==
  IF row.status = "disabled" \/ (f = "crash" /\ row.status = "none")
    THEN [flow EXCEPT ![f] = NoFlow]
    ELSE [flow EXCEPT ![f] = [pc |-> "list", row |-> row, boot |-> row.status = "none",
                              current |-> TRUE]]

\* _kill_children: the generation moves, so what was watched is not any more.
Kill ==
  /\ child' = NoChild
  /\ watched' = {}
  /\ intro' = IF intro = "none" THEN "none" ELSE "stale"

Outdated(fs) == [f \in Flows |-> [fs[f] EXCEPT !.current = FALSE]]

To(f, pc) == [flow EXCEPT ![f].pc = pc]

\* A launch that finds the generation moved kills what there is and ends.
Bails(f) ==
  /\ ~flow[f].current
  /\ Kill
  /\ lock' = Free
  /\ flow' = [flow EXCEPT ![f] = NoFlow]
  /\ UNCHANGED row

Unless(f, pc) ==
  \/ Bails(f)
  \/ /\ flow[f].current
     /\ flow' = To(f, pc)
     /\ UNCHANGED <<lock, row, child, watched, intro>>

\* A child is started and kept, over whatever was kept before.
Started(f, c, pc) ==
  /\ leaked' = (leaked \/ child[c] = "up")
  /\ \/ Bails(f)
     \/ /\ flow[f].current
        /\ child' = [child EXCEPT ![c] = "up"]
        /\ flow' = To(f, pc)
        /\ UNCHANGED <<lock, row, watched, intro>>

\* A write of the row, which fails without an error.
Save(r) ==
  \/ row' = r /\ UNCHANGED lost
  \/ lost < MaxLost /\ lost' = lost + 1 /\ UNCHANGED row

\* The app's id, before the steps that can still fail.
SavePending == Save([status |-> "pending", url |-> 0, intro |-> row.intro])

(***************************************************************************)
(* READY and the waits                                                     *)
(***************************************************************************)
\* Mutant of Ready: a supervisor that exists is never kicked.
ReadyOnce ==
  /\ ~on
  /\ on' = TRUE /\ tries' = 0
  /\ flow' = Begun("start")
  /\ UNCHANGED <<lock, child, watched, intro, restarts, row, apps, card, left, Bounds, leaked>>

Ready ==
  /\ ~on \/ Idle
  /\ on' = TRUE /\ tries' = 0
  /\ flow' = Begun("start")
  /\ UNCHANGED <<lock, child, watched, intro, restarts, row, apps, card, left, Bounds, leaked>>

\* The delay of a retry or of a relaunch ends.
Wake(f) ==
  /\ flow[f].pc = "sleep"
  /\ flow' = Begun(f)
  /\ UNCHANGED <<on, lock, child, watched, intro, tries, restarts, row, apps, card, left,
                 Bounds, leaked>>

\* The window of the counted restarts passes.
WindowPasses ==
  /\ restarts > 0 /\ on
  /\ restarts' = 0
  /\ UNCHANGED <<on, flow, lock, child, watched, intro, tries, row, apps, card, left, Bounds, leaked>>

(***************************************************************************)
(* The launch                                                              *)
(***************************************************************************)
\* Mutant of List: the launch of a removed app goes on.
ListGoesOn(f) ==
  LET removed == ~flow[f].boot /\ flow[f].row.status # "pending" /\ card # "shown" IN
  /\ flow[f].pc = "list"
  /\ row' = IF removed THEN [row EXCEPT !.status = "disabled"] ELSE row
  /\ flow' = [flow EXCEPT ![f].pc = "lock"]
  /\ UNCHANGED <<Memory, lock, child, watched, intro, apps, card, left, Bounds, leaked>>

\* The owner has apps already, or removed this one: the launch ends.
List(f) ==
  LET removed == ~flow[f].boot /\ flow[f].row.status # "pending" /\ card # "shown" IN
  /\ flow[f].pc = "list"
  /\ \/ /\ removed
        /\ Save([row EXCEPT !.status = "disabled"])
     \/ /\ ~removed
        /\ UNCHANGED <<row, lost>>
  /\ flow' = [flow EXCEPT ![f] = IF removed \/ (flow[f].boot /\ card = "shown") THEN NoFlow
                                 ELSE [@ EXCEPT !.pc = "lock"]]
  /\ UNCHANGED <<Memory, lock, child, watched, intro, apps, card, left, failures, deaths,
                 stops, misses, leaked>>

Lock(f) ==
  /\ flow[f].pc = "lock" /\ lock = Free
  /\ lock' = f
  /\ flow' = [flow EXCEPT ![f].pc = "download", ![f].current = TRUE]
  /\ UNCHANGED <<Memory, child, watched, intro, row, apps, card, left, Bounds, leaked>>

Download(f) ==
  /\ flow[f].pc = "download"
  /\ Unless(f, "server")
  /\ UNCHANGED <<Memory, apps, card, left, Bounds, leaked>>

Server(f) ==
  /\ flow[f].pc = "server"
  /\ Started(f, "server", "login")
  /\ UNCHANGED <<Memory, apps, card, left, Bounds>>

\* An app that was never confirmed is looked up by its name.
Login(f) ==
  /\ flow[f].pc = "login"
  /\ Unless(f, IF flow[f].boot \/ flow[f].row.status = "pending" THEN "find" ELSE "bind")
  /\ UNCHANGED <<Memory, apps, card, left, Bounds, leaked>>

\* Mutant of Find: the first launch creates an app without looking.
FindNothing(f) ==
  /\ flow[f].pc = "find"
  /\ flow' = To(f, IF flow[f].boot THEN "create" ELSE "bind")
  /\ UNCHANGED <<Memory, lock, child, watched, intro, row, apps, card, left, Bounds, leaked>>

\* The list of the CLI shows the app, or cannot be read.
Find(f) ==
  /\ flow[f].pc = "find"
  /\ \/ /\ flow[f].boot /\ apps > 0
        /\ SavePending
        /\ flow' = To(f, "bind")
        /\ UNCHANGED misses
     \/ /\ apps = 0 \/ ~flow[f].boot
        /\ flow' = To(f, IF flow[f].boot THEN "create" ELSE "bind")
        /\ UNCHANGED <<row, misses, lost>>
     \/ /\ flow[f].boot /\ apps > 0 /\ misses < MaxLost
        /\ misses' = misses + 1
        /\ flow' = To(f, "create")
        /\ UNCHANGED <<row, lost>>
  /\ UNCHANGED <<Memory, lock, child, watched, intro, apps, card, left, failures, deaths,
                 stops, leaked>>

\* The id is saved before anything else can fail.
Create(f) ==
  /\ flow[f].pc = "create"
  /\ apps' = apps + 1
  /\ SavePending
  /\ flow' = To(f, "bind")
  /\ UNCHANGED <<Memory, lock, child, watched, intro, card, left, failures, deaths, stops,
                 misses, leaked>>

Bind(f) ==
  /\ flow[f].pc = "bind"
  /\ Unless(f, "agent")
  /\ UNCHANGED <<Memory, apps, card, left, Bounds, leaked>>

\* _ensure_tunnel_agent: a start adopts an agent that runs, a relaunch never.
Agent(f) ==
  /\ flow[f].pc = "agent"
  /\ \/ /\ f = "start" /\ left
        /\ flow' = To(f, "register")
        /\ UNCHANGED <<lock, row, child, watched, intro, leaked>>
     \/ /\ ~(f = "start" /\ left)
        /\ Started(f, "tunnel", "register")
  /\ UNCHANGED <<Memory, apps, card, left, Bounds>>

\* _handle_child_exit: the restarts of a window are counted, then given up.
Relaunches ==
  /\ Kill
  /\ \/ /\ restarts >= MaxRestarts
        /\ row' = IF row.status = "none" THEN row ELSE [row EXCEPT !.status = "failed"]
        /\ UNCHANGED restarts
     \/ /\ restarts < MaxRestarts
        /\ restarts' = restarts + 1
        /\ UNCHANGED row

\* The card, the row and the watchers, with no way out between them.  A child
\* that died meanwhile is handled as soon as it is watched.
Register(f) ==
  LET saved == [status |-> "active", url |-> 1, intro |-> row.intro] IN
  /\ flow[f].pc = "register"
  /\ card' = IF flow[f].boot \/ flow[f].row.url = 0 THEN "shown" ELSE card
  /\ lock' = Free
  /\ \/ /\ \E c \in Children : child[c] = "dead"
        /\ Kill
        /\ restarts' = IF restarts >= MaxRestarts THEN restarts ELSE restarts + 1
        /\ row' = [saved EXCEPT !.status = IF restarts >= MaxRestarts THEN "failed" ELSE "active"]
        /\ flow' = [Outdated(flow) EXCEPT
             ![f] = NoFlow,
             !["crash"] = IF restarts >= MaxRestarts THEN NoFlow ELSE [NoFlow EXCEPT !.pc = "sleep"]]
        /\ UNCHANGED lost
     \/ /\ \A c \in Children : child[c] # "dead"
        /\ Save(saved)
        /\ watched' = {c \in Children : child[c] # "none"}
        /\ intro' = IF flow[f].row.intro = 0 THEN "sending" ELSE intro
        /\ flow' = [flow EXCEPT ![f] = NoFlow]
        /\ UNCHANGED <<child, restarts>>
  /\ UNCHANGED <<on, tries, apps, left, failures, deaths, stops, misses, leaked>>

\* An exception: the start is tried again on its ladder, the relaunch marks
\* the row.  The other side may have done what was asked.
Fail(f) ==
  /\ flow[f].pc \notin {"off", "sleep", "lock"} /\ failures < MaxFailures
  /\ failures' = failures + 1
  /\ Kill
  /\ lock' = IF lock = f THEN Free ELSE lock
  /\ apps' \in (IF flow[f].pc = "create" THEN {apps, apps + 1} ELSE {apps})
  /\ card' \in (IF flow[f].pc = "register" /\ (flow[f].boot \/ flow[f].row.url = 0)
                THEN {card, "shown"} ELSE {card})
  /\ \/ /\ f = "start"
        /\ tries' = tries + 1
        /\ flow' = [Outdated(flow) EXCEPT
             ![f] = IF tries < MaxTries THEN [NoFlow EXCEPT !.pc = "sleep"] ELSE NoFlow]
        /\ UNCHANGED row
     \/ /\ f = "crash"
        /\ row' = IF row.status = "none" THEN row ELSE [row EXCEPT !.status = "failed"]
        /\ flow' = [Outdated(flow) EXCEPT ![f] = NoFlow]
        /\ UNCHANGED tries
  /\ UNCHANGED <<on, restarts, left, deaths, stops, misses, lost, leaked>>

(***************************************************************************)
(* The children and the intro                                              *)
(***************************************************************************)
Dies(c) ==
  /\ child[c] = "up" /\ deaths < MaxDeaths
  /\ deaths' = deaths + 1
  /\ child' = [child EXCEPT ![c] = "dead"]
  /\ UNCHANGED <<Memory, flow, lock, watched, intro, row, apps, card, left, failures, stops,
                 misses, lost, leaked>>

ExitSeen(c) ==
  /\ c \in watched /\ child[c] = "dead"
  /\ Relaunches
  /\ flow' = [Outdated(flow) EXCEPT
       !["crash"] = IF restarts >= MaxRestarts THEN @ ELSE [NoFlow EXCEPT !.pc = "sleep"]]
  /\ UNCHANGED <<on, tries, lock, apps, card, left, Bounds, leaked>>

\* _deliver_intro and _retry_intro: one whose generation moved has no effect.
Intro ==
  /\ \/ intro = "sending" /\ Save([row EXCEPT !.intro = IF row.status = "none" THEN 0 ELSE 1])
                          /\ intro' = "none"
     \/ intro = "sending" /\ intro' = "waiting" /\ UNCHANGED <<row, lost>>
     \/ intro = "waiting" /\ intro' \in {"sending", "none"} /\ UNCHANGED <<row, lost>>
     \/ intro = "stale" /\ intro' = "none" /\ UNCHANGED <<row, lost>>
  /\ UNCHANGED <<Memory, flow, lock, child, watched, apps, card, left, failures, deaths,
                 stops, misses, leaked>>

(***************************************************************************)
(* The world                                                               *)
(***************************************************************************)
\* disconnect: every task is cancelled and the children are killed; a process
\* that ends by itself leaves its agent behind.
Stop ==
  /\ on /\ stops < MaxStops
  /\ stops' = stops + 1
  /\ on' = FALSE /\ tries' = 0 /\ restarts' = 0
  /\ flow' = [f \in Flows |-> NoFlow]
  /\ lock' = Free /\ child' = NoChild /\ watched' = {} /\ intro' = "none"
  /\ left' \in {left, left \/ child["tunnel"] = "up"}
  /\ apps' \in (IF \E f \in Flows : flow[f].pc = "create" THEN {apps, apps + 1} ELSE {apps})
  /\ UNCHANGED <<row, card, failures, deaths, misses, lost, leaked>>

OwnerRemoves ==
  /\ card = "shown"
  /\ card' = "removed"
  /\ UNCHANGED <<Memory, flow, lock, child, watched, intro, row, apps, left, Bounds, leaked>>

Step(f) ==
  \/ Wake(f) \/ List(f) \/ Lock(f) \/ Download(f) \/ Server(f) \/ Login(f) \/ Find(f)
  \/ Create(f) \/ Bind(f) \/ Agent(f) \/ Register(f)

Next ==
  \/ Ready \/ WindowPasses \/ Intro \/ Stop \/ OwnerRemoves
  \/ \E f \in Flows : Step(f) \/ Fail(f)
  \/ \E c \in Children : Dies(c) \/ ExitSeen(c)

Spec == Init /\ [][Next]_vars

\* Launches go on, exits are noticed, deliveries end and the connection comes
\* back to READY again and again.
FairSpec ==
  /\ Spec /\ WF_vars(Ready) /\ WF_vars(Intro)
  /\ \A f \in Flows : WF_vars(Step(f))
  /\ \A c \in Children : WF_vars(ExitSeen(c))

(***************************************************************************)
(* Properties                                                              *)
(***************************************************************************)
Rows == [status : {"none", "pending", "active", "failed", "disabled"}, url : 0 .. 1, intro : 0 .. 1]

\* The types of the variables.
TypeOK ==
  /\ on \in BOOLEAN /\ left \in BOOLEAN /\ leaked \in BOOLEAN
  /\ flow \in [Flows -> [pc : {"off", "sleep", "list", "lock", "download", "server", "login",
                               "find", "create", "bind", "agent", "register"},
                         row : Rows, boot : BOOLEAN, current : BOOLEAN]]
  /\ lock \in Flows \cup {Free}
  /\ child \in [Children -> {"none", "up", "dead"}]
  /\ watched \subseteq Children
  /\ intro \in {"none", "sending", "waiting", "stale"}
  /\ row \in Rows /\ card \in {"none", "shown", "removed"}
  /\ {tries, restarts, apps, failures, deaths, stops, misses, lost} \subseteq Nat

\* No launch creates a second app next to one the liveware side has, whichever
\* of them died and whatever row they left, unless the lookup did not see it
\* (liveware_sample.py, _bootstrap: app create is not idempotent).
OneApp == apps <= 1 + misses

\* A child the supervisor started is never forgotten: not overwritten by
\* another launch, not running without a watcher between two launches.
EveryChildWatched ==
  /\ ~leaked
  /\ lock = Free => \A c \in Children : child[c] # "none" => c \in watched

\* Once the row says that the owner removed the app, nothing else is written
\* over it: neither a launch under way, nor a crash, nor a failed relaunch.
RemovedForGoodStep ==
  row.status = "disabled" => row'.status = "disabled"

\* No step of the code does otherwise.
RemovedForGood == [][RemovedForGoodStep]_row

\* As long as the connection comes back, the sample runs again after any
\* failures, unless the owner removed it or its row could not be written.
SampleRuns == \/ child["server"] = "up" /\ (child["tunnel"] = "up" \/ left)
              \/ card = "removed" \/ lost > 0
SampleReturns == []<>SampleRuns
=============================================================================
