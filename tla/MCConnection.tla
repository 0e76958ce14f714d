---------------------------- MODULE MCConnection -----------------------------
(***************************************************************************)
(* The parts of a connection for TLC, each alone: the instance locks, the  *)
(* queue of outbound frames, the supervisor with its backoff, and the      *)
(* installation that another one has superseded.                           *)
(***************************************************************************)
EXTENDS InstanceLock, TLC

CONSTANTS p1, p2, c1, c2, c3, w1, w2, h1, u1, u2

\* Two connections of the first process replace each other; the third belongs
\* to another process.
Place == c1 :> p1 @@ c2 :> p1 @@ c3 :> p2 @@ w1 :> p1 @@ w2 :> p2
Places == [h \in Holders |-> Place[h]]
OneHome == [c \in Conns |-> h1]
ProfileUnlockable == {ProfileLock(h1)}

\* The third connection waits for its activation, under the identity the
\* first ones have; one of these changes to another identity.
LastUnpaired == [c \in Conns |-> IF c = c3 THEN NoUser ELSE u1]
Changes == {<<c1, u2>>, <<c3, u1>>}

VARIABLE part   \* the component that runs
VARIABLES       \* the state of the others, each of which uses as many as it has
  x1, x2, x3, x4, x5, x6, x7, x8, x9, x10, x11, x12, x13, x14, x15, x16, x17,
  x18, x19, x20, x21, x22, x23

\* The slots that a component with so many variables leaves alone.
After19 == <<x20, x21, x22, x23>>
Blank19 ==
  /\ x20 = 0 /\ x21 = 0 /\ x22 = 0 /\ x23 = 0
After0 == <<x1, x2, x3, x4, x5, x6, x7, x8, x9, x10, x11, x12, x13, x14, x15,
    x16, x17, x18, x19, After19>>
Blank0 ==
  /\ x1 = 0 /\ x2 = 0 /\ x3 = 0 /\ x4 = 0 /\ x5 = 0 /\ x6 = 0 /\ x7 = 0 /\ x8 = 0
  /\ x9 = 0 /\ x10 = 0 /\ x11 = 0 /\ x12 = 0 /\ x13 = 0 /\ x14 = 0 /\ x15 = 0 /\ x16 = 0
  /\ x17 = 0 /\ x18 = 0 /\ x19 = 0 /\ Blank19

Q == INSTANCE SendQueue WITH
  Frames <- 1..3, Acked <- 1..2, Patient <- {1, 3}, Malformed <- {},
  Chats <- {"c"}, ChatOf <- [f \in 1..3 |-> "c"], QueueMax <- 1,
  MaxSockets <- 2, GivesUp <- TRUE, NoFrame <- 0, state <- x1, stopping <- x2,
  sup <- x3, ws <- x4, opened <- x5, broken <- x6, queue <- x7,
  flushing <- x8, call <- x9, on <- x10, pending <- x11, rejected <- x12,
  deaf <- x13, got <- x14, heard <- x15, accepted <- x16, failed <- x17,
  lost <- x18, displaced <- x19
S == INSTANCE Supervisor WITH
  Legacy <- {2}, MaxPairs <- 2, MaxReads <- 2, MaxEnds <- 3, ReadLimit <- 2,
  MaxDelay <- 4, MaxRetries <- 2, FloorUnit <- 3, FloorMax <- 5, FromEnv <- 1,
  pc <- x1, lock <- x2, waited <- x3, row <- x4, minted <- x5, dead <- x6,
  mem <- x7, db <- x8, rejected <- x9, failures <- x10, suspended <- x11,
  authFailed <- x12, started <- x13, stopping <- x14, stable <- x15,
  swapping <- x16, streak <- x17, retries <- x18, delay <- x19, wait <- x20,
  ends <- x21, reads <- x22, rotated <- x23
I == INSTANCE Superseded WITH
  Conns <- {c1, c3}, Procs <- {p1, p2}, ProcOf <- Place, Operators <- {"cli"},
  MaxConflicts <- 2, MaxReclaims <- 1, MaxFaults <- 1, MaxRestarts <- 1,
  disk <- x1, gen <- x2, guard <- x3, failed <- x4, failedGen <- x5, pc <- x6,
  flag <- x7, event <- x8, snapshot <- x9, notices <- x10, refreshing <- x11,
  conflicts <- x12, reclaims <- x13, faults <- x14, restarts <- x15,
  began <- x16, blind <- x17, stood <- x18, told <- x19

MCInit ==
  /\ Init
  /\ \/ part = "locks" /\ Blank0
     \/ part = "queue" /\ Q!Init /\ Blank19
     \/ part = "supervisor" /\ S!Init
     \/ part = "takeover" /\ I!Init /\ Blank19

MCNext ==
  \/ part = "locks" /\ Next /\ UNCHANGED <<part, After0>>
  \/ part = "queue" /\ Q!Next /\ UNCHANGED <<part, vars, After19>>
  \/ part = "supervisor" /\ S!Next /\ UNCHANGED <<part, vars>>
  \/ part = "takeover" /\ I!Next /\ UNCHANGED <<part, vars, After19>>

MCvars == <<part, vars, After0>>
MCSpec == MCInit /\ [][MCNext]_MCvars

\* What the proofs about a takeover take the constants to be.
ASSUME TakeoverAssumption == I!TakeoverConstants

\* What the proofs about the supervisor take the constants to be.
ASSUME SupervisorAssumption == S!SupervisorConstants

\* Every caller of send_frame is owned by somebody, an answer tells what
\* happened to the frame, and no frame is sent twice or before an earlier one
\* (connection.py, send_frame, the queue and its flush).
QueueSafe == part = "queue" => Q!QueueSafe

\* A connection is only opened with a pair that may be usable, whatever
\* changed in standby (connection.py, the supervisor's loop).
SupervisorSafe == part = "supervisor" => S!SupervisorSafe

\* A reclaim that was completed stands, and each takeover is told to the owner
\* once (install_identity.py, connection.py).
TakeoverSafe == part = "takeover" => I!TakeoverSafe

\* Gateways that evict each other back off, nobody refreshes first with a pair
\* that was rotated while he stood by, and a superseded process stops
\* refreshing (connection.py).
ConnectionSteps ==
  [][/\ part = "supervisor" => S!EvictionsBackOffStep /\ S!NoStaleFirstRefreshStep
     /\ part = "takeover" => I!NoRefreshOnceTakenOverStep]_MCvars
=============================================================================
