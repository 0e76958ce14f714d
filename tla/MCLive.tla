------------------------------- MODULE MCLive --------------------------------
(***************************************************************************)
(* Liveness of the components for TLC, each alone and on a small instance, *)
(* under the fairness of its own module.                                   *)
(***************************************************************************)
EXTENDS SendQueue

CONSTANTS c1, NoPair

OneChat == [f \in 1..2 |-> c1]
HomeOfLocks == [c \in {"c1", "c3"} |-> IF c = "c1" THEN "p1" ELSE "p2"]

VARIABLE part   \* the component that runs
VARIABLES       \* the state of the others, each of which uses as many as it has
  x1, x2, x3, x4, x5, x6, x7, x8, x9, x10, x11, x12, x13, x14, x15, x16, x17,
  x18, x19, x20, x21, x22, x23, x24, x25, x26, x27, x28

\* The slots that a component with so many variables leaves alone.
After26 == <<x27, x28>>
Blank26 ==
  /\ x27 = 0 /\ x28 = 0
After24 == <<x25, x26, After26>>
Blank24 ==
  /\ x25 = 0 /\ x26 = 0 /\ Blank26
After23 == <<x24, After24>>
Blank23 ==
  /\ x24 = 0 /\ Blank24
After19 == <<x20, x21, x22, x23, After23>>
Blank19 ==
  /\ x20 = 0 /\ x21 = 0 /\ x22 = 0 /\ x23 = 0 /\ Blank23
After18 == <<x19, After19>>
Blank18 ==
  /\ x19 = 0 /\ Blank19
After13 == <<x14, x15, x16, x17, x18, After18>>
Blank13 ==
  /\ x14 = 0 /\ x15 = 0 /\ x16 = 0 /\ x17 = 0 /\ x18 = 0 /\ Blank18
After11 == <<x12, x13, After13>>
Blank11 ==
  /\ x12 = 0 /\ x13 = 0 /\ Blank13
After8 == <<x9, x10, x11, After11>>
Blank8 ==
  /\ x9 = 0 /\ x10 = 0 /\ x11 = 0 /\ Blank11
After0 == <<x1, x2, x3, x4, x5, x6, x7, x8, After8>>
Blank0 ==
  /\ x1 = 0 /\ x2 = 0 /\ x3 = 0 /\ x4 = 0 /\ x5 = 0 /\ x6 = 0 /\ x7 = 0 /\ x8 = 0
  /\ Blank8

D == INSTANCE ReliableDelivery WITH
  Messages <- {"m1"}, Signals <- {}, Chats <- {"c"},
  ChatOf <- [m \in {"m1"} |-> "c"], MaxSends <- 1, MaxGen <- 2,
  MaxFaults <- 1, MaxStops <- 1, MaxAway <- 0, MaxSenders <- 0, rows <- x1,
  rowid <- x2, seq <- x3, claimed <- x4, inbox <- x5, base <- x6, gen <- x7,
  link <- x8, state <- x9, stopping <- x10, main <- x11, gate <- x12,
  trk <- x13, rd <- x14, lanes <- x15, rec <- x16, seen <- x17, regs <- x18,
  writes <- x19, finishes <- x20, sender <- x21, used <- x22, hist <- x23
L == INSTANCE InstanceLock WITH
  Procs <- {"p1", "p2"}, Conns <- {"c1", "c3"}, Workers <- {},
  ProcOf <- HomeOfLocks, HomeOf <- [c \in {"c1", "c3"} |-> "h1"],
  Homes <- {"h1"}, Users <- {"u1"},
  FirstUser <- [c \in {"c1", "c3"} |-> "u1"], Adoptions <- {},
  Unlockable <- {}, NoUser <- "none", Nobody <- "nobody", owner <- x1,
  refs <- x2, holds <- x3, phase <- x4, user <- x5, live <- x6, prior <- x7,
  req <- x8
T == INSTANCE TokenRefresh WITH
  Callers <- {"watcher", "rest"}, Acts <- 2, MaxRotations <- 1,
  ReadLimit <- 2, MaxMishaps <- 2,
  NoPair <- NoPair, NoCaller <- "nobody", row <- x1, dbMark <- x2, gw <- x3,
  flight <- x4, caller <- x5, acts <- x6, tip <- x7, dead <- x8,
  mishaps <- x9, written <- x10, refused <- x11, known <- x12, strays <- x13
R == INSTANCE AccessRequests WITH
  Rows <- {"r"}, People <- {"p"}, Caps <- {"cap"}, Turns <- {"t1"},
  AskAvailable <- FALSE, DailyLimit <- 1, MaxStops <- 1, MaxFaults <- 0,
  Nobody <- "nobody", NoTurn <- "none", Lost <- "lost", requester <- x1,
  capability <- x2, status <- x3, wake <- x4, claim <- x5, notified <- x6,
  cooled <- x7, aged <- x8, overdue <- x9, lapsed <- x10, grant <- x11,
  call <- x12, card <- x13, receipts <- x14, spawned <- x15, task <- x16,
  turn <- x17, carried <- x18, proc <- x19, recovering <- x20, stops <- x21,
  faults <- x22, told <- x23, doubted <- x24
G == INSTANCE GroupBatches WITH
  Msgs <- {"m1", "m2", "m3"}, Mentions <- {"m2"}, Commands <- {},
  Granted <- {"m1"}, MaxMsgs <- 2, MaxChanges <- 0, MaxReady <- 1,
  MaxFailures <- 0, setting <- x1, unsignalled <- x2, changes <- x3,
  ready <- x4, seq <- x5, fetch <- x6, applied <- x7, cache <- x8, gate <- x9,
  gaveUp <- x10, fresh <- x11, lane <- x12, pend <- x13, idle <- x14,
  maxwait <- x15, waiter <- x16, disp <- x17, flag <- x18, grantFlag <- x19,
  turn <- x20, turnGrants <- x21, queued <- x22, open <- x23, failures <- x24,
  handed <- x25, ended <- x26, seen <- x27, forced <- x28
J == INSTANCE HeldJournal WITH
  Msgs <- {"m1", "m2"}, Controls <- {}, Recallable <- {}, MaxEvents <- 1,
  NoMsg <- "none", claimed <- x1, recalled <- x2, row <- x3, snap <- x4,
  term <- x5, hand <- x6, notified <- x7, proc <- x8, link <- x9, inst <- x10,
  blocked <- x11, drain <- x12, waiting <- x13, wake <- x14, notice <- x15,
  run <- x16, took <- x17, hosting <- x18, nonces <- x19, blocks <- x20,
  drops <- x21, crashes <- x22, fails <- x23, late <- x24, blind <- x25,
  told <- x26
U == INSTANCE TurnAuthority WITH
  Owners <- {"o1"}, Guests <- {"g1", "g2"}, Rich <- {"g1"}, Notices <- {},
  Greetings <- {}, Receipts <- {}, Wakes <- {}, MaxInputs <- 3,
  NoInput <- "none", reg <- x1, phase <- x2, restr <- x3, held <- x4,
  task <- x5, run <- x6, pend <- x7, steer <- x8, call <- x9, alone <- x10,
  strayed <- x11
I == INSTANCE Superseded WITH
  Conns <- {"c1", "c3"}, Procs <- {"p", "q"},
  ProcOf <- [c \in {"c1", "c3"} |-> IF c = "c1" THEN "p" ELSE "q"],
  Operators <- {"cli"}, MaxConflicts <- 1, MaxReclaims <- 1, MaxFaults <- 1,
  MaxRestarts <- 1, disk <- x1, gen <- x2, guard <- x3, failed <- x4,
  failedGen <- x5, pc <- x6, flag <- x7, event <- x8, snapshot <- x9,
  notices <- x10, refreshing <- x11, conflicts <- x12, reclaims <- x13,
  faults <- x14, restarts <- x15, began <- x16, blind <- x17, stood <- x18,
  told <- x19
S == INSTANCE Supervisor WITH
  Legacy <- {2}, MaxPairs <- 2, MaxReads <- 2, MaxEnds <- 1, ReadLimit <- 2,
  MaxDelay <- 4, MaxRetries <- 2, FloorUnit <- 3, FloorMax <- 6, FromEnv <- 1,
  pc <- x1, lock <- x2, waited <- x3, row <- x4, minted <- x5, dead <- x6,
  mem <- x7, db <- x8, rejected <- x9, failures <- x10, suspended <- x11,
  authFailed <- x12, started <- x13, stopping <- x14, stable <- x15,
  swapping <- x16, streak <- x17, retries <- x18, delay <- x19, wait <- x20,
  ends <- x21, reads <- x22, rotated <- x23
W == INSTANCE LivewareSample WITH
  MaxTries <- 1, MaxRestarts <- 1, MaxFailures <- 1, MaxDeaths <- 2,
  MaxStops <- 0, MaxLost <- 0, on <- x1, flow <- x2, lock <- x3, child <- x4,
  watched <- x5, intro <- x6, tries <- x7, restarts <- x8, row <- x9,
  apps <- x10, card <- x11, left <- x12, failures <- x13, deaths <- x14,
  stops <- x15, misses <- x16, lost <- x17, leaked <- x18

\* A step of one component.
Queue(A) == part = "queue" /\ A /\ UNCHANGED <<part, After0>>
Delivery(A) == part = "delivery" /\ A /\ UNCHANGED <<part, vars, After23>>
Locks(A) == part = "locks" /\ A /\ UNCHANGED <<part, vars, After8>>
Tokens(A) == part = "tokens" /\ A /\ UNCHANGED <<part, vars, After13>>
Requests(A) == part = "requests" /\ A /\ UNCHANGED <<part, vars, After24>>
Groups(A) == part = "groups" /\ A /\ UNCHANGED <<part, vars>>
Journal(A) == part = "journal" /\ A /\ UNCHANGED <<part, vars, After26>>
Authority(A) == part = "authority" /\ A /\ UNCHANGED <<part, vars, After11>>
Takeover(A) == part = "takeover" /\ A /\ UNCHANGED <<part, vars, After19>>
Supervision(A) == part = "supervisor" /\ A /\ UNCHANGED <<part, vars, After23>>
Sample(A) == part = "sample" /\ A /\ UNCHANGED <<part, vars, After18>>

MCInit ==
  /\ Init
  /\ \/ part = "queue" /\ Blank0
     \/ part = "delivery" /\ D!Init /\ Blank23
     \/ part = "locks" /\ L!Init /\ Blank8
     \/ part = "tokens" /\ T!Init /\ Blank13
     \/ part = "requests" /\ R!Init /\ Blank24
     \/ part = "groups" /\ G!Init
     \/ part = "journal" /\ J!Init /\ Blank26
     \/ part = "authority" /\ U!Init /\ Blank11
     \/ part = "takeover" /\ I!Init /\ Blank19
     \/ part = "supervisor" /\ S!Init /\ Blank23
     \/ part = "sample" /\ W!Init /\ Blank18

MCNext ==
  \/ Queue(Next) \/ Delivery(D!Next /\ D!Mishaps' <= 1) \/ Locks(L!Next)
  \/ Tokens(T!Next /\ T!OneKind') \/ Requests(R!Next) \/ Groups(G!Next) \/ Journal(J!Next)
  \/ Authority(U!Next) \/ Takeover(I!Next) \/ Supervision(S!Next)
  \/ Sample(W!Next)

MCvars == <<part, vars, After0>>

\* The fairness of each module.  The component never changes, so that every
\* conjunct is a condition of its own for each of them.
Fair ==
  /\ WF_MCvars(\/ Queue(Connect) \/ Delivery(D!Handshake)
               \/ Locks(L!GoesOn("c1")) \/ Tokens(T!Send)
               \/ Requests(R!SomeReceiptEnds) \/ Groups(G!IdleFires)
               \/ Journal(J!RunGoesOn("m1")) \/ Authority(U!HeldGoes)
               \/ Takeover(I!Check("c1")) \/ Supervision(S!Supervise)
               \/ Sample(W!Ready))
  /\ WF_MCvars(\/ Queue(HelloOk) \/ Delivery(D!ReaderGoesOn)
               \/ Locks(L!GoesOn("c3")) \/ Tokens(T!Answers)
               \/ Requests(R!ClaimWake("r")) \/ Groups(G!WaiterFindsIdle)
               \/ Journal(J!RunGoesOn("m2")) \/ Authority(U!HeldDone)
               \/ Takeover(I!Check("c3"))
               \/ Supervision(S!HelloOk \/ S!HelloRejected) \/ Sample(W!Intro))
  /\ WF_MCvars(\/ Queue(Teardown) \/ Delivery(D!WriteGoesOn)
               \/ Locks(L!IsReplaced("c1")) \/ Tokens(T!Starts("watcher"))
               \/ Requests(R!WakeGoesOn("r")) \/ Groups(G!HostTurnEnds)
               \/ Journal(J!DrainStarts)
               \/ Authority(\E i \in U!Inputs : U!AdapterStep(i))
               \/ Takeover(I!ReadGeneration("c1"))
               \/ Supervision(S!HolderLeaves) \/ Sample(W!Step("start")))
  /\ WF_MCvars(\/ Queue(AwayCloses) \/ Delivery(D!InlineGoesOn)
               \/ Locks(L!IsReplaced("c3")) \/ Tokens(T!Starts("rest"))
               \/ Requests(R!Overdue("r")) \/ Groups(G!LaneGoesOn)
               \/ Journal(J!DrainStep) \/ Takeover(I!ReadGeneration("c3"))
               \/ Sample(W!Step("crash")))
  /\ WF_MCvars(\/ Queue(Flush) \/ Delivery(D!Ack)
               \/ Requests(R!Lapse("r")) \/ Groups(G!GateTimesOut)
               \/ Tokens(T!Poll) \/ Journal(J!Unblock \/ J!Deadline)
               \/ Takeover(I!Record("c1") \/ I!RecordUnlocked("c1"))
               \/ Sample(W!ExitSeen("server")))
  /\ WF_MCvars(\/ Queue(StopEnds) \/ Delivery(D!LaneGoesOn("c"))
               \/ Requests(R!TurnGoesOn("t1")) \/ Groups(G!DispatchGoesOn)
               \/ Tokens(T!Settles) \/ Journal(J!LinkUp)
               \/ Takeover(I!Record("c3") \/ I!RecordUnlocked("c3"))
               \/ Sample(W!ExitSeen("tunnel")))
  /\ WF_MCvars(\/ Queue(Returning(1)) \/ Delivery(D!RecoveryGoesOn("start"))
               \/ Requests(R!Writes("p")) \/ Tokens(T!Applies("watcher"))
               \/ Takeover(I!Reclaimed("cli") \/ I!ReclaimDies("cli")))
  /\ WF_MCvars(\/ Queue(Returning(2)) \/ Delivery(D!RecoveryGoesOn("retry"))
               \/ Requests(R!Recover) \/ Tokens(T!Applies("rest"))
               \/ Takeover(I!Reclaimed("p") \/ I!ReclaimDies("p")))
  /\ WF_MCvars(\/ Queue(AckTimesOut(1)) \/ Delivery(D!RetryWakes)
               \/ Requests(R!Starts)
               \/ Takeover(I!Reclaimed("q") \/ I!ReclaimDies("q")))
  /\ WF_MCvars(\/ Queue(AckTimesOut(2)) \/ Delivery(D!StartRecoveryEnds))
  /\ WF_MCvars(\/ Delivery(D!RetryEnds))
  /\ WF_MCvars(\/ Delivery(D!FinishGoesOn))
  /\ WF_MCvars(\/ Delivery(D!Flushed))
  /\ WF_MCvars(\/ Delivery(D!Teardown))
  /\ WF_MCvars(\/ Delivery(D!AwayCloses))
  /\ WF_MCvars(\/ Delivery(D!Resume))
  /\ WF_MCvars(\/ Delivery(D!StopEnds))
  /\ SF_MCvars(Tokens(T!AnswersForGood) \/ Supervision(S!WatchNotices))

MCSpec == MCInit /\ [][MCNext]_MCvars

MCFairSpec == MCSpec /\ Fair

\* Whatever the link, the locks or another installation do: every call is
\* answered (or its frame lost or stranded), what was sent is handled and
\* acknowledged, and no connection stays in standby with nobody in its way
\* (connection.py, instance_lock.py, install_identity.py).
TransportLive ==
  []<>/\ part = "queue" => NobodyForgotten
      /\ part = "delivery" => D!Settled
      /\ part = "locks" => L!NobodyStandsBy
      /\ part = "takeover" => I!StandbyHasCause

\* The supervisor comes back to READY, and the sample to running; memory and
\* store come to agree again, and every task that asked for a refresh returns,
\* whatever others ask meanwhile (connection.py, liveware_sample.py,
\* token_refresh.py).
ProfileLive ==
  /\ []<>/\ part = "supervisor" => S!Recovered
         /\ part = "sample" => W!SampleRuns
         /\ part = "tokens" => T!Agree
  /\ []<>(part = "tokens" => T!Returned("watcher"))
  /\ []<>(part = "tokens" => T!Returned("rest"))

\* A decision reaches its guest, a batch leaves, a held message is handed over
\* or given up, and an owner's message is served (tool_requests.py,
\* group_message_coalescer.py, history_maintenance.py, adapter.py).
TurnsLive ==
  []<>/\ part = "requests" => R!GuestKnows
      /\ part = "groups" => G!NoneHeld
      /\ part = "journal" => J!NoneOpen
      /\ part = "authority" => U!NoneHeld
=============================================================================
