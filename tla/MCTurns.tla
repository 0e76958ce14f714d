------------------------------- MODULE MCTurns -------------------------------
(***************************************************************************)
(* What happens to an inbound message, for TLC, each part alone: the access*)
(* requests of guests, group batches, the held journal, the history, the   *)
(* authority of a turn and of its tool calls, confirmations and replies.   *)
(***************************************************************************)
EXTENDS AccessRequests, TLC

CONSTANTS r1, p1, c1, t1, t2

\* The turns that may carry the notice of a decision are alike.
Alike == Permutations(Turns)

\* One of each kind of tool, and hosts that differ in what they offer.
Tools == {"request", "manage", "wake", "sendfile", "sendmsg", "term", "plain",
          "odd", "subagent"}
Toolset == [t \in Tools |->
              CASE t \in {"request", "manage"} -> "admin"
                [] t \in {"term", "subagent"} -> "host"
                [] t \in {"sendfile", "wake"} -> "clawchat"
                [] OTHER -> "web"]
Crossing == {"sendfile", "sendmsg"}
Host(binds, grants, approves, stable) ==
    [binds |-> binds, grants |-> grants, approve |-> approves,
     stable |-> stable, approves |-> TRUE, asks |-> TRUE, askUnmatched |-> FALSE,
     strange |-> FALSE, narrows |-> TRUE, catalog |-> TRUE, surface |-> FALSE]
Hosts == {Host(TRUE, TRUE, FALSE, TRUE), Host(TRUE, FALSE, TRUE, FALSE),
          Host(FALSE, TRUE, TRUE, FALSE),
          [Host(TRUE, TRUE, FALSE, FALSE) EXCEPT !.askUnmatched = TRUE,
                                                 !.strange = TRUE]}
ARule(kind, what, mode, ends) ==
    [kind |-> kind, what |-> what, mode |-> mode, ends |-> ends]
Rules == {ARule("tool", "term", "direct", TRUE),
          ARule("tool", "sendfile", "deny", FALSE),
          ARule("capability", Crossing, "direct", FALSE),
          ARule("all", "all", "ask", FALSE)}

\* The session each approval is asked in.
AskedIn == [r \in {"a1", "c1", "b"} |-> IF r = "b" THEN "d" ELSE "g1"]

VARIABLE part   \* the component that runs
VARIABLES       \* the state of the others, each of which uses as many as it has
  x1, x2, x3, x4, x5, x6, x7, x8, x9, x10, x11, x12, x13, x14, x15, x16, x17,
  x18, x19, x20, x21, x22, x23, x24, x25, x26, x27, x28

\* The slots that a component with so many variables leaves alone.
After26 == <<x27, x28>>
Blank26 ==
  /\ x27 = 0 /\ x28 = 0
After16 == <<x17, x18, x19, x20, x21, x22, x23, x24, x25, x26, After26>>
Blank16 ==
  /\ x17 = 0 /\ x18 = 0 /\ x19 = 0 /\ x20 = 0 /\ x21 = 0 /\ x22 = 0 /\ x23 = 0 /\ x24 = 0
  /\ x25 = 0 /\ x26 = 0 /\ Blank26
After14 == <<x15, x16, After16>>
Blank14 ==
  /\ x15 = 0 /\ x16 = 0 /\ Blank16
After13 == <<x14, After14>>
Blank13 ==
  /\ x14 = 0 /\ Blank14
After11 == <<x12, x13, After13>>
Blank11 ==
  /\ x12 = 0 /\ x13 = 0 /\ Blank13
After8 == <<x9, x10, x11, After11>>
Blank8 ==
  /\ x9 = 0 /\ x10 = 0 /\ x11 = 0 /\ Blank11
After5 == <<x6, x7, x8, After8>>
Blank5 ==
  /\ x6 = 0 /\ x7 = 0 /\ x8 = 0 /\ Blank8
After0 == <<x1, x2, x3, x4, x5, After5>>
Blank0 ==
  /\ x1 = 0 /\ x2 = 0 /\ x3 = 0 /\ x4 = 0 /\ x5 = 0 /\ Blank5

G == INSTANCE GroupBatches WITH
  Msgs <- {"m1", "m2", "m3"}, Mentions <- {"m2"}, Commands <- {"m3"},
  Granted <- {"m1"}, MaxMsgs <- 2, MaxChanges <- 1, MaxReady <- 1,
  MaxFailures <- 1, setting <- x1, unsignalled <- x2, changes <- x3,
  ready <- x4, seq <- x5, fetch <- x6, applied <- x7, cache <- x8, gate <- x9,
  gaveUp <- x10, fresh <- x11, lane <- x12, pend <- x13, idle <- x14,
  maxwait <- x15, waiter <- x16, disp <- x17, flag <- x18, grantFlag <- x19,
  turn <- x20, turnGrants <- x21, queued <- x22, open <- x23, failures <- x24,
  handed <- x25, ended <- x26, seen <- x27, forced <- x28
J == INSTANCE HeldJournal WITH
  Msgs <- {"m1", "m2"}, Controls <- {"m2"}, Recallable <- {"m1"},
  MaxEvents <- 1, NoMsg <- "none", claimed <- x1, recalled <- x2, row <- x3,
  snap <- x4, term <- x5, hand <- x6, notified <- x7, proc <- x8, link <- x9,
  inst <- x10, blocked <- x11, drain <- x12, waiting <- x13, wake <- x14,
  notice <- x15, run <- x16, took <- x17, hosting <- x18, nonces <- x19,
  blocks <- x20, drops <- x21, crashes <- x22, fails <- x23, late <- x24,
  blind <- x25, told <- x26
M == INSTANCE HeldJournal WITH
  Msgs <- {"m1", "m2"}, Controls <- {}, Recallable <- {"m1"}, MaxEvents <- 1,
  NoMsg <- "none", claimed <- x1, recalled <- x2, row <- x3, snap <- x4,
  term <- x5, hand <- x6, notified <- x7, proc <- x8, link <- x9, inst <- x10,
  blocked <- x11, drain <- x12, waiting <- x13, wake <- x14, notice <- x15,
  run <- x16, took <- x17, hosting <- x18, nonces <- x19, blocks <- x20,
  drops <- x21, crashes <- x22, fails <- x23, late <- x24, blind <- x25,
  told <- x26
H == INSTANCE HistoryMaintenance WITH
  MaxMsgs <- 4, News <- {2}, RunBlocks <- 1, MaxPlans <- 1, MaxFaults <- 1,
  row <- x1, sid <- x2, ctx <- x3, n <- x4, turn <- x5, cand <- x6,
  hook <- x7, blocked <- x8, worker <- x9, reset <- x10, plans <- x11,
  faults <- x12, renewals <- x13, left <- x14
B == INSTANCE HistoryBudget WITH
  MaxEntries <- 4, Costs <- {1, 3, 7}, Keep <- 2, Budget <- 6, BlockCap <- 4,
  entries <- x1, window <- x2, blocks <- x3, shown <- x4, at <- x5
T == INSTANCE TurnAuthority WITH
  Owners <- {"o1"}, Guests <- {"g1", "g2"}, Rich <- {"g1"}, Notices <- {},
  Greetings <- {}, Receipts <- {"r1"}, Wakes <- {"w1"}, MaxInputs <- 3,
  NoInput <- "none", reg <- x1, phase <- x2, restr <- x3, held <- x4,
  task <- x5, run <- x6, pend <- x7, steer <- x8, call <- x9, alone <- x10,
  strayed <- x11
D == INSTANCE ToolDecision WITH
  People <- {"s1", "s2"}, Owner <- "o", Tools <- Tools,
  Requesting <- {"request"}, Managing <- {"manage"}, OwnerOnly <- {"wake"},
  Plugin <- {"request", "manage", "wake", "sendfile"}, Sending <- {"sendmsg"},
  Crossing <- Crossing, Restricted <- {"term", "subagent"},
  Limited <- {"plain"}, Filing <- {"sendfile", "sendmsg", "term"},
  Local <- {"term"}, Public <- {"sendmsg"}, Foreign <- {"odd"},
  Absent <- {"odd"}, Starting <- {"subagent"}, Review <- {"plain"},
  Toolset <- Toolset, Narrowed <- {"web", "clawchat"},
  Chats <- {"home", "group", "outside"}, Hosts <- Hosts, Rows <- Rules,
  MaxRules <- 2, MaxChanges <- 1, MaxInputs <- 2, host <- x1, chat <- x2,
  rules <- x3, past <- x4, turn <- x5, heard <- x6, changes <- x7, last <- x8
K == INSTANCE Confirmations WITH
  Requests <- {"a1", "c1"}, Asks <- {"a1"}, Sessions <- {"g1", "g2", "d"},
  SessionOf <- AskedIn, Strangers <- {"d"}, Codes <- {"K", "L"},
  Confirms <- {}, MaxReplies <- 1, queue <- x1, step <- x2, outcome <- x3,
  ask <- x4, ran <- x5, routes <- x6, code <- x7, cards <- x8, stray <- x9,
  allowed <- x10, confirm <- x11, prompt <- x12, registry <- x13,
  crossed <- x14, misled <- x15, replies <- x16
C == INSTANCE Confirmations WITH
  Requests <- {"c1", "b"}, Asks <- {}, Sessions <- {"g1", "g2", "d"},
  SessionOf <- AskedIn, Strangers <- {"d"}, Codes <- {"K", "L"},
  Confirms <- {"x", "y"}, MaxReplies <- 1, queue <- x1, step <- x2,
  outcome <- x3, ask <- x4, ran <- x5, routes <- x6, code <- x7, cards <- x8,
  stray <- x9, allowed <- x10, confirm <- x11, prompt <- x12, registry <- x13,
  crossed <- x14, misled <- x15, replies <- x16
P == INSTANCE Replies WITH
  Runs <- {"r1"}, Sweepers <- {"s1", "s2"}, Streaming <- TRUE, MaxEdits <- 2,
  MaxFailures <- 2, MaxMarks <- 1, NoRun <- "norun", run <- x1, task <- x2,
  writing <- x3, ledger <- x4, wire <- x5, recent <- x6, marked <- x7,
  edits <- x8, failures <- x9, marks <- x10, acked <- x11, hushed <- x12,
  torn <- x13

MCInit ==
  /\ Init
  /\ \/ part = "requests" /\ Blank0
     \/ part = "groups" /\ G!Init
     \/ part = "journal" /\ J!Init /\ Blank26
     \/ part = "messages" /\ M!Init /\ Blank26
     \/ part = "history" /\ H!Init /\ Blank14
     \/ part = "budget" /\ B!Init /\ Blank5
     \/ part = "authority" /\ T!Init /\ Blank11
     \/ part = "tools" /\ D!Init /\ Blank8
     \/ part = "asks" /\ K!Init /\ Blank16
     \/ part = "confirms" /\ C!Init /\ Blank16
     \/ part = "replies" /\ P!Init /\ Blank13

MCNext ==
  \/ part = "requests" /\ Next /\ (faults' = 0 \/ stops' = 0) /\ UNCHANGED <<part, After0>>
  \/ part = "groups" /\ G!Next /\ UNCHANGED <<part, vars>>
  \/ part = "journal" /\ J!Next /\ UNCHANGED <<part, vars, After26>>
  \/ part = "messages" /\ M!Next /\ UNCHANGED <<part, vars, After26>>
  \/ part = "history" /\ H!Next /\ UNCHANGED <<part, vars, After14>>
  \/ part = "budget" /\ B!Next /\ UNCHANGED <<part, vars, After5>>
  \/ part = "authority" /\ T!Next /\ UNCHANGED <<part, vars, After11>>
  \/ part = "tools" /\ D!Next /\ UNCHANGED <<part, vars, After8>>
  \/ part = "asks" /\ K!Next /\ UNCHANGED <<part, vars, After16>>
  \/ part = "confirms" /\ C!Next /\ UNCHANGED <<part, vars, After16>>
  \/ part = "replies" /\ P!Next /\ UNCHANGED <<part, vars, After13>>

MCvars == <<part, vars, After0>>
MCSpec == MCInit /\ [][MCNext]_MCvars

\* What the proofs about the journal and the confirmations take the constants to be.
ASSUME JournalAssumption == J!JournalConstants /\ M!JournalConstants
ASSUME ConfirmAssumption == K!ConfirmNames /\ C!ConfirmNames
ASSUME HistoryAssumption == H!MaintenanceAssumption
ASSUME AuthorityAssumption == T!AuthorityNames

\* What is held has somebody to flush it, a chat's batches run one after the
\* other, and the group's settings are the newest (group_message_coalescer.py,
\* adapter.py).
GroupsSafe ==
  part = "groups" =>
    /\ G!TypeOK /\ G!HeldHasFlusher /\ G!BatchesInOrder
    /\ G!GateIsNewest /\ G!CacheIsNewest

\* Messages held during maintenance reach the host once, in ledger order, and
\* a doubtful one is told to its sender once (history_maintenance.py).
JournalSafe ==
  /\ part = "journal" =>
       J!TypeOK /\ J!HandedOnce /\ J!LedgerOrder /\ J!ToldOnce
  /\ part = "messages" =>
       M!TypeOK /\ M!HandedOnce /\ M!LedgerOrder /\ M!ToldOnce

\* A session that counts as informed has been shown everything but what the
\* budget left out of its last window, a renewed one follows the fold, and the
\* plan of a fold leaves no message between the summary and the turns that stay
\* (history_maintenance.py, history_budget.py).
HistorySafe ==
  /\ part = "history" => H!TypeOK /\ H!InformedSession /\ H!RenewedAfterFold
  /\ part = "budget" =>
       B!TypeOK /\ B!NothingBetween /\ B!LastTurnLeft /\ B!BlocksAreTheFold

\* A turn has the authority of all it was given, no more; what a tool call may
\* do agrees for every speaker, in the catalogue and at the call (turn_grants.py,
\* tool_grants.py, host_tools_guard.py).
AuthoritySafe ==
  /\ part = "authority" => T!TypeOK /\ T!NoBorrowedAuthority /\ T!OwnerAtRest
  /\ part = "tools" =>
       D!TypeOK /\ D!EachSpeakerAgrees /\ D!CatalogueAgrees /\ D!OnlyRulesCross

\* A call that was asked about runs on the answer to its own card, a card that
\* could not be delivered denies, and a reply answers the newest prompt
\* (adapter.py, turn_grants.py).
ConfirmationsSafe ==
  /\ part = "asks" => K!TypeOK /\ K!AskRunsOnItsOwnAnswer
                      /\ K!FailedCardDenies /\ K!NewestPromptAnswered
  /\ part = "confirms" => C!TypeOK /\ C!AskRunsOnItsOwnAnswer
                          /\ C!FailedCardDenies /\ C!NewestPromptAnswered

\* One reply stands for a run, its stream is ended, and a silent one leaves
\* nothing in the chat (adapter.py).
RepliesSafe ==
  part = "replies" =>
    P!TypeOK /\ P!OneReplyStands /\ P!StreamEnded /\ P!SilentLeavesNothing

\* The published summary only grows and stays exact, and an orchestration's
\* handler decides by the turn as it is when it runs (history_maintenance.py,
\* host_tools_guard.py).
TurnSteps ==
  [][/\ part = "history" => H!SummaryKeptStep
     /\ part = "authority" => T!NoStaleCheckStep]_MCvars
=============================================================================
