----------------------------- MODULE HeldJournal -----------------------------
(***************************************************************************)
(* The journal of claimed messages of one direct conversation: a message   *)
(* is written to it in the transaction that claims it, kept there while    *)
(* history maintenance blocks the conversation, handed to the host under a *)
(* nonce saved before the hand-over, and replayed from it by a drain after *)
(* maintenance, a lost link or a restart.  A recall may come at any point; *)
(* turns that a restart cut off are owed one notice.                       *)
(*                                                                         *)
(* A READY connection has a HistoryMaintenance instance of its own; losing *)
(* READY closes it, which cancels its drain, while the chat's lane and the *)
(* turn it prepares live on.  Code between two awaits is one action.       *)
(***************************************************************************)
EXTENDS Naturals, Sequences, SequencesExt, FiniteSets

CONSTANTS
    Msgs,       \* messages of the conversation
    Controls,   \* those that are control input (/new and confirmations)
    Recallable, \* those whose author may recall them
    MaxEvents,  \* maintenance runs, lost links, crashes and failures together
    NoMsg

VARIABLES
    claimed,    \* clawchat_messages: inbound messages in the order of their claim
    recalled,   \* recalled_messages
    row,        \* clawchat_held_inbound.state ("none" without a row)
    snap,       \* the nonce in the row's snapshot (0: no snapshot)
    term,       \* the row's terminal: "none", "success" or "other"
    hand,       \* the process that recorded handoff_at (0: none)
    notified,   \* rows marked notified
    proc,       \* the process, counted from 1
    link,       \* "up" (READY), "away" or "dead" (no process)
    inst,       \* the HistoryMaintenance instance
    blocked,    \* maintenance holds the conversation
    drain,      \* release(): whether it runs, what it tried, what it waits for
    waiting,    \* drain_waiting
    wake,       \* a task that will call release is scheduled
    notice,     \* the check for interrupted turns is scheduled
    run,        \* the dispatch of each message, see Idle
    took,       \* history: what the host took, in order
    hosting,    \* messages whose turns the host runs
    nonces,     \* nonces used
    blocks, drops, crashes, fails,   \* how often each happened
    late,       \* history: a deadline has ended a maintenance run
    blind,      \* history: messages offered while the journal was closed
    told        \* history: notices sent for each message

dbVars == <<claimed, recalled, row, snap, term, hand, notified>>
drainVars == <<drain, waiting, wake>>
procVars == <<proc, link, inst, blocked, notice>>
hostVars == <<took, hosting>>
countVars == <<blocks, drops, crashes, fails, late>>
vars == <<dbVars, drainVars, procVars, run, hostVars, nonces, countVars, blind, told>>

Idle == [by |-> "nobody", at |-> "idle", inst |-> 0, nonce |-> 0]
DrainOff == [on |-> FALSE, tried |-> {}, cur |-> NoMsg]
Ready == link = "up"                                   \* journal_ready
Open(m) == row[m] \in {"held", "dispatching"}          \* list_held
LaneFree == \A m \in Msgs : run[m].by # "lane"
MayHappen == blocks + drops + crashes + fails < MaxEvents
Draining == drain.on \/ waiting

\* What the proofs take the constants to be.
JournalConstants == NoMsg \notin Msgs

Init ==
    /\ claimed = <<>> /\ recalled = {}
    /\ row = [m \in Msgs |-> "none"] /\ snap = [m \in Msgs |-> 0]
    /\ term = [m \in Msgs |-> "none"] /\ hand = [m \in Msgs |-> 0]
    /\ notified = {}
    /\ proc = 1 /\ link = "up" /\ inst = 1 /\ blocked = FALSE /\ notice = FALSE
    /\ drain = DrainOff /\ waiting = FALSE /\ wake = FALSE
    /\ run = [m \in Msgs |-> Idle]
    /\ took = <<>> /\ hosting = {} /\ nonces = 0
    /\ blocks = 0 /\ drops = 0 /\ crashes = 0 /\ fails = 0 /\ late = FALSE
    /\ blind = {} /\ told = [m \in Msgs |-> 0]

-----------------------------------------------------------------------------
(* The dispatch of one message. *)

\* The drain goes on within its task: it ends here when maintenance has come.
AfterRun(m) ==
    IF run[m].by # "drain" THEN drain
    ELSE IF blocked THEN DrainOff
    ELSE [drain EXCEPT !.cur = NoMsg]

\* Mutant: the end of a dispatch wakes the drain of its own instance only.
EndRunOwn(m) ==
    /\ run' = [run EXCEPT ![m] = Idle]
    /\ wake' = (wake \/ (waiting /\ Ready /\ run[m].inst = inst))
    /\ drain' = AfterRun(m)
    /\ UNCHANGED waiting

\* The end of a dispatch wakes a drain that waits for it, also a drain of the
\* instance that has replaced its own (_wake_history_input_drain).
EndRun(m) ==
    /\ run' = [run EXCEPT ![m] = Idle]
    /\ wake' = (wake \/ (waiting /\ Ready))
    /\ drain' = AfterRun(m)
    /\ UNCHANGED waiting

\* retire_recalled_held: the row is finished and its snapshot dropped.
Retire(m) ==
    /\ row' = [row EXCEPT ![m] = "dispatched"]
    /\ snap' = [snap EXCEPT ![m] = 0]

\* A live message: claimed and journaled in one transaction, then admitted
\* by continue_claimed, unless maintenance or a drain makes it wait (defer).
\* A message already claimed or recalled is a duplicate and is dropped.
Claim(m) ==
    /\ Ready /\ LaneFree
    /\ m \notin ToSet(claimed) \cup recalled
    /\ claimed' = Append(claimed, m)
    /\ IF blocked \/ Draining
       THEN row' = [row EXCEPT ![m] = "held"] /\ UNCHANGED run
       ELSE /\ row' = [row EXCEPT ![m] = "dispatching"]
            /\ run' = [run EXCEPT ![m] = [by |-> "lane", at |-> "route", inst |-> inst,
                                          nonce |-> 0]]
    /\ UNCHANGED <<recalled, snap, term, hand, notified, drainVars, procVars, hostVars,
                   nonces, countVars, blind, told>>

\* _handle_inbound_now_impl begins: a recall ends it, a block that came
\* meanwhile puts the row back; otherwise media are fetched.
Enter(m) ==
    /\ run[m].at = "route"
    /\ IF m \in recalled THEN Retire(m) /\ EndRun(m)
       ELSE IF Ready /\ blocked THEN
            row' = [row EXCEPT ![m] = "held"] /\ UNCHANGED snap /\ EndRun(m)
       ELSE /\ run' = [run EXCEPT ![m].at = "prep",
                                  ![m].inst = IF Ready THEN inst ELSE @]
            /\ UNCHANGED <<row, snap, drainVars>>
    /\ UNCHANGED <<claimed, recalled, term, hand, notified, procVars, hostVars, nonces,
                   countVars, blind, told>>

\* Mutant: every hand-over has a nonce of its own.
NonceFresh(m) == nonces + 1

\* save_snapshot: the nonce of an earlier snapshot is used again.
Nonce(m) == IF Ready /\ snap[m] # 0 THEN snap[m] ELSE nonces + 1

\* The event is built: its snapshot saved, the recall looked up once more,
\* and the event given to the host.
Offer(m) ==
    /\ run[m].at = "prep"
    /\ IF m \in recalled
       THEN Retire(m) /\ EndRun(m) /\ UNCHANGED <<nonces, blind>>
       ELSE /\ run' = [run EXCEPT ![m].at = "offered", ![m].nonce = Nonce(m)]
            /\ nonces' = IF Nonce(m) > nonces THEN Nonce(m) ELSE nonces
            /\ snap' = IF Ready THEN [snap EXCEPT ![m] = Nonce(m)] ELSE snap
            /\ blind' = IF Ready THEN blind ELSE blind \cup {m}
            /\ UNCHANGED <<row, drainVars>>
    /\ UNCHANGED <<claimed, recalled, term, hand, notified, procVars, hostVars, countVars,
                   told>>

HostTakes(m) ==
    /\ run[m].at = "offered"
    /\ run' = [run EXCEPT ![m].at = "taken"]
    /\ took' = Append(took, [msg |-> m, nonce |-> run[m].nonce])
    /\ hosting' = hosting \cup {m}
    /\ UNCHANGED <<dbVars, drainVars, procVars, nonces, countVars, blind, told>>

\* handle_message returned: the row is finished, a control input as consumed
\* here (finish_control), any other as handed over (dispatched).  With the
\* journal closed neither is written.
Record(m) ==
    /\ run[m].at = "taken"
    /\ EndRun(m)
    /\ IF ~Ready THEN UNCHANGED <<row, hand, term, notified>>
       ELSE /\ row' = [row EXCEPT ![m] = "dispatched"]
            /\ IF m \in Controls THEN UNCHANGED <<hand, term, notified>>
               ELSE /\ hand' = [hand EXCEPT ![m] = proc]
                    /\ term' = [term EXCEPT ![m] = IF @ = "success" THEN @ ELSE "none"]
                    /\ notified' = notified \ {m}
    /\ UNCHANGED <<claimed, recalled, snap, procVars, hostVars, nonces, countVars, blind,
                   told>>

\* The preparation raises, or the host refuses the event: the row stays.
FailRun(m) ==
    /\ run[m].at \in {"route", "prep", "offered"}
    /\ MayHappen /\ fails' = fails + 1
    /\ EndRun(m)
    /\ UNCHANGED <<dbVars, procVars, hostVars, nonces, blocks, drops, crashes, late, blind, told>>

\* completed: the outcome is merged into the row, whatever its state.
HostEnds(m, outcome) ==
    /\ m \in hosting
    /\ hosting' = hosting \ {m}
    /\ term' = IF Ready THEN [term EXCEPT ![m] = outcome] ELSE term
    /\ UNCHANGED <<claimed, recalled, row, snap, hand, notified, drainVars, procVars, run,
                   took, nonces, countVars, blind, told>>

\* message.recall, handled in the chat's lane.
Recall(m) ==
    /\ Ready /\ LaneFree /\ m \in Recallable \ recalled
    /\ recalled' = recalled \cup {m}
    /\ UNCHANGED <<claimed, row, snap, term, hand, notified, drainVars, procVars, run,
                   hostVars, nonces, countVars, blind, told>>

-----------------------------------------------------------------------------
(* The drain. *)

DrainStarts ==
    /\ wake /\ Ready
    /\ wake' = FALSE
    /\ IF drain.on THEN UNCHANGED <<drain, waiting>>
       ELSE drain' = [DrainOff EXCEPT !.on = TRUE] /\ waiting' = FALSE
    /\ UNCHANGED <<dbVars, procVars, run, hostVars, nonces, countVars, blind, told>>

\* The open rows that this drain has not tried; the next is the first in ledger order.
Untried == {k \in DOMAIN claimed : Open(claimed[k]) /\ claimed[k] \notin drain.tried}
NextRow == IF Untried = {} THEN NoMsg ELSE claimed[Min(Untried)]

Tried(m) == drain' = [drain EXCEPT !.tried = @ \cup {m}]

\* A control input that may have been handed over is not tried again.
IsRetired(m) == m \in Controls /\ row[m] = "dispatching"

\* Mutant: a drain skips the input that somebody else is dispatching.
DrainRowSkips(m) ==
    IF m \in recalled THEN Retire(m) /\ Tried(m) /\ UNCHANGED <<run, waiting>>
    ELSE IF run[m] # Idle THEN Tried(m) /\ UNCHANGED <<row, snap, run, waiting>>
    ELSE IF term[m] = "success" \/ IsRetired(m) THEN
         /\ row' = [row EXCEPT ![m] = "dispatched"]
         /\ Tried(m) /\ UNCHANGED <<snap, run, waiting>>
    ELSE /\ row' = [row EXCEPT ![m] = "dispatching"]
         /\ run' = [run EXCEPT ![m] = [by |-> "drain", at |-> "route", inst |-> inst,
                                       nonce |-> 0]]
         /\ drain' = [drain EXCEPT !.tried = @ \cup {m}, !.cur = m]
         /\ UNCHANGED <<snap, waiting>>

\* One row: finished without the host, waited for, or dispatched.
DrainRow(m) ==
    IF m \in recalled THEN Retire(m) /\ Tried(m) /\ UNCHANGED <<run, waiting>>
    ELSE IF run[m] # Idle THEN
         drain' = DrainOff /\ waiting' = TRUE /\ UNCHANGED <<row, snap, run>>
    ELSE IF term[m] = "success" \/ IsRetired(m) THEN
         /\ row' = [row EXCEPT ![m] = "dispatched"]
         /\ Tried(m) /\ UNCHANGED <<snap, run, waiting>>
    ELSE /\ row' = [row EXCEPT ![m] = "dispatching"]
         /\ run' = [run EXCEPT ![m] = [by |-> "drain", at |-> "route", inst |-> inst,
                                       nonce |-> 0]]
         /\ drain' = [drain EXCEPT !.tried = @ \cup {m}, !.cur = m]
         /\ UNCHANGED <<snap, waiting>>

DrainStep ==
    /\ drain.on /\ drain.cur = NoMsg
    /\ IF blocked \/ NextRow = NoMsg
       THEN drain' = DrainOff /\ UNCHANGED <<row, snap, run, waiting>>
       ELSE DrainRow(NextRow)
    /\ UNCHANGED <<claimed, recalled, term, hand, notified, wake, procVars, hostVars,
                   nonces, countVars, blind, told>>

\* Maintenance begins (start) and ends or meets its deadline (watchdog).
Block ==
    /\ Ready /\ ~blocked
    /\ MayHappen /\ blocks' = blocks + 1
    /\ blocked' = TRUE
    /\ UNCHANGED <<dbVars, drainVars, proc, link, inst, notice, run, hostVars, nonces,
                   drops, crashes, fails, late, blind, told>>

\* The run ends and drains at once (start), or its deadline passes while it
\* waits for the model and the watchdog has the drain scheduled (watchdog).
Unblock ==
    /\ Ready /\ blocked
    /\ blocked' = FALSE
    /\ IF drain.on THEN UNCHANGED <<drain, waiting>>
       ELSE drain' = [DrainOff EXCEPT !.on = TRUE] /\ waiting' = FALSE
    /\ UNCHANGED <<dbVars, wake, proc, link, inst, notice, run, hostVars, nonces, countVars,
                   blind, told>>

Deadline ==
    /\ Ready /\ blocked
    /\ blocked' = FALSE /\ wake' = TRUE /\ late' = TRUE
    /\ UNCHANGED <<dbVars, drain, waiting, proc, link, inst, notice, run, hostVars, nonces,
                   blocks, drops, crashes, fails, blind, told>>

-----------------------------------------------------------------------------
(* Links, crashes and the notice of interrupted turns. *)

\* close: the instance's drain is cancelled, and the dispatch it waits for.
Close ==
    /\ drain' = DrainOff /\ waiting' = FALSE /\ wake' = FALSE
    /\ blocked' = FALSE /\ notice' = FALSE

LinkDrops ==
    /\ Ready
    /\ MayHappen /\ drops' = drops + 1
    /\ link' = "away"
    /\ Close
    /\ run' = [m \in Msgs |-> IF run[m].by = "drain" THEN Idle ELSE run[m]]
    /\ UNCHANGED <<dbVars, proc, inst, hostVars, nonces, blocks, crashes, fails, late, blind,
                   told>>

Crash ==
    /\ link # "dead"
    /\ MayHappen /\ crashes' = crashes + 1
    /\ link' = "dead"
    /\ Close
    /\ run' = [m \in Msgs |-> Idle]
    /\ hosting' = {}
    /\ UNCHANGED <<dbVars, proc, inst, took, nonces, blocks, drops, fails, late, blind,
                   told>>

\* A crash right after the transaction that claims a message.
ClaimThenCrash(m) ==
    /\ Ready /\ LaneFree
    /\ m \notin ToSet(claimed) \cup recalled
    /\ MayHappen /\ crashes' = crashes + 1
    /\ claimed' = Append(claimed, m)
    /\ row' = [row EXCEPT ![m] = "held"]
    /\ link' = "dead"
    /\ Close
    /\ run' = [k \in Msgs |-> Idle]
    /\ hosting' = {}
    /\ UNCHANGED <<recalled, snap, term, hand, notified, proc, inst, took, nonces,
                   blocks, drops, fails, late, blind, told>>

\* READY: a new instance, whose recovery drains what the journal has.
LinkUp ==
    /\ link # "up"
    /\ link' = "up"
    /\ inst' = inst + 1
    /\ proc' = IF link = "dead" THEN proc + 1 ELSE proc
    /\ wake' = TRUE /\ notice' = TRUE
    /\ UNCHANGED <<dbVars, drain, waiting, blocked, run, hostVars, nonces, countVars, blind,
                   told>>

\* Mutant: the rows of an earlier notice are candidates again.
InterruptedAgain ==
    {m \in Msgs : /\ row[m] = "dispatched" /\ 0 < hand[m] /\ hand[m] < proc
                  /\ term[m] = "none" /\ m \notin Controls}

\* notice_candidate: handed over by a process that is gone, and not ended.
Interrupted ==
    {m \in Msgs : /\ row[m] = "dispatched" /\ 0 < hand[m] /\ hand[m] < proc
                  /\ term[m] = "none" /\ m \notin notified
                  /\ m \notin Controls}

\* check: the rows are marked in one transaction, then one notice is sent
\* for them, which replies to the message handed over last.
CheckInterrupted ==
    /\ notice /\ Ready
    /\ notice' = FALSE
    /\ notified' = notified \cup Interrupted
    /\ \/ UNCHANGED told                         \* none, answered already, or not sent
       \/ \E m \in Interrupted : told' = [told EXCEPT ![m] = @ + 1]
    /\ UNCHANGED <<claimed, recalled, row, snap, term, hand, drainVars, proc, link, inst,
                   blocked, run, hostVars, nonces, countVars, blind>>

Next ==
    \/ \E m \in Msgs : \/ Claim(m) \/ Recall(m) \/ ClaimThenCrash(m)
                       \/ Enter(m) \/ Offer(m) \/ HostTakes(m) \/ Record(m) \/ FailRun(m)
    \/ \E m \in hosting, o \in {"success", "other"} : HostEnds(m, o)
    \/ DrainStarts \/ DrainStep
    \/ Block \/ Unblock \/ Deadline
    \/ LinkDrops \/ Crash \/ LinkUp \/ CheckInterrupted

Spec == Init /\ [][Next]_vars

\* What the run of an input does next.
RunGoesOn(m) == Enter(m) \/ Offer(m) \/ HostTakes(m) \/ Record(m)

\* Tasks run on, maintenance has a deadline, and the link comes back.
Fairness ==
    /\ \A m \in Msgs : WF_vars(RunGoesOn(m))
    /\ WF_vars(DrainStarts) /\ WF_vars(DrainStep)
    /\ WF_vars(Unblock \/ Deadline) /\ WF_vars(LinkUp)

FairSpec == Spec /\ Fairness

-----------------------------------------------------------------------------
(* Properties. *)

TypeOK ==
    /\ claimed \in Seq(Msgs) /\ recalled \cup notified \cup blind \subseteq Msgs
    /\ row \in [Msgs -> {"none", "held", "dispatching", "dispatched"}]
    /\ snap \in [Msgs -> 0..nonces] /\ hand \in [Msgs -> 0..proc]
    /\ term \in [Msgs -> {"none", "success", "other"}]
    /\ proc \in Nat \ {0} /\ inst \in Nat \ {0} /\ link \in {"up", "away", "dead"}
    /\ {blocked, notice, waiting, wake, late} \subseteq BOOLEAN
    /\ drain \in [on : BOOLEAN, tried : SUBSET Msgs, cur : Msgs \cup {NoMsg}]
    /\ run \in [Msgs -> [by : {"nobody", "lane", "drain"}, inst : 0..inst, nonce : 0..nonces,
                         at : {"idle", "route", "prep", "offered", "taken"}]]
    /\ took \in Seq([msg : Msgs, nonce : 1..nonces]) /\ hosting \subseteq Msgs
    /\ told \in [Msgs -> Nat]
    /\ {nonces, blocks, drops, crashes, fails} \subseteq Nat

(* However often a message is given to the host, by its lane and by the    *)
(* drains of later connections and processes, it carries the nonce of the  *)
(* first time, by which the host knows it again; except a message that was *)
(* offered while the journal was closed.                                   *)
HandedOnce ==
    \A i, j \in DOMAIN took :
        took[i].msg = took[j].msg /\ took[i].msg \notin blind
        => took[i].nonce = took[j].nonce

(* Without failures, lost links, crashes and deadlines the host takes the    *)
(* messages in the order of the ledger, although the lane brings new ones while the    *)
(* drain still works through those that maintenance held.                  *)
LedgerOrder ==
    fails + drops + crashes = 0 /\ ~late =>
        \A i, j \in DOMAIN took : \A k, l \in DOMAIN claimed :
            i < j /\ took[i].msg = claimed[k] /\ took[j].msg = claimed[l] => k < l

(* A message is reported interrupted once at most, over the restarts and    *)
(* reconnections that follow, each of which looks for interrupted turns.    *)
ToldOnce == \A m \in Msgs : told[m] <= 1

(* Every claimed message is settled in the end: handed over, consumed or   *)
(* recalled, where no preparation failed and the process is not gone.      *)
NoneOpen == fails > 0 \/ \A m \in Msgs : ~Open(m)
Settles == []<>NoneOpen
=============================================================================
