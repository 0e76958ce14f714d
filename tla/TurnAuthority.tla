----------------------------- MODULE TurnAuthority -----------------------------
(***************************************************************************)
(* Who may do what in a turn of the owner's direct chat.  An input is      *)
(* given a snapshot of its authority before it is handed to the host, and  *)
(* a tool call is judged by the snapshot its execution is bound to.  The   *)
(* host is free to run an input by itself, to merge it into the turn that  *)
(* is running or to queue it for a later turn under the same context, so a *)
(* snapshot is narrowed by every input that may come to be run under it:   *)
(* by others that are registered with it, and by those only announced.     *)
(*                                                                         *)
(* The name of a turn's snapshot, its nonce, is its input here.            *)
(***************************************************************************)
EXTENDS Naturals, Sequences, SequencesExt, FiniteSets, FiniteSetsExt

CONSTANTS
    Owners,     \* messages of the owner
    Guests,     \* inputs of somebody else
    Rich,       \* those whose sender has been granted the tool
    Notices,    \* the plugin's own notifications
    Greetings,  \* notifications that carry the owner's action
    Receipts,   \* results of an approved orchestration, to be tried again
    Wakes,      \* events the host starts by itself
    MaxInputs,  \* how many of them come
    NoInput

Inputs == Owners \cup Guests \cup Notices \cup Greetings \cup Receipts \cup Wakes
Trusted == Notices \cup Greetings

\* What the proofs take the constants to be: an input is of one kind.
AuthorityNames ==
    /\ IsFiniteSet(Inputs) /\ NoInput \notin Inputs
    /\ Guests \cap (Owners \cup Trusted \cup Receipts \cup Wakes) = {}
    /\ Owners \cap (Trusted \cup Receipts \cup Wakes) = {}

All == {"tool", "all"}           \* CompiledGrants(owner_only)
Has(i) == IF i \in Rich THEN {"tool"} ELSE {}

VARIABLES
    reg,      \* turn_grants: see NoTurns
    phase,    \* each input's way through the adapter
    restr,    \* arrival_restriction of each input being prepared
    held,     \* _owner_input_pending
    task,     \* the held input being dispatched
    run, pend,\* the host: the running turn and what it has queued
    steer,    \* the host's busy-input mode
    call,     \* an orchestration call between its check and its handler
    alone,    \* history: inputs of the owner that arrived at rest, see Alone
    strayed     \* history: a turn was bound to an input that is not in it

hostVars == <<run, pend, steer>>
holdVars == <<held, task>>
vars == <<reg, phase, restr, holdVars, hostVars, call, alone, strayed>>

Blank == [owner |-> FALSE, verified |-> FALSE, legacy |-> FALSE, orch |-> FALSE,
          orig |-> FALSE, notice |-> FALSE, non |-> {}, grants |-> {}]
\* _snapshots, _unverified_inputs (announced, then named by their nonce),
\* _consumed_batches, _bindings and _context_execution; order is created_at.
NoTurns == [live |-> {}, snap |-> [i \in Inputs |-> Blank], order |-> <<>>,
            mark |-> [i \in Inputs |-> "no"], consumed |-> {},
            bound |-> [i \in Inputs |-> 0], exec |-> [i \in Inputs |-> NoInput]]
NoRestr == [is |-> FALSE, grants |-> All, non |-> {}]
Idle == [at |-> "idle", ctx |-> NoInput, turn |-> 0, inputs |-> {}]
NoCall == [at |-> "none", by |-> NoInput]

Init ==
    /\ reg = NoTurns
    /\ phase = [i \in Inputs |-> "none"]
    /\ restr = [i \in Inputs |-> NoRestr]
    /\ held = <<>> /\ task = NoInput
    /\ run = Idle /\ pend = {} /\ steer \in BOOLEAN
    /\ call = NoCall
    /\ alone = {} /\ strayed = FALSE

-----------------------------------------------------------------------------
(* turn_grants: each operation as a function of its tables. *)

Marked(r) == {i \in Inputs : r.mark[i] # "no"}
Meet(sets) == {t \in All : \A s \in sets : t \in s}
MayOrchestrate(s) == s.owner \/ s.legacy \/ s.orch

\* pending_input_restriction
Restriction(r) ==
    IF Marked(r) = {} THEN NoRestr
    ELSE [is |-> TRUE, grants |-> {}, non |-> UNION {r.snap[i].non : i \in r.live}]

\* _revoke_owner_verification_locked
Revoked(r, managementOnly) ==
    [r EXCEPT !.snap = [i \in Inputs |->
        IF i \notin r.live THEN r.snap[i]
        ELSE IF managementOnly THEN [r.snap[i] EXCEPT !.verified = FALSE]
        ELSE [r.snap[i] EXCEPT !.verified = FALSE, !.owner = FALSE, !.legacy = FALSE,
                               !.orch = FALSE, !.grants = {}]]]

\* mark_unverified_input
MarkInput(r, i) == [Revoked(r, FALSE) EXCEPT !.mark[i] = "open"]

\* Mutant of Registered: an input is not narrowed by what overlaps with it.
RegisteredAlone(r, i, limit) ==
    LET side == i \in Owners \cup Wakes /\ Marked(r) = {} /\ ~limit.is
    IN  [r EXCEPT !.live = @ \cup {i}, !.order = Append(@, i),
                  !.snap[i] = [owner |-> side, verified |-> side /\ i \in Owners,
                               legacy |-> FALSE, orch |-> i \in Receipts, orig |-> side,
                               notice |-> i \in Trusted,
                               non |-> IF i \in Guests THEN {i} ELSE {},
                               grants |-> IF side THEN All ELSE Has(i)],
                  !.mark[i] = IF @ = "open" THEN "named" ELSE @]

\* register_turn
Registered(r, i, limit) ==
    LET marks == Marked(r)
        orig  == i \in Owners \cup Wakes
        clean == marks = {} /\ ~limit.is
        side  == orig /\ clean
        own   == CASE side -> All [] i \in Guests -> Has(i) [] OTHER -> {}
        mine  == (IF i \in Guests THEN {i} ELSE {}) \cup limit.non
        near  == {j \in r.live : j \notin r.consumed \/ marks # {}}
        over  == {j \in near : ~(orig /\ r.snap[j].notice)}
        plain == \A j \in over : r.snap[j].non = {}
        legacy == i \in Greetings /\ clean /\ mine = {} /\ plain
        orch  == /\ side \/ legacy \/ i \in Receipts
                 /\ mine = {} /\ plain
                 /\ i \in Receipts \/ \A j \in over : MayOrchestrate(r.snap[j])
        left  == Meet({own, limit.grants} \cup {r.snap[j].grants : j \in over})
        non   == mine \cup UNION {r.snap[j].non : j \in over}
        Narrowed(s) ==
            IF i \in Trusted /\ (s.orig \/ s.owner \/ s.legacy)
            THEN [s EXCEPT !.verified = FALSE]
            ELSE [s EXCEPT !.grants = left, !.non = non,
                           !.owner = @ /\ side, !.legacy = @ /\ non = {},
                           !.orch = MayOrchestrate(s) /\ orch /\ non = {}]
    IN  [r EXCEPT
          !.live = @ \cup {i},
          !.order = Append(@, i),
          !.snap = [j \in Inputs |->
              IF j = i THEN
                  [owner |-> side /\ \A k \in over : r.snap[k].owner,
                   verified |-> /\ i \in Owners /\ clean
                                /\ \A k \in near : ~r.snap[k].notice,
                   legacy |-> legacy, orch |-> orch, orig |-> orig,
                   notice |-> i \in Trusted, non |-> non, grants |-> left]
              ELSE IF j \in over THEN Narrowed(r.snap[j])
              ELSE r.snap[j]],
          !.mark[i] = IF @ = "open" THEN "named" ELSE @,
          !.consumed = IF limit.is /\ marks = {} THEN @ \cup {i} ELSE @]

\* _consume_unverified_locked: the turns of the batch stay as they are, and
\* what is registered from now on is another batch.
Consumed(r, n, turns) ==
    IF r.mark[n] = "named"
    THEN [r EXCEPT !.mark[n] = "no", !.consumed = @ \cup turns] ELSE r

\* _unbind_locked
Unbound(r, n, turns) ==
    LET s == Consumed(r, n, turns)
    IN  [s EXCEPT !.bound[n] = 0, !.consumed = @ \ {n},
                  !.exec = [i \in Inputs |->
                      IF i = n \/ s.exec[i] = n THEN NoInput ELSE s.exec[i]]]

\* release_turn
Released(r, n) ==
    LET s == Unbound(r, n, r.live)
    IN  [s EXCEPT !.live = @ \ {n}, !.snap[n] = Blank, !.order = Remove(@, n)]

\* release_session: the announcements of inputs without a nonce stay.
SessionReleased(r) ==
    [NoTurns EXCEPT
        !.mark = [i \in Inputs |->
            IF r.mark[i] = "named" /\ i \in r.live THEN "no" ELSE r.mark[i]],
        !.consumed = r.consumed \ r.live]

\* bind_turn: a context that has run before lends its newest unbound turn.
BoundTo(r, c, turn) ==
    LET Newest(s) == Last(SelectSeq(r.order, LAMBDA n : n \in s))
        free  == {j \in r.live : r.bound[j] = 0}
        texts == {j \in free : ~r.snap[j].notice}
        n == IF r.bound[c] = 0 THEN c
             ELSE IF free = {} THEN NoInput
             ELSE Newest(IF texts # {} THEN texts ELSE free)
    IN  IF c \notin r.live \/ n = NoInput \/ (\E j \in Inputs : r.bound[j] = turn) THEN r
        ELSE [Consumed([r EXCEPT !.bound[n] = turn], n, r.live) EXCEPT !.exec[c] = n]

\* _lookup_snapshot_locked: the snapshot a call of this turn is judged by.
Lookup(r, c, turn) ==
    LET n == {j \in r.live : r.bound[j] = turn}
    IN  IF c \notin r.live \/ n = {} THEN NoInput
        ELSE LET t == CHOOSE j \in n : TRUE
             IN  IF t # c /\ r.bound[c] \in {0, turn} THEN NoInput ELSE t

NonOwnerTurn(r) == \E i \in r.live : ~r.snap[i].owner /\ ~r.snap[i].legacy
NoticeTurn(r) == \E i \in r.live : r.snap[i].notice

-----------------------------------------------------------------------------
(* The adapter. *)

Dispatching == {i \in Inputs : phase[i] \in {"prep", "checked", "ready"}}
HostBusy == run.at # "idle" \/ pend # {}
Busy(own) == Cardinality(Dispatching \ Wakes) > own \/ HostBusy

\* Mutant of AfterBusy: idle, the session's turns go but not what was announced.
AfterBusyKeeps(own) == IF Busy(own) THEN reg ELSE SessionReleased(reg)

\* _grant_session_busy: found idle, what the session left behind is dropped.
AfterBusy(own) ==
    IF Busy(own) THEN reg
    ELSE IF Dispatching \ Wakes = {}
    THEN [SessionReleased(reg) EXCEPT !.mark = [i \in Inputs |-> "no"]]
    ELSE SessionReleased(reg)

\* _hold_owner_inbound
MustHold(i) ==
    /\ i \in Owners /\ task # i
    /\ held # <<>> \/ task # NoInput \/ NoticeTurn(reg) \/ (steer /\ NonOwnerTurn(reg))

Hold(i) ==
    /\ held' = Append(held, i)
    /\ phase' = [phase EXCEPT ![i] = "held"]

\* At rest: nothing is running, queued or on its way.
Alone(i) ==
    IF i \in Owners
    THEN IF ~Busy(0) /\ Dispatching = {} THEN alone \cup {i} ELSE alone
    ELSE {}

\* _handle_inbound from its arrival to the first await of the preparation.
Admit(i) ==
    LET r == IF i \in Owners THEN AfterBusy(0) ELSE reg
    IN  /\ restr' = [restr EXCEPT ![i] = Restriction(r)]
        /\ reg' = IF i \in Owners THEN r
                  ELSE IF i \in Trusted THEN Revoked(r, TRUE)
                  ELSE MarkInput(Revoked(r, FALSE), i)
        /\ phase' = [phase EXCEPT ![i] = "prep"]
        /\ alone' = Alone(i)

Come(i) ==
    /\ phase[i] = "none"
    /\ Cardinality({j \in Inputs : phase[j] # "none"}) < MaxInputs

Arrive(i) ==
    /\ Come(i) /\ i \notin Wakes
    /\ IF i \in Receipts /\ Busy(0)
       THEN /\ phase' = [phase EXCEPT ![i] = "deferred"]
            /\ UNCHANGED <<reg, restr, held, alone, strayed>>
       ELSE IF MustHold(i) THEN Hold(i) /\ UNCHANGED <<reg, restr, alone, strayed>>
       ELSE Admit(i) /\ UNCHANGED held
    /\ UNCHANGED <<task, hostVars, call, strayed>>

\* _dispatch_orchestrate_retry_when_idle: once idle, or at its deadline.
RetryGoes(i) ==
    /\ phase[i] = "deferred"
    /\ Admit(i)
    /\ UNCHANGED <<holdVars, hostVars, call, strayed>>

\* Mutant of HeldGoes: a held message waits for the turn, however long.
HeldWaits ==
    /\ task = NoInput /\ held # <<>>
    /\ ~Busy(0) \/ ~(NonOwnerTurn(reg) \/ NoticeTurn(reg))
    /\ reg' = AfterBusy(0)
    /\ task' = Head(held) /\ held' = Tail(held)
    /\ phase' = [phase EXCEPT ![Head(held)] = "routed"]
    /\ UNCHANGED <<restr, hostVars, call, alone, strayed>>

\* _dispatch_held_owner_inputs; the check of _wait_held_owner_input is not
\* made once the deadline has passed.
HeldGoes ==
    /\ task = NoInput /\ held # <<>>
    /\ \/ /\ ~Busy(0) \/ ~(NonOwnerTurn(AfterBusy(0)) \/ NoticeTurn(AfterBusy(0)))
          /\ reg' = AfterBusy(0)
       \/ UNCHANGED reg
    /\ task' = Head(held) /\ held' = Tail(held)
    /\ phase' = [phase EXCEPT ![Head(held)] = "routed"]
    /\ UNCHANGED <<restr, hostVars, call, alone, strayed>>

AdmitHeld(i) ==
    /\ phase[i] = "routed"
    /\ Admit(i)
    /\ UNCHANGED <<holdVars, hostVars, call, strayed>>

HeldDone ==
    /\ task # NoInput /\ phase[task] \in {"host", "done"}
    /\ task' = NoInput
    /\ UNCHANGED <<reg, phase, restr, held, hostVars, call, alone, strayed>>

\* _handle_inbound_now_impl after the media were fetched: an input may have to
\* be held after all.
Recheck(i) ==
    /\ phase[i] = "prep"
    /\ IF MustHold(i) THEN Hold(i) /\ UNCHANGED reg
       ELSE /\ phase' = [phase EXCEPT ![i] = "checked"]
            /\ \/ UNCHANGED reg
               \/ task = i /\ reg' = AfterBusy(1)
            /\ UNCHANGED held
    /\ UNCHANGED <<restr, task, hostVars, call, alone, strayed>>

\* ... and after the history was prepared: the turn is registered.
Register(i) ==
    /\ phase[i] = "checked"
    /\ reg' = Registered(reg, i, restr[i])
    /\ phase' = [phase EXCEPT ![i] = "ready"]
    /\ restr' = [restr EXCEPT ![i] = NoRestr]
    /\ UNCHANGED <<holdVars, hostVars, call, alone, strayed>>

\* The preparation ends without a turn: deferred, recalled, or failed.
GiveUp(i) ==
    /\ phase[i] \in {"prep", "checked"}
    /\ phase' = [phase EXCEPT ![i] = "done"]
    /\ restr' = [restr EXCEPT ![i] = NoRestr]
    /\ UNCHANGED <<reg, holdVars, hostVars, call, alone, strayed>>

\* handle_message for an event of the host, in the owner's chat.
Wake(i) ==
    /\ Come(i) /\ i \in Wakes
    /\ reg' = Registered(reg, i, NoRestr)
    /\ phase' = [phase EXCEPT ![i] = "ready"]
    /\ alone' = {}
    /\ UNCHANGED <<restr, holdVars, hostVars, call, strayed>>

-----------------------------------------------------------------------------
(* The host.  What it does with an input is its own choice. *)

Taken(i) == phase' = [phase EXCEPT ![i] = "host"]

Start(i) ==
    /\ phase[i] = "ready" /\ ~HostBusy
    /\ run' = [at |-> "busy", ctx |-> i, turn |-> run.turn + 1, inputs |-> {i}]
    /\ Taken(i)
    /\ UNCHANGED <<reg, restr, holdVars, pend, steer, call, alone, strayed>>

Steer(i) ==
    /\ phase[i] = "ready" /\ run.at = "busy" /\ steer
    /\ run' = [run EXCEPT !.inputs = @ \cup {i}]
    /\ Taken(i)
    /\ UNCHANGED <<reg, restr, holdVars, pend, steer, call, alone, strayed>>

Queue(i) ==
    /\ phase[i] = "ready" /\ run.at = "busy"
    /\ pend' = pend \cup {i}
    /\ Taken(i)
    /\ UNCHANGED <<reg, restr, holdVars, run, steer, call, alone, strayed>>

\* A refused input keeps its turn until the session is idle; an event of the
\* host and an input whose handling fails lose it.
Reject(i) ==
    /\ phase[i] = "ready"
    /\ phase' = [phase EXCEPT ![i] = "done"]
    /\ reg' \in (IF i \in Wakes THEN {} ELSE {reg}) \cup {Released(reg, i)}
    /\ UNCHANGED <<restr, holdVars, hostVars, call, alone, strayed>>

\* clawchat_pre_llm_call
PreLlmCall ==
    /\ run.at = "busy"
    /\ reg' = BoundTo(reg, run.ctx, run.turn)
    /\ strayed' = (strayed \/ \E i \in Inputs \ run.inputs : reg'.bound[i] # reg.bound[i])
    /\ UNCHANGED <<phase, restr, holdVars, hostVars, call, alone>>

\* on_processing_complete, for the event the host has run.
TurnEnds ==
    /\ run.at = "busy" /\ pend = {}
    /\ run' = [Idle EXCEPT !.turn = run.turn]
    /\ reg' = Released(reg, run.ctx)
    /\ UNCHANGED <<phase, restr, holdVars, pend, steer, call, alone, strayed>>

\* A queued event is run as a follow-up of the same context ...
FollowUp ==
    /\ run.at = "busy" /\ pend # {}
    /\ run' = [run EXCEPT !.turn = @ + 1, !.inputs = pend]
    /\ pend' = {}
    /\ UNCHANGED <<reg, phase, restr, holdVars, steer, call, alone, strayed>>

\* ... or, the first one completed, under its own: that of any input merged.
NextEvent ==
    /\ run.at = "busy" /\ pend # {}
    /\ \E c \in pend :
          run' = [at |-> "busy", ctx |-> c, turn |-> run.turn + 1, inputs |-> pend]
    /\ pend' = {}
    /\ reg' = Released(reg, run.ctx)
    /\ UNCHANGED <<phase, restr, holdVars, steer, call, alone, strayed>>

-----------------------------------------------------------------------------
(* An orchestration tool: checked by the hook, checked again by its handler. *)

CheckCall ==
    /\ call.at = "none" /\ run.at = "busy"
    /\ LET n == Lookup(reg, run.ctx, run.turn)
       IN  /\ n # NoInput /\ MayOrchestrate(reg.snap[n])
           /\ call' = [at |-> "checked", by |-> n]
    /\ UNCHANGED <<reg, phase, restr, holdVars, hostVars, alone, strayed>>

\* Mutant of HandlerMay: what the hook found is not looked at again.
HandlerTrusts(r, n) == TRUE

\* orchestrate_handler_origin: the snapshot as it is now.
HandlerMay(r, n) == n \in r.live /\ MayOrchestrate(r.snap[n])

RunHandler ==
    /\ call.at = "checked"
    /\ call' = IF HandlerMay(reg, call.by) THEN [call EXCEPT !.at = "done"] ELSE NoCall
    /\ UNCHANGED <<reg, phase, restr, holdVars, hostVars, alone, strayed>>

-----------------------------------------------------------------------------

AdapterStep(i) ==
    \/ RetryGoes(i) \/ AdmitHeld(i) \/ Recheck(i) \/ Register(i)
    \/ Start(i) \/ Queue(i)

Next ==
    \/ HeldGoes \/ HeldDone \/ PreLlmCall \/ TurnEnds \/ FollowUp \/ NextEvent
    \/ CheckCall \/ RunHandler
    \/ \E i \in Inputs :
          \/ Arrive(i) \/ Wake(i) \/ GiveUp(i) \/ Steer(i) \/ Reject(i)
          \/ AdapterStep(i)

Spec == Init /\ [][Next]_vars

\* The adapter's tasks and the host go on; nothing else need happen.
Fairness ==
    /\ WF_vars(HeldGoes) /\ WF_vars(HeldDone)
    /\ WF_vars(\E i \in Inputs : AdapterStep(i))

FairSpec == Spec /\ Fairness

-----------------------------------------------------------------------------

Snapshot ==
    [owner : BOOLEAN, verified : BOOLEAN, legacy : BOOLEAN, orch : BOOLEAN,
     orig : BOOLEAN, notice : BOOLEAN, non : SUBSET Guests, grants : SUBSET All]

TypeOK ==
    /\ reg.live \subseteq Inputs /\ reg.consumed \subseteq reg.live
    /\ reg.snap \in [Inputs -> Snapshot]
    /\ reg.mark \in [Inputs -> {"no", "open", "named"}]
    /\ reg.bound \in [Inputs -> 0..Cardinality(Inputs)]
    /\ \A i \in Inputs : reg.bound[i] # 0 => i \in reg.live
    /\ \A i \in Inputs : reg.exec[i] # NoInput => i \in reg.live /\ reg.bound[reg.exec[i]] # 0
    /\ phase \in [Inputs -> {"none", "deferred", "held", "routed", "prep", "checked",
                             "ready", "host", "done"}]
    /\ run.inputs \cup pend \cup alone \cup {task} \subseteq Inputs \cup {NoInput}

Judged == Lookup(reg, run.ctx, run.turn)

(* A turn is never judged with authority somebody else's words run under:   *)
(* whatever the host merges into the running turn or queues behind it, in   *)
(* whatever order inputs arrive, are prepared and registered, a call of a   *)
(* turn that has a guest's input in it finds neither the owner's tools nor  *)
(* a retry nor the management of grants, and what it finds was granted to   *)
(* every guest in it (register_turn, mark_unverified_input, bind_turn).     *)
(* Left out: what follows once a queued turn was bound, as the newest that  *)
(* waits, to an input registered after the host had made up the turn.       *)
NoBorrowedAuthority ==
    (run.at = "busy" /\ Judged # NoInput /\ ~strayed) =>
        LET s == reg.snap[Judged]
        IN  /\ run.inputs \cap Guests # {} => ~MayOrchestrate(s) /\ ~s.verified
            /\ \A g \in run.inputs \cap Guests : s.grants \subseteq Has(g)

(* Nothing a guest did before is left to restrict the owner: a message that *)
(* arrives at rest, with nobody else's coming after it until its turn is    *)
(* registered, has the owner's authority, though inputs that were announced *)
(* and given up, merged away or refused never end by themselves             *)
(* (_grant_session_busy, clear_unverified_input).                           *)
OwnerAtRest ==
    \A i \in alone : phase[i] = "ready" => reg.snap[i].owner /\ reg.snap[i].verified

(* The handler of an orchestration decides by the turn as it is when it     *)
(* runs: a guest's input that came between the hook's check and the handler *)
(* withdraws what the hook allowed (take_orchestrate_origin).               *)
NoStaleCheckStep ==
    (call.at = "checked" /\ call'.at = "done") =>
       /\ MayOrchestrate(reg.snap[call.by])
       /\ (Judged = call.by /\ ~strayed) => run.inputs \cap Guests = {}

\* No step of the code does otherwise.
NoStaleCheck == [][NoStaleCheckStep]_vars

(* The owner is heard: a message that is held while a guest's turn or a     *)
(* notification runs is handed on, at its deadline if not before, though    *)
(* the turn it waits for may never end (_dispatch_held_owner_inputs).       *)
NoneHeld == \A i \in Owners : phase[i] # "held"
HeldIsServed == []<>NoneHeld

================================================================================
