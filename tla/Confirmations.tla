----------------------------- MODULE Confirmations -----------------------------
(***************************************************************************)
(* What the owner is asked in the direct chat: approvals the host wants    *)
(* for commands of group sessions, approvals a tool rule of mode "ask"     *)
(* wants for one call, and the confirmations of slash commands the owner   *)
(* sent in a group.  The host keeps a queue of waiting requests for each   *)
(* session; the plugin sends a card with a code for each, keeps the routes *)
(* of the codes, and turns the owner's reply into a decision for the host. *)
(* A call under the mode "ask" carries a record of its own (turn_grants):  *)
(* it runs only when that record was answered.                             *)
(*                                                                         *)
(* The host is external: it queues a request before it calls               *)
(* send_exec_approval, resolves a session's oldest request unless it is    *)
(* named, and gives a request up after its own timeout.                    *)
(***************************************************************************)
EXTENDS Naturals, Sequences, FiniteSets, SequencesExt

CONSTANTS
    Requests,     \* approvals the host may ask for
    Asks,         \* those of a call under the mode "ask"
    Sessions, SessionOf,
    Strangers,    \* sessions of direct chats with someone else than the owner
    Codes,
    Confirms,     \* the owner's slash commands in groups that want a confirmation
    MaxReplies    \* bound: replies of the owner

None == "none"
NoCode == "bare"

\* What the proofs take the constants to be.
ConfirmNames == None \notin Confirms

VARIABLES
    queue,     \* the host's waiting requests, per session
    step,      \* "idle", "raised", "sending", "arrived", "shown", "failed", "over"
    outcome,   \* what the host was told of it
    ask,       \* the record of a call under the mode "ask"
    ran,       \* what the host went on to run
    routes,    \* the plugin's routes, a request per code, or none
    code,      \* the code its card carries, per request
    cards,     \* (history) the request of the newest card the owner has with a code
    stray,     \* (history) the requests a code reached before their card did
    allowed,   \* (history) the requests whose card the owner answered with yes, once
    confirm,   \* the confirmation the plugin waits for, in the owner's chat
    prompt,    \* "idle", "sending", "shown", "gone", "done", per confirmation
    registry,  \* the confirmation the host waits for
    crossed,   \* (history) a prompt failed while another was pending
    misled,    \* (history) a code of a request that is over resolved another
    replies

vars == <<queue, step, outcome, ask, ran, routes, code, cards, stray, allowed,
          confirm, prompt, registry, crossed, misled, replies>>
hostVars == <<queue, step, outcome, ran>>
ownerVars == <<cards, stray, allowed>>
confirmVars == <<confirm, prompt, registry, crossed>>

NoAsk == [open |-> FALSE, routed |-> FALSE, delivered |-> FALSE, choice |-> None, late |-> FALSE]

Waiting(s) == queue[s] # <<>>
Routed(r) == ask[r].open /\ ask[r].routed

-----------------------------------------------------------------------------
(* turn_grants.py: the record of one call.                                 *)

\* approval_decision of a session's records, all of them or the named one:
\* the decision that goes to the host, and the records it marks.
Named(s, nonce) ==
    {r \in Asks : SessionOf[r] = s /\ Routed(r) /\ (nonce # None => r = nonce)}

Decided(s, choice, nonce) ==
    LET records == Named(s, nonce)
    IN  IF records = {} THEN choice
        ELSE IF choice = "once" /\ \A r \in records : records = {r} /\ ~ask[r].late
        THEN "once" ELSE "deny"

Marked(s, choice, nonce) ==
    [r \in Asks |-> IF r \in Named(s, nonce) THEN [ask[r] EXCEPT !.choice = choice] ELSE ask[r]]

\* Mutant of Finished: the host's word is enough.
FinishedTrusting(r) == ask[r].open /\ ask[r].routed /\ ~ask[r].late

\* finish_approval: the record is used up, and says whether it was answered.
Finished(r) ==
    /\ ask[r].open /\ ask[r].routed /\ ask[r].delivered
    /\ ask[r].choice = "once" /\ ~ask[r].late

-----------------------------------------------------------------------------
(* The routes of the codes.                                                *)

\* _prune_owner_approval_routes: the session no longer blocks.
Pruned(rt) == [k \in Codes |-> IF rt[k] # None /\ Waiting(SessionOf[rt[k]]) THEN rt[k] ELSE None]

\* _forget_owner_approval_route.
Forgotten(rt, s) == [k \in Codes |-> IF rt[k] # None /\ SessionOf[rt[k]] = s THEN None ELSE rt[k]]

Pending(rt) == {k \in Codes : rt[k] # None}

\* _reserve_owner_approval_code.
Free(rt) == Codes \ Pending(rt)

\* The host resolves the requests in these places of a session's queue.
Resolve(s, choice, gone) ==
    /\ queue' = [queue EXCEPT ![s] = SelectSeq(@, LAMBDA r : r \notin gone)]
    /\ outcome' = [r \in Requests |-> IF r \in gone THEN choice ELSE outcome[r]]

\* Mutant of Reached: an answer for a call goes to the session's oldest request.
ReachedOldest(s, nonce, all) ==
    IF ~Waiting(s) THEN {} ELSE IF all THEN Range(queue[s]) ELSE {Head(queue[s])}

\* _resolve_gateway_approval: the named call's request and no other, else the
\* session's oldest, or all of them.
Reached(s, nonce, all) ==
    IF ~Waiting(s) THEN {}
    ELSE IF nonce # None THEN {nonce} \cap Range(queue[s])
    ELSE IF all THEN Range(queue[s]) ELSE {Head(queue[s])}

\* _deny_non_owner_exec_approval: whoever speaks there cannot approve.
DenyStranger(s) == Resolve(s, "deny", Reached(s, None, FALSE))

-----------------------------------------------------------------------------
(* The host and the card.                                                  *)

Init ==
    /\ queue = [s \in Sessions |-> <<>>]
    /\ step = [r \in Requests |-> "idle"]
    /\ outcome = [r \in Requests |-> None]
    /\ ask = [r \in Asks |-> NoAsk]
    /\ ran = {}
    /\ routes = [k \in Codes |-> None]
    /\ code = [r \in Requests |-> None]
    /\ cards = [k \in Codes |-> None]
    /\ stray = {}
    /\ allowed = {}
    /\ confirm = None /\ prompt = [c \in Confirms |-> "idle"] /\ registry = None
    /\ crossed = FALSE /\ misled = FALSE /\ replies = 0

\* The host wants an approval; a call under "ask" has registered its record.
Raise(r) ==
    /\ step[r] = "idle"
    /\ step' = [step EXCEPT ![r] = "raised"]
    /\ queue' = [queue EXCEPT ![SessionOf[r]] = Append(@, r)]
    /\ ask' = IF r \in Asks THEN [ask EXCEPT ![r].open = TRUE] ELSE ask
    /\ UNCHANGED <<outcome, ran, routes, code, ownerVars, confirmVars, misled, replies>>

\* send_exec_approval up to its send: a session that cannot approve is told no
\* at once; else the card gets a code, or fails when none is free.
SendCard(r) ==
    LET s == SessionOf[r]
        found == r \in Asks /\ ask[r].open /\ ~ask[r].routed /\ ~ask[r].late
        rt == Pruned(routes)
        free == Free(rt)
    IN  /\ step[r] = "raised"
        /\ \/ /\ s \in Strangers /\ ~found
              /\ DenyStranger(s)
              /\ step' = [step EXCEPT ![r] = "shown"]
              /\ UNCHANGED <<ask, routes, code>>
           \/ /\ s \notin Strangers \/ found
              /\ free # {}
              /\ \E k \in free : routes' = [rt EXCEPT ![k] = r] /\ code' = [code EXCEPT ![r] = k]
              /\ ask' = IF found THEN [ask EXCEPT ![r].routed = TRUE] ELSE ask
              /\ step' = [step EXCEPT ![r] = "sending"]
              /\ UNCHANGED <<queue, outcome>>
           \/ /\ s \notin Strangers \/ found
              /\ free = {}
              /\ Resolve(s, "deny", IF found THEN Reached(s, r, FALSE) ELSE {})
              /\ ask' = IF found THEN [ask EXCEPT ![r].routed = TRUE, ![r].choice = "deny"] ELSE ask
              /\ routes' = rt
              /\ step' = [step EXCEPT ![r] = "failed"]
              /\ UNCHANGED code
        /\ UNCHANGED <<ran, ownerVars, confirmVars, misled, replies>>

\* The route that carries the answers to a call under "ask".
Nonce(r) == IF r \in Asks /\ ask[r].routed THEN r ELSE None

\* The card was acknowledged.
Delivered(r) ==
    /\ step[r] = "arrived"
    /\ step' = [step EXCEPT ![r] = "shown"]
    /\ ask' = IF Nonce(r) # None /\ ask[r].open THEN [ask EXCEPT ![r].delivered = TRUE] ELSE ask
    /\ UNCHANGED <<queue, outcome, ran, routes, code, ownerVars, confirmVars, misled, replies>>

\* The owner has the card; the acknowledgement follows, or is lost.
Arrives(r) ==
    /\ step[r] = "sending"
    /\ step' = [step EXCEPT ![r] = "arrived"]
    /\ cards' = [cards EXCEPT ![code[r]] = r]
    /\ UNCHANGED <<queue, outcome, ran, ask, routes, code, stray, allowed, confirmVars, misled, replies>>

\* Mutant of NotDelivered: only the code is released.
NotDeliveredSilent(r) ==
    /\ step[r] \in {"sending", "arrived"}
    /\ step' = [step EXCEPT ![r] = "failed"]
    /\ routes' = [k \in Codes |-> IF routes[k] = r THEN None ELSE routes[k]]
    /\ UNCHANGED <<queue, outcome, ask, ran, code, ownerVars, confirmVars, misled, replies>>

\* It was not, or the send was cancelled: a call is denied, the code is free.
NotDelivered(r) ==
    /\ step[r] \in {"sending", "arrived"}
    /\ step' = [step EXCEPT ![r] = "failed"]
    /\ LET s == SessionOf[r]
       IN  IF Nonce(r) # None
           THEN /\ Resolve(s, "deny", Reached(s, r, FALSE))
                /\ ask' = IF Waiting(s) THEN Marked(s, "deny", r) ELSE ask
           ELSE UNCHANGED <<queue, outcome, ask>>
    /\ routes' = [k \in Codes |-> IF routes[k] = r THEN None ELSE routes[k]]
    /\ UNCHANGED <<ran, code, ownerVars, confirmVars, misled, replies>>

\* The host gives a request up: its timeout, or an interrupt.
HostTimeout(r) ==
    /\ r \in Range(queue[SessionOf[r]])
    /\ Resolve(SessionOf[r], "timeout", {r})
    /\ UNCHANGED <<step, ask, ran, routes, code, ownerVars, confirmVars, misled, replies>>

\* The tool thread goes on: a call under "ask" needs its record as well.
HostReturns(r) ==
    /\ outcome[r] # None /\ step[r] \in {"shown", "failed"}
    /\ step' = [step EXCEPT ![r] = "over"]
    /\ ran' = IF outcome[r] \in {"once", "session"} /\ (r \in Asks => Finished(r))
              THEN ran \cup {r} ELSE ran
    /\ ask' = IF r \in Asks THEN [ask EXCEPT ![r].open = FALSE] ELSE ask
    /\ UNCHANGED <<queue, outcome, routes, code, ownerVars, confirmVars, misled, replies>>

\* The record's 600 seconds are over.
AskExpires(r) ==
    /\ ask[r].open /\ ~ask[r].late
    /\ ask' = [ask EXCEPT ![r].late = TRUE]
    /\ UNCHANGED <<hostVars, routes, code, ownerVars, confirmVars, misled, replies>>

-----------------------------------------------------------------------------
(* The owner's answers.                                                    *)

\* What the owner means by a code: the newest card that carries it; without
\* one, the only request pending.
Meant(k) ==
    IF k # NoCode THEN {cards[k]} \ {None}
    ELSE IF Cardinality(Pending(Pruned(routes))) # 1 THEN {}
    ELSE {Pruned(routes)[m] : m \in Pending(Pruned(routes))}

\* _approval_choice_from_text; a call under "ask" has no lasting scope.
Choice(word, nonce) ==
    IF nonce = None THEN (IF word = "all" THEN "once" ELSE word)
    ELSE IF word = "once" THEN "once" ELSE "deny"

\* _handle_owner_forwarded_approval, for "/approve", "/approve session",
\* "/approve all" or "/deny", with a code or bare.
OwnerReplies(word, key) ==
    LET rt == Pruned(routes)
        chosen == IF key # NoCode THEN {key} \cap Pending(rt)
                  ELSE IF Cardinality(Pending(rt)) = 1 THEN Pending(rt) ELSE {}
    IN  /\ replies < MaxReplies /\ replies' = replies + 1
        /\ confirm = None \/ key # NoCode
        /\ allowed' = IF word = "once" THEN allowed \cup Meant(key) ELSE allowed
        /\ IF chosen = {}
           THEN /\ routes' = rt
                /\ UNCHANGED <<queue, outcome, ask, stray, misled>>
           ELSE LET k == CHOOSE x \in chosen : TRUE
                    r == rt[k]
                    s == SessionOf[r]
                    nonce == Nonce(r)
                    choice == IF nonce = None THEN Choice(word, nonce)
                              ELSE Decided(s, Choice(word, nonce), nonce)
                    gone == Reached(s, nonce, word = "all" /\ nonce = None)
                IN  /\ Resolve(s, choice, gone)
                    /\ ask' = IF nonce = None THEN ask ELSE Marked(s, IF gone = {} THEN "deny" ELSE choice, nonce)
                    /\ routes' = IF (word = "all" /\ nonce = None) \/ gone = {} THEN Forgotten(rt, s)
                                 ELSE [rt EXCEPT ![k] = None]
                    /\ stray' = IF key # NoCode /\ cards[k] # r THEN stray \cup {r} ELSE stray
                    /\ misled' = (misled \/ (gone # {} /\ key # NoCode /\ cards[k] = r /\ outcome[r] # None))
        /\ UNCHANGED <<step, ran, code, cards, confirmVars>>

\* _handle_interaction_submit: a button of the card of this request.
Button(r, word) ==
    LET s == SessionOf[r]
        records == Named(s, None)
        nonce == IF Cardinality(records) = 1 THEN CHOOSE q \in records : TRUE ELSE None
        choice == IF records = {} THEN word
                  ELSE Decided(s, IF nonce = r /\ word = "once" THEN "once" ELSE "deny", nonce)
        gone == Reached(s, nonce, FALSE)
    IN  /\ replies < MaxReplies /\ replies' = replies + 1
        /\ code[r] # None /\ cards[code[r]] = r
        /\ allowed' = IF word = "once" THEN allowed \cup {r} ELSE allowed
        /\ IF Cardinality(records) > 1
           THEN UNCHANGED <<queue, outcome, ask, routes>>
           ELSE /\ Resolve(s, choice, gone)
                /\ ask' = IF nonce = None \/ ~Waiting(s) THEN ask
                          ELSE Marked(s, IF gone = {} THEN "deny" ELSE choice, nonce)
                /\ routes' = IF gone = {} THEN routes ELSE Forgotten(routes, s)
        /\ UNCHANGED <<step, ran, code, cards, stray, confirmVars, misled>>

-----------------------------------------------------------------------------
(* The confirmation of the owner's slash command in a group.               *)

\* Mutant of AskConfirm: a prompt already waited for is kept.
AskConfirmFirst(c) ==
    /\ prompt[c] = "idle"
    /\ prompt' = [prompt EXCEPT ![c] = "sending"]
    /\ confirm' = (IF confirm = None THEN c ELSE confirm) /\ registry' = c
    /\ UNCHANGED <<hostVars, ask, routes, code, ownerVars, crossed, misled, replies>>

\* _ask_owner_group_slash_confirm: the newest prompt is the one waited for.
AskConfirm(c) ==
    /\ prompt[c] = "idle"
    /\ prompt' = [prompt EXCEPT ![c] = "sending"]
    /\ confirm' = c /\ registry' = c
    /\ UNCHANGED <<hostVars, ask, routes, code, ownerVars, crossed, misled, replies>>

Prompted(c) ==
    /\ prompt[c] = "sending"
    /\ prompt' = [prompt EXCEPT ![c] = "shown"]
    /\ UNCHANGED <<hostVars, ask, routes, code, ownerVars, confirm, registry, crossed, misled, replies>>

\* The prompt cannot be sent: the host asks in the group instead, and the
\* chat's entry goes, whichever confirmation it is by then.
NotPrompted(c) ==
    /\ prompt[c] = "sending"
    /\ prompt' = [prompt EXCEPT ![c] = "gone"]
    /\ confirm' = None
    /\ crossed' = (crossed \/ confirm \notin {None, c})
    /\ UNCHANGED <<hostVars, ask, routes, code, ownerVars, registry, misled, replies>>

\* _answer_owner_group_slash_confirm: a bare word, or another command.
AnswerConfirm(word) ==
    /\ replies < MaxReplies /\ replies' = replies + 1
    /\ confirm # None
    /\ confirm' = None
    /\ IF word \in {"once", "deny"} /\ registry = confirm
       THEN registry' = None /\ prompt' = [prompt EXCEPT ![confirm] = "done"]
       ELSE registry' = registry /\ prompt' = [prompt EXCEPT ![confirm] = "gone"]
    /\ UNCHANGED <<hostVars, ask, routes, code, ownerVars, crossed, misled>>

\* Either side's five minutes are over.
ConfirmExpires ==
    \/ /\ confirm # None
       /\ confirm' = None /\ prompt' = [prompt EXCEPT ![confirm] = "gone"]
       /\ UNCHANGED registry
    \/ /\ registry # None
       /\ registry' = None
       /\ UNCHANGED <<confirm, prompt>>

HostForgets == ConfirmExpires /\ UNCHANGED <<hostVars, ask, routes, code, ownerVars, crossed, misled, replies>>

Next ==
    \/ \E r \in Requests : Raise(r) \/ SendCard(r) \/ Arrives(r) \/ Delivered(r) \/ NotDelivered(r)
                             \/ HostTimeout(r) \/ HostReturns(r)
    \/ \E r \in Asks : AskExpires(r)
    \/ \E word \in {"once", "session", "all", "deny"}, key \in Codes \cup {NoCode} : OwnerReplies(word, key)
    \/ \E r \in Requests, word \in {"once", "session", "deny"} : Button(r, word)
    \/ \E c \in Confirms : AskConfirm(c) \/ Prompted(c) \/ NotPrompted(c)
    \/ \E word \in {"once", "deny", "other"} : AnswerConfirm(word)
    \/ HostForgets

Spec == Init /\ [][Next]_vars

-----------------------------------------------------------------------------
(* Properties.                                                             *)

\* A request is in its session's queue from Raise until it has an outcome;
\* no two codes lead to one request.
TypeOK ==
    /\ \A r \in Requests : (r \in Range(queue[SessionOf[r]])) <=> (step[r] # "idle" /\ outcome[r] = None)
    /\ \A k, m \in Codes : routes[k] # None /\ routes[k] = routes[m] => k = m
    /\ \A r \in Asks : ask[r].open <=> step[r] \notin {"idle", "over"}
    /\ confirm \in Confirms \cup {None} /\ registry \in Confirms \cup {None}

\* A call under the mode "ask" runs only after the owner said yes to the card
\* of that very call, once, while its record was good: not through another
\* request's code, a bare word with several cards open, the answer to a
\* command of the same session, or a scope that outlives the call.  Left out
\* is the answer to an older card whose code was given to the call before the
\* call's own card arrived (turn_grants approvals, grant_gate, _resolve_gateway_approval).
AskRunsOnItsOwnAnswer == \A r \in Asks \cap ran : r \in allowed \cup stray

\* A call whose card did not reach the owner never waits for the host's
\* timeout: it is denied when the card fails, on every path of
\* send_exec_approval.
FailedCardDenies ==
    \A r \in Asks : step[r] = "failed" /\ Nonce(r) # None => outcome[r] # None

\* A confirmation whose prompt the owner has and the host still waits for is
\* the one the owner's next bare word answers, whatever prompts were sent
\* before; only the failure of another prompt takes it away
\* (_ask_owner_group_slash_confirm, _answer_owner_group_slash_confirm).
NewestPromptAnswered ==
    \A c \in Confirms : prompt[c] = "shown" /\ registry = c /\ ~crossed => confirm = c

\* A code whose request is already over resolves nothing, as the table of the
\* replies says (docs/architecture.md, "unknown, resolved, or expired").
OverCodeResolvesNothing == ~misled
=============================================================================
