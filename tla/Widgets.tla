------------------------------ MODULE Widgets ------------------------------
(***************************************************************************)
(* Home-screen widgets: WidgetSendThrottle of widget_send.py and the owner *)
(* chat it sends to (adapter.py, send_widget_message).  Every call carries *)
(* a whole snapshot of one widget; per account and widget id a snapshot is *)
(* sent at once, or it replaces the one snapshot that waits for the end of *)
(* the minute.  The owner, the activation and the connection are looked at *)
(* again before every sending, and the first look may have to ask the      *)
(* server for the owner's chat.                                            *)
(*                                                                         *)
(* One key of the throttle is modelled: keys share nothing but the lookup  *)
(* of the chat, which has a lock of its own.  The sections under a key's   *)
(* lock contain no await, so each is one step.  Snapshots are numbered in  *)
(* the order the tool was called.                                          *)
(***************************************************************************)
EXTENDS Integers, Sequences

CONSTANTS
    MaxDocs,        \* calls of the tool
    Window,         \* the minute between two starts, in ticks
    MaxTime,        \* bound on the clock
    MaxTargets,     \* changes of owner, activation or token
    MaxDrops,       \* losses of the connection and shutdowns, together
    MaxFailures     \* failed lookups, lost frames or acks, cancelled calls

VARIABLES
    now,        \* the clock
    ready,      \* is_ready: the connection is in READY
    target,     \* identity: owner, activation generation, token, epoch
    life,       \* which _State object the key has (cancel_all drops it)
    last,       \* last_start of the state, Never before the first
    sequence,   \* starts counted by the state
    sending,    \* deliveries not yet finished
    pending,    \* the snapshot that waits, or 0
    timer,      \* the armed call_later handle, or NoTimer
    arms,       \* handles made so far: a handle's identity
    fired,      \* handles whose callback has spawned a _flush
    line,       \* holders and waiters of _widget_target_lock, in order
    asked,      \* the identity the first of the line has read, 0 before
    call,       \* what the tool call of a snapshot has come to
    admitted,   \* the identity a snapshot was admitted with
    send,       \* the delivery of a snapshot
    shown,      \* the snapshot the server got last
    drops, failures

vars == <<now, ready, target, life, last, sequence, sending, pending, timer,
          arms, fired, line, asked, call, admitted, send, shown, drops,
          failures>>

throttle == <<life, last, sequence, sending, pending, timer, arms>>
Docs == 1..MaxDocs
Never == -1
NoTimer == [handle |-> 0, due |-> 0, rung |-> FALSE]
NoSend == [pc |-> "none", timed |-> FALSE, previous |-> Never, at |-> 0,
           sequence |-> 0, life |-> 0, acked |-> FALSE]

Init ==
    /\ now = 0 /\ ready = TRUE /\ target = 1 /\ life = 0
    /\ last = Never /\ sequence = 0 /\ sending = 0 /\ pending = 0
    /\ timer = NoTimer /\ arms = 0 /\ fired = {}
    /\ line = <<>> /\ asked = 0
    /\ call = [d \in Docs |-> "none"]
    /\ admitted = [d \in Docs |-> 0]
    /\ send = [d \in Docs |-> NoSend]
    /\ shown = 0 /\ drops = 0 /\ failures = 0

(***************************************************************************)
(* The throttle.                                                           *)
(***************************************************************************)

\* _arm: a timer only where something waits and none is armed; the end of
\* the minute of the last start, at once when there is no last start.
DueAfter(start) == IF start = Never THEN now ELSE start + Window

Armed(start, waiting, tm) ==
    IF waiting = 0 \/ tm # NoTimer
      THEN timer' = tm /\ arms' = arms
      ELSE /\ timer' = [handle |-> arms + 1, due |-> DueAfter(start),
                        rung |-> FALSE]
           /\ arms' = arms + 1

\* _start: the new start is counted before the delivery task has run.
Start(d, timed) ==
    /\ last' = now
    /\ sequence' = sequence + 1
    /\ sending' = sending + 1
    /\ send' = [send EXCEPT ![d] =
                  [pc |-> "new", timed |-> timed, previous |-> last,
                   at |-> now, sequence |-> sequence + 1, life |-> life,
                   acked |-> FALSE]]

\* submit: at once when nothing is being sent and the minute is over,
\* otherwise as the one snapshot that waits.
Open == sending = 0 /\ (last = Never \/ now - last >= Window)

\* Mutant of Submit: a snapshot sent at once leaves the older one waiting.
SubmitKeepsOlder(d) ==
    \/ /\ Open
       /\ Start(d, FALSE)
       /\ UNCHANGED <<pending, timer, arms>>
       /\ call' = [call EXCEPT ![d] = "waiting"]
       /\ UNCHANGED life
    \/ /\ ~Open
       /\ pending' = d
       /\ Armed(last, d, timer)
       /\ call' = [call EXCEPT ![d] = "queued"]
       /\ UNCHANGED <<life, last, sequence, sending, send>>

Submit(d) ==
    \/ /\ Open
       /\ Start(d, FALSE)
       /\ pending' = 0 /\ timer' = NoTimer /\ arms' = arms
       /\ call' = [call EXCEPT ![d] = "waiting"]
       /\ UNCHANGED life
    \/ /\ ~Open
       /\ pending' = d
       /\ Armed(last, d, timer)
       /\ call' = [call EXCEPT ![d] = "queued"]
       /\ UNCHANGED <<life, last, sequence, sending, send>>

\* The callback of call_later spawns _flush; the handle stays the state's.
Fire ==
    /\ timer # NoTimer /\ ~timer.rung /\ now >= timer.due
    /\ timer' = [timer EXCEPT !.rung = TRUE]
    /\ fired' = fired \cup {timer.handle}
    /\ UNCHANGED <<now, ready, target, life, last, sequence, sending, pending,
                   arms, line, asked, call, admitted, send, shown, drops,
                   failures>>

\* _flush: only for the handle the state still has.
Taken(h) == timer.handle = h

\* Mutant of Flush: the handle that has rung stays the state's timer.
FlushKeepsHandle(h) ==
    /\ h \in fired
    /\ fired' = fired \ {h}
    /\ IF Taken(h) /\ pending # 0
         THEN pending' = 0 /\ Start(pending, TRUE)
         ELSE UNCHANGED <<last, sequence, sending, pending, send>>
    /\ UNCHANGED <<now, ready, target, life, timer, arms, line, asked, call,
                   admitted, shown, drops, failures>>

Flush(h) ==
    /\ h \in fired
    /\ fired' = fired \ {h}
    /\ IF Taken(h)
         THEN /\ timer' = NoTimer
              /\ IF pending = 0
                   THEN UNCHANGED <<last, sequence, sending, pending, send>>
                   ELSE pending' = 0 /\ Start(pending, TRUE)
         ELSE UNCHANGED <<timer, last, sequence, sending, pending, send>>
    /\ UNCHANGED <<now, ready, target, life, arms, line, asked, call, admitted,
                   shown, drops, failures>>

(***************************************************************************)
(* A delivery: _deliver.                                                   *)
(***************************************************************************)

\* What submit tells its caller when the delivery it awaits has ended.
Told(d, how) ==
    call' = [call EXCEPT ![d] = IF @ = "waiting" THEN how ELSE @]

\* The task's first step.  A state that shutdown has dropped sends nothing;
\* the caller of submit sees its delivery end without an error.
Begin(d) ==
    /\ send[d].pc = "new"
    /\ \A e \in Docs : send[e].pc = "new" => e >= d
    /\ IF send[d].life = life
         THEN /\ send' = [send EXCEPT ![d].pc = "line"]
              /\ line' = Append(line, <<"send", d>>)
              /\ UNCHANGED call
         ELSE /\ send' = [send EXCEPT ![d].pc = "dropped"]
              /\ Told(d, "sent")
              /\ UNCHANGED line
    /\ UNCHANGED <<now, ready, target, throttle, fired, asked, admitted, shown,
                   drops, failures>>

\* The finally: one delivery less, and a timer for what has come to wait.
\* A state that was dropped is nobody's any more.
Ended(d, pc) ==
    /\ send' = [send EXCEPT ![d].pc = pc, ![d].acked = (pc = "done")]
    /\ IF send[d].life # life
         THEN UNCHANGED throttle
         ELSE /\ sending' = sending - 1
              /\ Armed(last, pending, timer)
              /\ UNCHANGED <<life, last, sequence, pending>>

\* Mutant of TakenBack: a later start does not matter.
TakenBackAlways(d) == ~send[d].timed

\* The except: an immediate start that failed and that no later start has
\* followed is taken back, and what waits is armed for the restored minute.
TakenBack(d) == ~send[d].timed /\ send[d].sequence = sequence

\* Mutant of EndedFailed: the error of the delivery is swallowed.
EndedQuietly(d) ==
    /\ Told(d, "sent")
    /\ Ended(d, "failed")

EndedFailed(d) ==
    /\ Told(d, "failed")
    /\ IF send[d].life = life /\ TakenBack(d)
         THEN /\ send' = [send EXCEPT ![d].pc = "failed"]
              /\ last' = send[d].previous
              /\ sending' = sending - 1
              /\ Armed(send[d].previous, pending,
                       IF pending = 0 THEN timer ELSE NoTimer)
              /\ UNCHANGED <<life, sequence, pending>>
         ELSE Ended(d, "failed")

(***************************************************************************)
(* The owner's chat: _resolve_widget_target, under its own lock.           *)
(***************************************************************************)

\* send_widget_message: the connection is looked at before anything else.
Call(d) ==
    /\ call[d] = "none"
    /\ \A e \in 1..(d - 1) : call[e] # "none"
    /\ \/ /\ ready
          /\ call' = [call EXCEPT ![d] = "asking"]
          /\ line' = Append(line, <<"call", d>>)
       \/ /\ ~ready
          /\ call' = [call EXCEPT ![d] = "failed"]
          /\ UNCHANGED line
    /\ UNCHANGED <<now, ready, target, throttle, fired, asked, admitted, send,
                   shown, drops, failures>>

First == Head(line)
Doc == First[2]

\* A lookup that ends in an error, for the tool call or for the delivery.
LookupFails ==
    /\ line' = Tail(line) /\ asked' = 0
    /\ \/ /\ First[1] = "call"
          /\ call' = [call EXCEPT ![Doc] = "failed"]
          /\ UNCHANGED <<throttle, send>>
       \/ /\ First[1] = "send"
          /\ EndedFailed(Doc)

\* The identity is read; a delivery's must be the one it was admitted with.
ReadTarget ==
    /\ line # <<>> /\ asked = 0
    /\ \/ /\ First[1] = "send" /\ target # admitted[Doc]
          /\ LookupFails
       \/ /\ First[1] = "call" \/ target = admitted[Doc]
          /\ asked' = target
          /\ UNCHANGED <<line, call, throttle, send>>
    /\ UNCHANGED <<now, ready, target, fired, admitted, shown, drops, failures>>

\* Mutant of Same: the identity read before the lookup is trusted after it.
SameAssumed == asked # 0

\* The chat is known, from the cache or from the server; the identity is
\* compared once more.
Same == target = asked

\* The call goes on into the throttle.
CallAdmitted ==
    /\ line # <<>> /\ asked # 0 /\ First[1] = "call" /\ Same
    /\ line' = Tail(line) /\ asked' = 0
    /\ admitted' = [admitted EXCEPT ![Doc] = asked]
    /\ Submit(Doc)
    /\ UNCHANGED <<now, ready, target, fired, shown, drops, failures>>

\* The delivery writes its frame, which reaches the server or is lost.
FrameOut(reaches) ==
    /\ line # <<>> /\ asked # 0 /\ First[1] = "send" /\ Same /\ ready
    /\ line' = Tail(line) /\ asked' = 0
    /\ send' = [send EXCEPT ![Doc].pc = IF reaches THEN "acking" ELSE "lost"]
    /\ shown' = IF reaches THEN Doc ELSE shown
    /\ failures' = IF reaches THEN failures ELSE failures + 1
    /\ failures' <= MaxFailures
    /\ UNCHANGED <<now, ready, target, throttle, fired, call, admitted, drops>>

\* No chat: the identity is another one, the connection is gone, or the
\* server refused the lookup.
NotNow ==
    /\ line # <<>> /\ asked # 0
    /\ \/ /\ ~Same \/ (First[1] = "send" /\ ~ready)
          /\ UNCHANGED failures
       \/ /\ failures < MaxFailures
          /\ failures' = failures + 1
    /\ LookupFails
    /\ UNCHANGED <<now, ready, target, fired, admitted, shown, drops>>

\* send_frame returns: the ack came, or it never will.
Acked(d) ==
    /\ send[d].pc = "acking"
    /\ Ended(d, "done")
    /\ Told(d, "sent")
    /\ UNCHANGED <<now, ready, target, fired, line, asked, admitted, shown,
                   drops, failures>>

AckFails(d) ==
    /\ \/ send[d].pc = "lost" /\ UNCHANGED failures
       \/ /\ send[d].pc = "acking" /\ failures < MaxFailures
          /\ failures' = failures + 1
    /\ EndedFailed(d)
    /\ UNCHANGED <<now, ready, target, fired, line, asked, admitted, shown,
                   drops>>

\* The host cancels the tool call: the delivery it awaits goes with it, and
\* what it was waiting for in the line.  A delivery task that has not begun
\* never runs its finally: it stays counted in `sending`, and every later
\* snapshot of this state waits for a timer.
Cancel(d) ==
    /\ call[d] = "waiting" /\ send[d].pc \in {"new", "line", "acking", "lost"}
    /\ failures < MaxFailures /\ failures' = failures + 1
    /\ call' = [call EXCEPT ![d] = "failed"]
    /\ IF send[d].pc = "new"
         THEN send' = [send EXCEPT ![d].pc = "cancelled"] /\ UNCHANGED throttle
         ELSE Ended(d, "cancelled")
    /\ line' = SelectSeq(line, LAMBDA e : e # <<"send", d>>)
    /\ asked' = IF line # <<>> /\ First = <<"send", d>> THEN 0 ELSE asked
    /\ UNCHANGED <<now, ready, target, fired, admitted, shown, drops>>

(***************************************************************************)
(* Around it.                                                              *)
(***************************************************************************)

\* Another owner, another activation, or a refreshed token.
Retarget ==
    /\ target <= MaxTargets
    /\ target' = target + 1
    /\ UNCHANGED <<now, ready, throttle, fired, line, asked, call, admitted,
                   send, shown, drops, failures>>

ConnectionLost ==
    /\ ready /\ drops < MaxDrops
    /\ ready' = FALSE /\ drops' = drops + 1
    /\ UNCHANGED <<now, target, throttle, fired, line, asked, call, admitted,
                   send, shown, failures>>

ConnectionBack ==
    /\ ~ready
    /\ ready' = TRUE
    /\ UNCHANGED <<now, target, throttle, fired, line, asked, call, admitted,
                   send, shown, drops, failures>>

\* disconnect: cancel_all, and a new epoch so that no lookup in flight counts.
Disconnect ==
    /\ drops < MaxDrops /\ drops' = drops + 1
    /\ ready' = FALSE
    /\ target' = target + 1
    /\ life' = life + 1
    /\ last' = Never /\ sequence' = 0 /\ sending' = 0 /\ pending' = 0
    /\ timer' = NoTimer
    /\ UNCHANGED <<now, arms, fired, line, asked, call, admitted, send, shown,
                   failures>>

Tick ==
    /\ now < MaxTime
    /\ now' = now + 1
    /\ UNCHANGED <<ready, target, throttle, fired, line, asked, call, admitted,
                   send, shown, drops, failures>>

Next ==
    \/ Fire \/ \E h \in fired : Flush(h)
    \/ \E d \in Docs : Call(d) \/ Begin(d) \/ Acked(d) \/ AckFails(d) \/ Cancel(d)
    \/ ReadTarget \/ CallAdmitted \/ NotNow
    \/ \E reaches \in BOOLEAN : FrameOut(reaches)
    \/ Retarget \/ ConnectionLost \/ ConnectionBack \/ Disconnect \/ Tick

\* What an instance may limit further: the mishaps of a behaviour.
Mishaps == drops + failures

Spec == Init /\ [][Next]_vars

(***************************************************************************)
(* Properties.                                                             *)
(***************************************************************************)

\* The variables keep the shapes the code gives them.
TypeOK ==
    /\ now \in 0..MaxTime /\ ready \in BOOLEAN
    /\ last \in Never..MaxTime /\ pending \in 0..MaxDocs
    /\ sending \in 0..MaxDocs /\ sequence \in 0..MaxDocs
    /\ call \in [Docs -> {"none", "asking", "queued", "waiting", "sent", "failed"}]
    /\ \A d \in Docs : send[d].pc \in {"none", "new", "line", "acking", "lost",
                                       "done", "failed", "dropped", "cancelled"}
    /\ shown \in 0..MaxDocs

\* A snapshot that waits has a timer that will ring, or a flush on its way
\* for that very timer: no failure, ack, cancellation or newer snapshot
\* leaves it waiting with nobody to send it (widget_send.py, _arm, _flush and
\* the two ends of _deliver).
PendingHasTimer ==
    pending # 0 =>
        /\ timer # NoTimer
        /\ timer.rung => timer.handle \in fired

\* Two starts of a widget lie a minute apart unless the earlier one was an
\* immediate one that failed: also when an old ack fails late, after the next
\* minute's snapshot has gone (widget_send.py, _deliver).
OneStartAMinute ==
    \A d, e \in Docs :
        (/\ send[d].pc # "none" /\ send[e].pc # "none"
         /\ send[d].life = send[e].life
         /\ send[d].sequence < send[e].sequence
         /\ send[e].at - send[d].at < Window)
        => send[d].pc = "failed" /\ ~send[d].timed

\* The server never gets an older snapshot after a newer one, although a
\* flush does not wait for an earlier ack (widget_send.py, _flush, and the
\* lock of adapter.py, _resolve_widget_target).
SnapshotsForwardStep ==
    shown' >= shown

\* No step of the code does otherwise.
SnapshotsForward == [][SnapshotsForwardStep]_vars

\* A snapshot is written only for the owner and activation it was admitted
\* for, however long it has waited for the minute, the lock or the server's
\* answer (adapter.py, _resolve_widget_target).
OnlyToItsOwnerStep ==
    \A d \in Docs :
      (send[d].pc = "line" /\ send'[d].pc \in {"acking", "lost"})
      => target = admitted[d]

\* No step of the code does otherwise.
OnlyToItsOwner == [][OnlyToItsOwnerStep]_vars

\* A caller told "sent" has its snapshot acknowledged, unless shutdown
\* dropped the throttle before the delivery's task had run.
SentMeansAcked ==
    \A d \in Docs : call[d] = "sent" => send[d].acked \/ send[d].pc = "dropped"
=============================================================================
