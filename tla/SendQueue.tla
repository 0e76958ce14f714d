------------------------------ MODULE SendQueue ------------------------------
(***************************************************************************)
(* The outbound half of ClawChatConnection: send_frame, the bounded        *)
(* reconnect queue, its flush at READY, and the acknowledgements callers   *)
(* wait for (connection.py).                                               *)
(*                                                                         *)
(* A frame is one call of send_frame.  Frames are numbered in the order of *)
(* their calls, and a frame's trace id is the frame itself.  The socket is *)
(* a websocket connection: bytes are handed over in call order when `send` *)
(* begins, the call may be suspended for as long as the peer does not      *)
(* read, and it raises once the socket has broken.  Whether bytes handed   *)
(* over reach the server is known to nobody on this side.                  *)
(***************************************************************************)
EXTENDS Integers, Sequences, FiniteSets

CONSTANTS
  Frames,      \* the calls of send_frame, numbered in call order
  Acked,       \* those with wait_for_ack and an ackable event
  Patient,     \* those with queue_when_unready
  Malformed,   \* those whose chat_id is not a conversation id
  Chats,       \* conversations
  ChatOf,      \* the conversation a frame is for
  QueueMax,    \* SEND_QUEUE_MAX
  MaxSockets,  \* bound: sockets opened; the last one does not break
  GivesUp,     \* TRUE when reconnect_max_retries is finite
  NoFrame      \* "no frame"

ASSUME FramesAssumption ==
  /\ Frames \subseteq Nat
  /\ Acked \subseteq Frames /\ Patient \subseteq Frames /\ Malformed \subseteq Frames
  /\ ChatOf \in [Frames -> Chats]
  /\ NoFrame \notin Frames

ASSUME BoundsAssumption ==
  /\ QueueMax \in Nat \ {0}
  /\ MaxSockets \in Nat \ {0}
  /\ GivesUp \in BOOLEAN

VARIABLES
  state,     \* _state, as far as send_frame reads it
  stopping,  \* _stopping
  sup,       \* where the supervisor and _run_one_connection stand
  ws,        \* _ws: the socket's number, 0 for None
  opened,    \* sockets opened so far
  broken,    \* sockets on which a send raises
  queue,     \* _send_queue
  flushing,  \* the frame _flush_send_queue is sending (NoFrame: not flushing)
  call,      \* what each send_frame call does, or what it answered
  on,        \* the socket a direct send runs on (0: no direct send)
  pending,   \* _pending_acks: frames with a running ack timer
  rejected,  \* conversations the server rejected lately
  deaf,      \* sockets whose bytes no longer reach the server
  got,       \* what the server read, in order
  heard,     \* read on the current socket and not answered yet
  accepted,  \* history: frames the server acknowledged
  failed,    \* history: frames one of whose sends raised
  lost,      \* history: frames the flush removed without sending them
  displaced  \* history: frames the flush sent and left in the queue

connection == <<state, stopping, sup, ws, opened, broken>>
server == <<deaf, got, heard, accepted>>
history == <<failed, lost, displaced>>
vars == <<connection, queue, flushing, call, on, pending, rejected, server, history>>

Sockets == 1..MaxSockets
Answers == {"true", "false", "error", "cancelled"}

\* send_frame has not returned: it writes to the socket, or awaits ack_future.
Unanswered(f) == call[f] \in {"writing", "waiting"}

InSeq(s) == {s[i] : i \in 1..Len(s)}

-----------------------------------------------------------------------------
\* Settling ack futures: a parked call returns; a call that has answered
\* already does not look at its future any more.
Answer(F, a) == [f \in Frames |-> IF f \in F /\ call[f] = "waiting" THEN a ELSE call[f]]

\* The bytes of f are handed to the current socket.  They reach the server
\* unless an earlier loss on that socket keeps everything after it away.  The
\* server answers ackable events only.
Handed(f) ==
  \/ /\ ws \notin deaf \cup broken
     /\ got' = Append(got, f)
     /\ heard' = heard \cup ({f} \cap Acked)
     /\ UNCHANGED <<deaf, accepted>>
  \/ /\ deaf' = deaf \cup {ws}
     /\ UNCHANGED <<got, heard, accepted>>

\* _enqueue_frame.  A full queue makes room at the end away from the newcomer.
Overflow(front) ==
  IF Len(queue) < QueueMax THEN {}
  ELSE IF front THEN {queue[Len(queue)]} ELSE {Head(queue)}

\* Mutant: the bound is tested with > instead of >=.
EnqueuedPastBound(f, front) ==
  IF front THEN <<f>> \o queue
  ELSE Append(IF Len(queue) <= QueueMax THEN queue ELSE Tail(queue), f)

Enqueued(f, front) ==
  IF front
    THEN <<f>> \o (IF Len(queue) < QueueMax THEN queue ELSE SubSeq(queue, 1, Len(queue) - 1))
    ELSE Append(IF Len(queue) < QueueMax THEN queue ELSE Tail(queue), f)

-----------------------------------------------------------------------------
(***************************************************************************)
(* send_frame                                                              *)
(***************************************************************************)
Calls(f) == call[f] = "idle" /\ \A g \in Frames : g < f => call[g] # "idle"

Barred(f) == f \in Malformed \/ ChatOf[f] \in rejected \/ stopping \/ state = "closed"

\* Mutant: READY alone sends directly, past the frames still queued.
DirectWhenReady == state = "ready" /\ ws # 0 /\ flushing = NoFrame

\* READY with an idle, empty queue: the frame goes straight to the socket.
Direct == state = "ready" /\ ws # 0 /\ queue = <<>> /\ flushing = NoFrame

SendRefused(f) ==
  /\ Calls(f)
  /\ Barred(f) \/ (~Direct /\ f \notin Patient)
  /\ call' = [call EXCEPT ![f] = "false"]
  /\ UNCHANGED <<connection, queue, flushing, on, pending, rejected, server, history>>

SendDirect(f) ==
  /\ Calls(f) /\ ~Barred(f) /\ Direct
  /\ call' = [call EXCEPT ![f] = "writing"]
  /\ on' = [on EXCEPT ![f] = ws]
  /\ Handed(f)
  /\ UNCHANGED <<connection, queue, flushing, pending, rejected, history>>

SendQueued(f) ==
  /\ Calls(f) /\ ~Barred(f) /\ ~Direct
  /\ f \in Patient
  /\ queue' = Enqueued(f, FALSE)
  /\ call' = [Answer(Overflow(FALSE), "error")
                EXCEPT ![f] = IF f \in Acked THEN "waiting" ELSE "true"]
  /\ UNCHANGED <<connection, flushing, on, pending, rejected, server, history>>

\* The direct send returns; only now is the ack registered and its timer set.
Written(f) ==
  /\ call[f] = "writing"
  /\ on[f] \notin broken
  /\ call' = [call EXCEPT ![f] = IF f \in Acked THEN "waiting" ELSE "true"]
  /\ pending' = IF f \in Acked THEN pending \cup {f} ELSE pending
  /\ on' = [on EXCEPT ![f] = 0]
  /\ UNCHANGED <<connection, queue, flushing, rejected, server, history>>

\* The direct send raises: the caller gets the exception (or False), and a
\* patient frame goes to the front of the queue all the same.
WriteFails(f) ==
  /\ call[f] = "writing"
  /\ on[f] \in broken
  /\ IF f \in Patient
       THEN /\ queue' = Enqueued(f, TRUE)
            /\ call' = [Answer(Overflow(TRUE), "error") EXCEPT ![f] = "error"]
       ELSE /\ call' = [call EXCEPT ![f] = "false"]
            /\ UNCHANGED queue
  /\ failed' = failed \cup {f}
  /\ on' = [on EXCEPT ![f] = 0]
  /\ UNCHANGED <<connection, flushing, pending, rejected, server, lost, displaced>>

\* The caller is cancelled, on either loop.  Its frame stays where it is.
CallerCancelled(f) ==
  /\ Unanswered(f)
  /\ call' = [call EXCEPT ![f] = "cancelled"]
  /\ on' = [on EXCEPT ![f] = 0]
  /\ UNCHANGED <<connection, queue, flushing, pending, rejected, server, history>>

-----------------------------------------------------------------------------
(***************************************************************************)
(* _flush_send_queue.  Between two sends it runs without a pause: it drops *)
(* the n frames at the head whose conversation is rejected, then begins to *)
(* send the next one, or ends.                                             *)
(***************************************************************************)
\* Mutant: the flush drops a rejected frame and forgets its waiter.
FlushFromSilently(q, n) ==
  /\ \A i \in 1..n : ChatOf[q[i]] \in rejected
  /\ queue' = SubSeq(q, n + 1, Len(q))
  /\ IF n < Len(q)
       THEN ChatOf[q[n + 1]] \notin rejected /\ flushing' = q[n + 1] /\ sup' = "flush"
            /\ Handed(q[n + 1])
       ELSE flushing' = NoFrame /\ sup' = "read" /\ UNCHANGED server
  /\ UNCHANGED call

FlushFrom(q, n) ==
  LET skipped == {q[i] : i \in 1..n} IN
  /\ \A f \in skipped : ChatOf[f] \in rejected
  /\ call' = Answer(skipped, "false")
  /\ queue' = SubSeq(q, n + 1, Len(q))
  /\ IF n < Len(q)
       THEN /\ ChatOf[q[n + 1]] \notin rejected
            /\ flushing' = q[n + 1]
            /\ sup' = "flush"
            /\ Handed(q[n + 1])
       ELSE /\ flushing' = NoFrame
            /\ sup' = "read"
            /\ UNCHANGED server

\* The receipts are recovered (see ReliableDelivery): the flush begins.
FlushStarts ==
  /\ sup = "recover"
  /\ \E n \in 0..Len(queue) : FlushFrom(queue, n)
  /\ UNCHANGED <<state, stopping, ws, opened, broken, on, pending, rejected, history>>

\* Mutant: the flush registers the ack and does not remove the frame.
FlushSentKeepsHead ==
  /\ sup = "flush" /\ ws \notin broken /\ queue # <<>>
  /\ pending' = IF flushing \in Acked THEN pending \cup {flushing} ELSE pending
  /\ \E n \in 0..Len(queue) : FlushFrom(queue, n)
  /\ UNCHANGED <<state, stopping, ws, opened, broken, on, rejected, history>>

\* The send returns, and the flush removes the head of the queue as it is now.
FlushSent ==
  /\ sup = "flush"
  /\ ws \notin broken
  /\ queue # <<>>
  /\ pending' = IF flushing \in Acked THEN pending \cup {flushing} ELSE pending
  /\ LET wrong == Head(queue) # flushing
     IN  /\ lost' = IF wrong THEN lost \cup {Head(queue)} ELSE lost
         /\ displaced' = IF wrong THEN displaced \cup {flushing} ELSE displaced
  /\ \E n \in 0..(Len(queue) - 1) : FlushFrom(Tail(queue), n)
  /\ UNCHANGED <<state, stopping, ws, opened, broken, on, rejected, failed>>

\* The send raises, or stop() emptied the queue meanwhile and the removal does.
FlushFails ==
  /\ sup = "flush"
  /\ \/ /\ ws \in broken
        /\ failed' = failed \cup {flushing}
        /\ UNCHANGED pending
     \/ /\ ws \notin broken /\ queue = <<>>
        /\ pending' = IF flushing \in Acked THEN pending \cup {flushing} ELSE pending
        /\ UNCHANGED failed
  /\ flushing' = NoFrame
  /\ sup' = "torn"
  /\ UNCHANGED <<state, stopping, ws, opened, broken, queue, call, on, rejected, server,
                 lost, displaced>>

-----------------------------------------------------------------------------
(***************************************************************************)
(* Acknowledgements                                                        *)
(***************************************************************************)
\* Mutant: the ack's message id is not compared.
ReplyUnchecked(f) ==
  /\ f \in heard /\ ws # 0 /\ ws \notin broken
  /\ heard' = heard \ {f}
  /\ \E kind \in {"ack", "mismatch", "error"} :
       /\ accepted' = IF kind = "ack" THEN accepted \cup {f} ELSE accepted
       /\ IF state = "ready" /\ f \in pending
            THEN pending' = pending \ {f} /\ call' = Answer({f}, IF kind = "error" THEN "error" ELSE "true")
            ELSE UNCHANGED <<pending, call>>
  /\ UNCHANGED <<connection, queue, flushing, on, rejected, deaf, got, history>>

\* message.ack and message.error.  An ack for another message id, like an
\* error, raises in the caller.  Outside READY the reader ignores both, and one
\* whose trace id is not registered is logged as unmatched.
Reply(f) ==
  /\ f \in heard
  /\ ws # 0 /\ ws \notin broken
  /\ heard' = heard \ {f}
  /\ \E kind \in {"ack", "mismatch", "error"} :
       /\ accepted' = IF kind = "ack" THEN accepted \cup {f} ELSE accepted
       /\ IF state = "ready" /\ f \in pending
            THEN /\ pending' = pending \ {f}
                 /\ call' = Answer({f}, IF kind = "ack" THEN "true" ELSE "error")
            ELSE UNCHANGED <<pending, call>>
  /\ UNCHANGED <<connection, queue, flushing, on, rejected, deaf, got, history>>

\* The ack timer fires; the connection stays up.
AckTimesOut(f) ==
  /\ f \in pending
  /\ pending' = pending \ {f}
  /\ call' = Answer({f}, "error")
  /\ UNCHANGED <<connection, queue, flushing, on, rejected, server, history>>

\* The adapter's list of rejected conversations: entries come with a
\* message.error and leave when their time is over.
ChatGate(c) ==
  /\ rejected' = IF c \in rejected THEN rejected \ {c} ELSE rejected \cup {c}
  /\ UNCHANGED <<connection, queue, flushing, call, on, pending, server, history>>

-----------------------------------------------------------------------------
(***************************************************************************)
(* The connection's life, as far as the queue sees it                      *)
(***************************************************************************)
Connect ==
  /\ sup = "wait" /\ ~stopping /\ state = "offline"
  /\ opened < MaxSockets
  /\ opened' = opened + 1
  /\ ws' = opened + 1
  /\ sup' = "hello"
  /\ UNCHANGED <<state, stopping, broken, queue, flushing, call, on, pending, rejected,
                 server, history>>

\* hello-ok: the reader sets READY and the supervisor goes on to the recovery.
HelloOk ==
  /\ sup = "hello" /\ state = "offline"
  /\ ws \notin broken
  /\ state' = "ready"
  /\ sup' = "recover"
  /\ UNCHANGED <<stopping, ws, opened, broken, queue, flushing, call, on, pending, rejected,
                 server, history>>

\* A socket breaks: the current one while another attempt is left, an old one
\* (whose close timed out) at any time.
Break(s) ==
  /\ s \in 1..opened
  /\ s \notin broken
  /\ s = ws => opened < MaxSockets \/ stopping
  /\ broken' = broken \cup {s}
  /\ UNCHANGED <<state, stopping, sup, ws, opened, queue, flushing, call, on, pending,
                 rejected, server, history>>

\* The reader ends, the flush raises or the handshake times out: the finally
\* block of _run_one_connection.  Closing a half-dead socket may time out too.
Teardown ==
  /\ sup \in {"hello", "recover", "read", "torn"}
  /\ \/ ws \in broken
     \/ sup = "torn"
     \/ sup = "hello" /\ (opened < MaxSockets \/ state # "offline")
  /\ broken' \in {broken, broken \cup {ws}}
  /\ ws' = 0
  /\ heard' = {}
  /\ sup' = "wait"
  /\ IF stopping \/ state = "away"
       THEN UNCHANGED <<state, pending, call>>
       ELSE /\ state' = "offline"
            /\ pending' = {}
            /\ call' = Answer(pending, "error")
  /\ UNCHANGED <<stopping, opened, queue, flushing, on, rejected, deaf, got, accepted, history>>

\* AUTH_FAILED, SUSPENDED or SUPERSEDED by a latch: no traffic until an operator acts.
Away ==
  /\ state \in {"offline", "ready"} /\ ~stopping
  /\ opened < MaxSockets
  /\ state' = "away"
  /\ UNCHANGED <<stopping, sup, ws, opened, broken, queue, flushing, call, on, pending,
                 rejected, server, history>>

AwayCloses ==
  /\ state = "away"
  /\ ws # 0 /\ ws \notin broken
  /\ broken' = broken \cup {ws}
  /\ UNCHANGED <<state, stopping, sup, ws, opened, queue, flushing, call, on, pending,
                 rejected, server, history>>

Resume ==
  /\ state = "away" /\ sup = "wait" /\ ~stopping
  /\ state' = "offline"
  /\ UNCHANGED <<stopping, sup, ws, opened, broken, queue, flushing, call, on, pending,
                 rejected, server, history>>

\* reconnect_max_retries is used up: the supervisor ends in CLOSED.
GiveUp ==
  /\ GivesUp
  /\ sup = "wait" /\ state = "offline" /\ ~stopping
  /\ opened > 0
  /\ state' = "closed"
  /\ sup' = "done"
  /\ UNCHANGED <<stopping, ws, opened, broken, queue, flushing, call, on, pending, rejected,
                 server, history>>

\* _reject_queued_ack_waiters(clear_queue=True): the frames nobody awaits stay,
\* in their order (keep numbers their places).
DropAwaited ==
  \E n \in 0..Len(queue) : \E keep \in [1..n -> 1..Len(queue)] :
    /\ \A i, j \in 1..n : i < j => keep[i] < keep[j]
    /\ {keep[i] : i \in 1..n} = {i \in 1..Len(queue) : queue[i] \notin Acked}
    /\ queue' = [i \in 1..n |-> queue[keep[i]]]

\* Mutant: stop() rejects the registered acks only.
StopForgetsQueue ==
  /\ ~stopping
  /\ stopping' = TRUE /\ state' = "closed"
  /\ pending' = {} /\ call' = Answer(pending, "error")
  /\ DropAwaited
  /\ UNCHANGED <<sup, ws, opened, broken, flushing, on, rejected, server, history>>

\* stop() until its first wait: waiters are rejected, and queued frames that
\* somebody waits for are dropped.
StopBegins ==
  /\ ~stopping
  /\ stopping' = TRUE
  /\ state' = "closed"
  /\ pending' = {}
  /\ call' = Answer(pending \cup InSeq(queue), "error")
  /\ DropAwaited
  /\ UNCHANGED <<sup, ws, opened, broken, flushing, on, rejected, server, history>>

\* The rest of stop(): the socket is closed and the supervisor cancelled.
StopEnds ==
  /\ stopping /\ sup # "done"
  /\ sup' = "done"
  /\ ws' = 0
  /\ heard' = {}
  /\ flushing' = NoFrame
  /\ broken' \in {broken, broken \cup ({ws} \ {0})}
  /\ UNCHANGED <<state, stopping, opened, queue, call, on, pending, rejected,
                 deaf, got, accepted, history>>

-----------------------------------------------------------------------------
Init ==
  /\ state = "offline" /\ stopping = FALSE /\ sup = "wait"
  /\ ws = 0 /\ opened = 0 /\ broken = {}
  /\ queue = <<>> /\ flushing = NoFrame
  /\ call = [f \in Frames |-> "idle"]
  /\ on = [f \in Frames |-> 0]
  /\ pending = {} /\ rejected = {}
  /\ deaf = {} /\ got = <<>> /\ heard = {} /\ accepted = {}
  /\ failed = {} /\ lost = {} /\ displaced = {}

Sending(f) == SendRefused(f) \/ SendDirect(f) \/ SendQueued(f)
Returning(f) == Written(f) \/ WriteFails(f)
Flush == FlushStarts \/ FlushSent \/ FlushFails
Lifecycle == Connect \/ HelloOk \/ Teardown \/ Away \/ AwayCloses \/ Resume \/ GiveUp
             \/ StopBegins \/ StopEnds \/ \E s \in Sockets : Break(s)

Next ==
  \/ \E f \in Frames : Sending(f) \/ Returning(f) \/ CallerCancelled(f) \/ Reply(f) \/ AckTimesOut(f)
  \/ \E c \in Chats : ChatGate(c)
  \/ Flush
  \/ Lifecycle

Spec == Init /\ [][Next]_vars

\* What the event loop and the library give: a connection attempt, a flush, a
\* teardown and a timer go on; a send returns or raises (an old half-dead
\* socket breaks once TCP gives it up).  Nothing is assumed of the server, of
\* callers or of the operator.
FairSpec ==
  /\ Spec
  /\ WF_vars(Connect) /\ WF_vars(HelloOk) /\ WF_vars(Teardown) /\ WF_vars(AwayCloses)
  /\ WF_vars(Flush) /\ WF_vars(StopEnds)
  /\ \A f \in Frames : WF_vars(Returning(f)) /\ WF_vars(AckTimesOut(f))

-----------------------------------------------------------------------------
(***************************************************************************)
(* Properties                                                              *)
(***************************************************************************)
\* Every variable has its type, the queue keeps its bound, the flush holds a
\* frame exactly while it sends, a connection attempt has a socket, and only
\* acked calls are parked.
TypeOK ==
  /\ state \in {"offline", "ready", "away", "closed"}
  /\ stopping \in BOOLEAN
  /\ sup \in {"wait", "hello", "recover", "flush", "read", "torn", "done"}
  /\ ws \in 0..opened /\ opened \in 0..MaxSockets
  /\ broken \subseteq Sockets /\ deaf \subseteq Sockets
  /\ queue \in Seq(Frames) /\ Len(queue) <= QueueMax
  /\ flushing \in Frames \cup {NoFrame}
  /\ call \in [Frames -> {"idle", "writing", "waiting"} \cup Answers]
  /\ on \in [Frames -> 0..MaxSockets]
  /\ pending \subseteq Acked
  /\ rejected \subseteq Chats
  /\ got \in Seq(Frames)
  /\ heard \subseteq Frames /\ accepted \subseteq Frames
  /\ failed \subseteq Frames /\ lost \subseteq Frames /\ displaced \subseteq Frames
  /\ (sup = "flush") <=> (flushing # NoFrame)
  /\ (ws # 0) <=> sup \in {"hello", "recover", "flush", "read", "torn"}
  /\ \A f \in Frames : call[f] = "waiting" => f \in Acked

\* A caller parked on its ack future has somebody to wake it: a registered ack
\* with its timer, or a place in the queue of a connection that is not being
\* stopped.  The only exception is a frame the flush threw away unsent, when
\* the head of the queue changed under its send.
WaitersAreOwned ==
  \A f \in Frames : call[f] = "waiting" =>
    f \in pending \cup lost \cup (IF stopping THEN {} ELSE InSeq(queue))

\* True is answered to an acked call only for a frame the server acknowledged.
TrueMeansAccepted ==
  \A f \in Acked : call[f] = "true" => f \in accepted

\* False means the server never read the frame, unless a send of that frame
\* raised after its bytes had left or the flush sent it without removing it.
FalseMeansUnsent ==
  \A f \in Frames : call[f] = "false" /\ f \in InSeq(got) => f \in failed \cup displaced

\* Frames reach the server in call order across direct sends, the queue and
\* reconnects; only a frame whose send raised comes late, and a second copy of
\* a frame does not count.
CallOrder ==
  \A i, j \in 1..Len(got) : i < j /\ got[j] < got[i] =>
    got[j] \in failed \/ \E k \in 1..(i - 1) : got[k] = got[j]

\* The server reads a frame twice only when a send of it raised, or when the
\* flush sent it without removing it.
OneCopy ==
  \A i, j \in 1..Len(got) : i < j /\ got[i] = got[j] => got[i] \in failed \cup displaced

\* Every caller is owned by somebody, an answer tells what happened to the
\* frame, and no frame is sent twice or before an earlier one (connection.py,
\* send_frame, the queue and its flush).
QueueSafe ==
  /\ TypeOK /\ WaitersAreOwned /\ TrueMeansAccepted
  /\ FalseMeansUnsent /\ CallOrder /\ OneCopy

\* The queue of a healthy READY connection, after its flush: nothing empties
\* it before the next reconnect, and every later frame joins it.
Stranded ==
  /\ state = "ready" /\ sup = "read" /\ ws \notin broken
  /\ queue # <<>>

\* Every call of send_frame returns, unless its frame was lost by the flush,
\* the connection waits for an operator, or the queue is stranded because a
\* send of an earlier socket failed after the flush of this one was over.
NobodyForgotten ==
  \A f \in Frames : Unanswered(f) => f \in lost \/ state = "away" \/ Stranded
AnsweredOrStranded == []<>NobodyForgotten

\* What the flush promises its callers: whoever waits for a frame that leaves
\* the queue is woken "instead of hanging forever".
PoppedWaiterIsWoken ==
  \A f \in lost : call[f] # "waiting"

==============================================================================
