--------------------------- MODULE SendQueueProofs ---------------------------
(***************************************************************************)
(* Proofs about the outbound queue for every set of calls, queue bound and *)
(* number of sockets: its types and its bound, that every parked caller    *)
(* has somebody to wake it, that True is the server's word and False means *)
(* unsent, and that the server reads each frame once, in call order, but   *)
(* for the exceptions the properties name.                                 *)
(***************************************************************************)
EXTENDS SendQueue, SequenceTheorems, TLAPS

USE FramesAssumption, BoundsAssumption
USE DEF connection, server, history, vars

Callers == [Frames -> {"idle", "writing", "waiting"} \cup Answers]

-----------------------------------------------------------------------------
(* The operators the actions are built from. *)

\* Settling futures only moves parked calls to an answer.
LEMMA AnswerMoves ==
  ASSUME NEW F, NEW a \in Answers, call \in Callers
  PROVE  /\ Answer(F, a) \in Callers
         /\ \A f \in Frames :
              Answer(F, a)[f] = IF f \in F /\ call[f] = "waiting" THEN a ELSE call[f]
         /\ \A f \in Frames : Answer(F, a)[f] = "waiting" => call[f] = "waiting" /\ f \notin F
         /\ \A f \in Frames : Answer(F, a)[f] = "true" => call[f] = "true" \/ a = "true"
BY DEF Answer, Callers, Answers

\* A queue without its first n elements.
LEMMA Suffix ==
  ASSUME NEW S, NEW q \in Seq(S), NEW n \in 0..Len(q)
  PROVE  /\ SubSeq(q, n + 1, Len(q)) \in Seq(S)
         /\ Len(SubSeq(q, n + 1, Len(q))) = Len(q) - n
         /\ InSeq(q) = {q[i] : i \in 1..n} \cup InSeq(SubSeq(q, n + 1, Len(q)))
<1> DEFINE m == n + 1
           t == SubSeq(q, m, Len(q))
<1>1. n \in Nat /\ Len(q) \in Nat /\ m \in Int /\ m = n + 1 /\ m >= 1
  OBVIOUS
<1>2. \A i \in 1..Len(q) : q[i] \in S
  OBVIOUS
<1>3. /\ t \in Seq(S)
      /\ Len(t) = IF m <= Len(q) THEN Len(q) - m + 1 ELSE 0
      /\ \A i \in 1..(Len(q) - m + 1) : t[i] = q[m + i - 1]
  <2>1. \A i \in m..Len(q) : q[i] \in S
    BY <1>1, <1>2
  <2> HIDE DEF m
  <2> QED
    BY <1>1, <2>1, SubSeqProperties
<1>4. Len(t) = Len(q) - n
  BY <1>1, <1>3
<1>5. \A i \in 1..(Len(q) - n) : t[i] = q[n + i]
  <2>1. ASSUME NEW i \in 1..(Len(q) - n) PROVE t[i] = q[n + i]
    <3>1. i \in 1..(Len(q) - m + 1) /\ m + i - 1 = n + i
      BY <1>1
    <3> HIDE DEF m, t
    <3> QED
      BY <1>3, <3>1
  <2> QED
    BY <2>1
<1>6. InSeq(q) = {q[i] : i \in 1..n} \cup InSeq(t)
  <2>1. ASSUME NEW i \in 1..Len(q), i \notin 1..n PROVE q[i] \in InSeq(t)
    <3>1. i - n \in 1..(Len(q) - n) /\ n + (i - n) = i
      BY <1>1, <2>1
    <3>2. t[i - n] = q[i]
      BY <1>5, <3>1
    <3> HIDE DEF t
    <3> QED
      BY <1>4, <3>1, <3>2 DEF InSeq
  <2>2. ASSUME NEW i \in 1..Len(t) PROVE t[i] \in InSeq(q)
    <3>1. i \in 1..(Len(q) - n) /\ n + i \in 1..Len(q)
      BY <1>1, <1>4, <2>2
    <3>2. t[i] = q[n + i]
      BY <1>5, <3>1
    <3> HIDE DEF t
    <3> QED
      BY <3>1, <3>2 DEF InSeq
  <2>3. \A i \in 1..n : q[i] \in InSeq(q)
    BY <1>1 DEF InSeq
  <2> HIDE DEF t
  <2> QED
    BY <2>1, <2>2, <2>3 DEF InSeq
<1> QED
  BY <1>3, <1>4, <1>6

\* A queue that gains an element at one end, and one that loses its last.
LEMMA GrowBack ==
  \A S : \A q \in Seq(S) : \A x \in S : InSeq(Append(q, x)) = InSeq(q) \cup {x}
<1> SUFFICES ASSUME NEW S, NEW q \in Seq(S), NEW x \in S
             PROVE  InSeq(Append(q, x)) = InSeq(q) \cup {x}
  OBVIOUS
<1>1. /\ Len(Append(q, x)) = Len(q) + 1
      /\ \A i \in 1..Len(q) : Append(q, x)[i] = q[i]
      /\ Append(q, x)[Len(q) + 1] = x
  BY AppendProperties
<1>2. Len(q) \in Nat /\ 1..(Len(q) + 1) = 1..Len(q) \cup {Len(q) + 1}
  OBVIOUS
<1> QED
  BY <1>1, <1>2 DEF InSeq

LEMMA GrowFront ==
  ASSUME NEW S, NEW q \in Seq(S), NEW x \in S
  PROVE  /\ <<x>> \o q \in Seq(S) /\ Len(<<x>> \o q) = Len(q) + 1
         /\ InSeq(<<x>> \o q) = InSeq(q) \cup {x}
<1> DEFINE r == <<x>> \o q
<1>3. /\ <<x>> \in Seq(S) /\ Len(<<x>>) = 1 /\ <<x>>[1] = x
  OBVIOUS
<1>4. /\ r \in Seq(S) /\ Len(r) = Len(q) + 1
      /\ \A i \in 1..Len(r) : r[i] = IF i <= 1 THEN <<x>>[i] ELSE q[i - 1]
  <2>1. /\ r \in Seq(S) /\ Len(r) = 1 + Len(q)
        /\ \A i \in 1..(1 + Len(q)) : r[i] = IF i <= 1 THEN <<x>>[i] ELSE q[i - 1]
    BY <1>3, ConcatProperties
  <2> QED
    BY <2>1
<1>5. InSeq(r) = InSeq(q) \cup {x}
  <2>1. Len(q) \in Nat
    OBVIOUS
  <2>2. ASSUME NEW i \in 1..Len(r) PROVE r[i] \in InSeq(q) \cup {x}
    <3>1. CASE i = 1
      BY <1>3, <1>4, <3>1
    <3>2. CASE i # 1
      <4>1. i - 1 \in 1..Len(q) /\ ~(i <= 1)
        BY <1>4, <2>1, <3>2
      <4>2. r[i] = q[i - 1]
        BY <1>4, <4>1
      <4> QED
        BY <4>1, <4>2 DEF InSeq
    <3> QED
      BY <3>1, <3>2
  <2>3. ASSUME NEW i \in 1..Len(q) PROVE q[i] \in InSeq(r)
    <3>1. i + 1 \in 1..Len(r) /\ ~(i + 1 <= 1) /\ (i + 1) - 1 = i
      BY <1>4, <2>1
    <3>2. r[i + 1] = q[i]
      BY <1>4, <3>1
    <3> HIDE DEF r
    <3> QED
      BY <3>1, <3>2 DEF InSeq
  <2>4. x \in InSeq(r)
    <3>1. 1 \in 1..Len(r) /\ r[1] = x
      BY <1>3, <1>4, <2>1
    <3> HIDE DEF r
    <3> QED
      BY <3>1 DEF InSeq
  <2> HIDE DEF r
  <2> QED
    BY <2>2, <2>3, <2>4 DEF InSeq
<1> QED
  BY <1>4, <1>5

LEMMA ButLast ==
  ASSUME NEW S, NEW q \in Seq(S), Len(q) > 0
  PROVE  /\ SubSeq(q, 1, Len(q) - 1) \in Seq(S)
         /\ Len(SubSeq(q, 1, Len(q) - 1)) = Len(q) - 1
         /\ InSeq(q) = InSeq(SubSeq(q, 1, Len(q) - 1)) \cup {q[Len(q)]}
<1> DEFINE m == Len(q) - 1
           t == SubSeq(q, 1, m)
<1>1. m \in Nat /\ Len(q) \in Nat /\ m + 1 = Len(q) /\ 1..Len(q) = 1..m \cup {Len(q)}
  OBVIOUS
<1>2. t \in Seq(S) /\ Len(t) = m /\ \A i \in 1..m : t[i] = q[i]
  <2>1. \A i \in 1..m : q[i] \in S
    BY <1>1
  <2> HIDE DEF m
  <2> QED
    BY <1>1, <2>1, SubSeqProperties
<1> HIDE DEF m, t
<1>3. InSeq(q) = InSeq(t) \cup {q[Len(q)]}
  BY <1>1, <1>2 DEF InSeq
<1> QED
  BY <1>2, <1>3 DEF m, t

\* _enqueue_frame keeps the bound, adds the frame and drops only the overflow.
LEMMA EnqueueKeeps ==
  ASSUME NEW f \in Frames, NEW front \in BOOLEAN,
         queue \in Seq(Frames), Len(queue) <= QueueMax
  PROVE  /\ Enqueued(f, front) \in Seq(Frames) /\ Len(Enqueued(f, front)) <= QueueMax
         /\ f \in InSeq(Enqueued(f, front))
         /\ InSeq(queue) \subseteq InSeq(Enqueued(f, front)) \cup Overflow(front)
<1>1. Len(queue) \in Nat /\ QueueMax \in Nat /\ QueueMax >= 1
  OBVIOUS
<1>2. CASE Len(queue) < QueueMax
  <2>1. Enqueued(f, front) = IF front THEN <<f>> \o queue ELSE Append(queue, f)
    BY <1>2 DEF Enqueued
  <2>2. /\ <<f>> \o queue \in Seq(Frames) /\ Len(<<f>> \o queue) = Len(queue) + 1
        /\ InSeq(<<f>> \o queue) = InSeq(queue) \cup {f}
    BY GrowFront
  <2>3. Append(queue, f) \in Seq(Frames) /\ Len(Append(queue, f)) = Len(queue) + 1
    BY AppendProperties
  <2>4. InSeq(Append(queue, f)) = InSeq(queue) \cup {f}
    BY GrowBack, Zenon
  <2>5. InSeq(Enqueued(f, front)) = InSeq(queue) \cup {f}
    BY <2>1, <2>2, <2>4
  <2>6. Enqueued(f, front) \in Seq(Frames) /\ Len(Enqueued(f, front)) = Len(queue) + 1
    BY <2>1, <2>2, <2>3
  <2> QED
    BY <1>1, <1>2, <2>5, <2>6
<1>3. CASE ~(Len(queue) < QueueMax)
  <2>1. Len(queue) = QueueMax /\ Len(queue) > 0 /\ queue # <<>>
    BY <1>1, <1>3
  <2>2. CASE front
    <3> DEFINE t == SubSeq(queue, 1, Len(queue) - 1)
    <3>1. /\ t \in Seq(Frames) /\ Len(t) = Len(queue) - 1
          /\ InSeq(queue) = InSeq(t) \cup {queue[Len(queue)]}
      BY <2>1, ButLast
    <3>2. Enqueued(f, front) = <<f>> \o t /\ Overflow(front) = {queue[Len(queue)]}
      BY <1>3, <2>2 DEF Enqueued, Overflow
    <3> HIDE DEF t
    <3>3. /\ <<f>> \o t \in Seq(Frames) /\ Len(<<f>> \o t) = Len(t) + 1
          /\ InSeq(<<f>> \o t) = InSeq(t) \cup {f}
      BY <3>1, GrowFront
    <3>4. Len(t) + 1 = Len(queue)
      BY <1>1, <3>1
    <3>5. Len(Enqueued(f, front)) <= QueueMax /\ Enqueued(f, front) \in Seq(Frames)
      BY <2>1, <1>1, <3>2, <3>3, <3>4
    <3>6. InSeq(Enqueued(f, front)) = InSeq(t) \cup {f}
      BY <3>2, <3>3
    <3>7. InSeq(queue) = InSeq(t) \cup Overflow(front)
      BY <3>1, <3>2
    <3> QED
      BY <3>5, <3>6, <3>7
  <2>3. CASE ~front
    <3>1. /\ Tail(queue) \in Seq(Frames) /\ Len(Tail(queue)) = Len(queue) - 1
          /\ InSeq(queue) = InSeq(Tail(queue)) \cup {Head(queue)}
      <4>1. /\ Tail(queue) = SubSeq(queue, 1 + 1, Len(queue)) /\ Head(queue) = queue[1]
        BY <2>1, TailIsSubSeq, HeadTailProperties
      <4>2. 1 \in 0..Len(queue) /\ {queue[i] : i \in 1..1} = {queue[1]}
        BY <2>1
      <4>3. /\ SubSeq(queue, 1 + 1, Len(queue)) \in Seq(Frames)
            /\ Len(SubSeq(queue, 1 + 1, Len(queue))) = Len(queue) - 1
            /\ InSeq(queue) = {queue[i] : i \in 1..1} \cup InSeq(SubSeq(queue, 1 + 1, Len(queue)))
        BY <4>2, Suffix
      <4> QED
        BY <4>1, <4>2, <4>3
    <3>2. Enqueued(f, front) = Append(Tail(queue), f) /\ Overflow(front) = {Head(queue)}
      BY <1>3, <2>3 DEF Enqueued, Overflow
    <3> DEFINE t == Tail(queue)
    <3> HIDE DEF t
    <3>3. /\ Append(t, f) \in Seq(Frames) /\ Len(Append(t, f)) = Len(t) + 1
          /\ InSeq(Append(t, f)) = InSeq(t) \cup {f}
      <4>1. t \in Seq(Frames)
        BY <3>1 DEF t
      <4>2. InSeq(Append(t, f)) = InSeq(t) \cup {f}
        BY <4>1, GrowBack, Zenon
      <4> QED
        BY <4>1, <4>2
    <3>4. Len(t) + 1 = Len(queue)
      BY <1>1, <3>1 DEF t
    <3>5. Len(Enqueued(f, front)) <= QueueMax /\ Enqueued(f, front) \in Seq(Frames)
      BY <1>1, <2>1, <3>2, <3>3, <3>4 DEF t
    <3>6. InSeq(Enqueued(f, front)) = InSeq(t) \cup {f}
      BY <3>2, <3>3 DEF t
    <3>7. InSeq(queue) = InSeq(t) \cup Overflow(front)
      BY <3>1, <3>2 DEF t
    <3> QED
      BY <3>5, <3>6, <3>7
  <2> QED
    BY <2>2, <2>3
<1> QED
  BY <1>2, <1>3

\* The frames the flush drops and goes on from: nothing else leaves the queue.
LEMMA FlushMoves ==
  ASSUME NEW q \in Seq(Frames), NEW n \in 0..Len(q), FlushFrom(q, n), call \in Callers,
         got \in Seq(Frames), deaf \subseteq Sockets, ws \in Sockets,
         heard \subseteq Frames, accepted \subseteq Frames
  PROVE  /\ queue' \in Seq(Frames) /\ Len(queue') <= Len(q)
         /\ call' \in Callers
         /\ flushing' \in Frames \cup {NoFrame}
         /\ sup' \in {"flush", "read"} /\ ((sup' = "flush") <=> (flushing' # NoFrame))
         /\ got' \in Seq(Frames) /\ deaf' \subseteq Sockets
         /\ heard' \subseteq Frames /\ accepted' = accepted
         /\ \A f \in Frames : call'[f] = "waiting" =>
              call[f] = "waiting" /\ (f \in InSeq(q) => f \in InSeq(queue'))
         /\ \A f \in Frames : call'[f] = "true" => call[f] = "true"
<1> DEFINE skipped == {q[i] : i \in 1..n}
<1>1. n \in Nat /\ Len(q) \in Nat /\ n <= Len(q)
  OBVIOUS
<1>2. /\ queue' = SubSeq(q, n + 1, Len(q))
      /\ call' = Answer(skipped, "false")
  BY DEF FlushFrom
<1>3. /\ queue' \in Seq(Frames) /\ Len(queue') = Len(q) - n
      /\ InSeq(q) = skipped \cup InSeq(queue')
  BY <1>2, Suffix
<1>4. n < Len(q) => q[n + 1] \in Frames
  BY <1>1
<1>5. /\ flushing' \in Frames \cup {NoFrame}
      /\ sup' \in {"flush", "read"} /\ ((sup' = "flush") <=> (flushing' # NoFrame))
  BY <1>4 DEF FlushFrom
<1>6. /\ got' \in Seq(Frames) /\ deaf' \subseteq Sockets
      /\ heard' \subseteq Frames /\ accepted' = accepted
  <2>1. CASE n < Len(q)
    <3>1. Handed(q[n + 1]) /\ q[n + 1] \in Frames
      BY <1>4, <2>1 DEF FlushFrom
    <3>2. Append(got, q[n + 1]) \in Seq(Frames) /\ heard \cup ({q[n + 1]} \cap Acked) \subseteq Frames
      BY <3>1, AppendProperties
    <3>3. \/ /\ got' = Append(got, q[n + 1]) /\ heard' = heard \cup ({q[n + 1]} \cap Acked)
             /\ deaf' = deaf /\ accepted' = accepted
          \/ /\ deaf' = deaf \cup {ws} /\ got' = got /\ heard' = heard /\ accepted' = accepted
      BY <3>1 DEF Handed
    <3> QED
      BY <3>2, <3>3
  <2>2. CASE ~(n < Len(q))
    BY <2>2 DEF FlushFrom
  <2> QED
    BY <2>1, <2>2
<1>7. /\ call' \in Callers
      /\ \A f \in Frames : call'[f] = "waiting" => call[f] = "waiting" /\ f \notin skipped
      /\ \A f \in Frames : call'[f] = "true" => call[f] = "true"
  <2> HIDE DEF skipped
  <2>1. "false" \in Answers /\ "false" # "true"
    BY DEF Answers
  <2> QED
    BY <1>2, <2>1, AnswerMoves
<1> HIDE DEF skipped
<1> QED
  BY <1>1, <1>3, <1>5, <1>6, <1>7

-----------------------------------------------------------------------------
(* Every action keeps the types, the owner of every waiter, and True. *)

Inv == TypeOK /\ WaitersAreOwned /\ TrueMeansAccepted

LEMMA TypeFacts ==
  ASSUME TypeOK
  PROVE  /\ call \in Callers
         /\ queue \in Seq(Frames) /\ Len(queue) <= QueueMax /\ Len(queue) \in Nat
         /\ ws \in 0..MaxSockets /\ (ws # 0 => ws \in Sockets)
BY DEF TypeOK, Callers, Sockets

LEMMA HandedType ==
  ASSUME NEW f \in Frames, Handed(f), got \in Seq(Frames), deaf \subseteq Sockets,
         ws \in Sockets, heard \subseteq Frames, accepted \subseteq Frames
  PROVE  /\ got' \in Seq(Frames) /\ deaf' \subseteq Sockets
         /\ heard' \subseteq Frames /\ accepted' = accepted
<1>1. Append(got, f) \in Seq(Frames) /\ heard \cup ({f} \cap Acked) \subseteq Frames
  BY AppendProperties
<1>2. \/ /\ got' = Append(got, f) /\ heard' = heard \cup ({f} \cap Acked)
         /\ deaf' = deaf /\ accepted' = accepted
      \/ /\ deaf' = deaf \cup {ws} /\ got' = got /\ heard' = heard /\ accepted' = accepted
  BY DEF Handed
<1> QED
  BY <1>1, <1>2

LEMMA SendingKeeps ==
  ASSUME Inv, NEW f \in Frames, Sending(f)
  PROVE  Inv'
<1>1. /\ call \in Callers /\ queue \in Seq(Frames) /\ Len(queue) <= QueueMax
      /\ (ws # 0 => ws \in Sockets)
  BY TypeFacts DEF Inv
<1>2. CASE SendRefused(f)
  <2>1. /\ call' = [call EXCEPT ![f] = "false"]
        /\ UNCHANGED <<connection, queue, flushing, on, pending, rejected, server, history>>
    BY <1>2 DEF SendRefused
  <2>2. TypeOK'
    BY <2>1 DEF Inv, TypeOK, Answers
  <2>3. WaitersAreOwned'
    BY <1>1, <2>1 DEF Inv, WaitersAreOwned, InSeq, Callers
  <2>4. TrueMeansAccepted'
    BY <1>1, <2>1 DEF Inv, TrueMeansAccepted, Callers
  <2> QED
    BY <2>2, <2>3, <2>4 DEF Inv
<1>3. CASE SendDirect(f)
  <2>1. /\ call' = [call EXCEPT ![f] = "writing"] /\ on' = [on EXCEPT ![f] = ws]
        /\ Handed(f) /\ ws # 0
        /\ UNCHANGED <<connection, queue, flushing, pending, rejected, history>>
    BY <1>3 DEF SendDirect, Direct
  <2>2. /\ got' \in Seq(Frames) /\ deaf' \subseteq Sockets
        /\ heard' \subseteq Frames /\ accepted' = accepted
    BY <1>1, <2>1, HandedType DEF Inv, TypeOK
  <2>3. TypeOK'
    <3>1. ws \in 0..MaxSockets
      BY TypeFacts DEF Inv
    <3>2. on' \in [Frames -> 0..MaxSockets]
      BY <2>1, <3>1 DEF Inv, TypeOK
    <3>3. call' \in [Frames -> {"idle", "writing", "waiting"} \cup Answers]
      BY <2>1 DEF Inv, TypeOK
    <3>4. \A g \in Frames : call'[g] = "waiting" => call[g] = "waiting"
      BY <1>1, <2>1 DEF Callers
    <3> QED
      BY <2>1, <2>2, <3>2, <3>3, <3>4 DEF Inv, TypeOK
  <2>4. WaitersAreOwned'
    BY <1>1, <2>1 DEF Inv, WaitersAreOwned, InSeq, Callers
  <2>5. TrueMeansAccepted'
    BY <1>1, <2>1, <2>2 DEF Inv, TrueMeansAccepted, Callers
  <2> QED
    BY <2>3, <2>4, <2>5 DEF Inv
<1>4. CASE SendQueued(f)
  <2> DEFINE over == Overflow(FALSE)
  <2>1. /\ ~stopping
        /\ queue' = Enqueued(f, FALSE)
        /\ call' = [Answer(over, "error") EXCEPT ![f] = IF f \in Acked THEN "waiting" ELSE "true"]
        /\ UNCHANGED <<connection, flushing, on, pending, rejected, server, history>>
    BY <1>4 DEF SendQueued, Barred
  <2>2. /\ queue' \in Seq(Frames) /\ Len(queue') <= QueueMax
        /\ f \in InSeq(queue') /\ InSeq(queue) \subseteq InSeq(queue') \cup over
    BY <1>1, <2>1, EnqueueKeeps
  <2> HIDE DEF over
  <2>3. /\ Answer(over, "error") \in Callers
        /\ \A g \in Frames : Answer(over, "error")[g] = "waiting" => call[g] = "waiting" /\ g \notin over
        /\ \A g \in Frames : Answer(over, "error")[g] = "true" => call[g] = "true"
    <3>1. "error" \in Answers /\ "error" # "true"
      BY DEF Answers
    <3> QED
      BY <1>1, <3>1, AnswerMoves
  <2>4. /\ call' \in Callers
        /\ \A g \in Frames : call'[g] = "waiting" =>
             (g = f /\ f \in Acked) \/ (call[g] = "waiting" /\ g \notin over)
        /\ \A g \in Frames : call'[g] = "true" => (g = f /\ f \notin Acked) \/ call[g] = "true"
    BY <2>1, <2>3 DEF Callers, Answers
  <2>5. TypeOK'
    BY <2>1, <2>2, <2>4 DEF Inv, TypeOK, Callers
  <2>6. WaitersAreOwned'
    BY <2>1, <2>2, <2>4 DEF Inv, WaitersAreOwned
  <2>7. TrueMeansAccepted'
    BY <2>1, <2>4 DEF Inv, TrueMeansAccepted
  <2> QED
    BY <2>5, <2>6, <2>7 DEF Inv
<1> QED
  BY <1>2, <1>3, <1>4 DEF Sending

LEMMA ReturningKeeps ==
  ASSUME Inv, NEW f \in Frames, Returning(f) \/ CallerCancelled(f)
  PROVE  Inv'
<1>1. /\ call \in Callers /\ queue \in Seq(Frames) /\ Len(queue) <= QueueMax
  BY TypeFacts DEF Inv
<1>on. [on EXCEPT ![f] = 0] \in [Frames -> 0..MaxSockets]
  BY DEF Inv, TypeOK
<1>2. CASE Written(f)
  <2>1. /\ call' = [call EXCEPT ![f] = IF f \in Acked THEN "waiting" ELSE "true"]
        /\ pending' = IF f \in Acked THEN pending \cup {f} ELSE pending
        /\ on' = [on EXCEPT ![f] = 0]
        /\ UNCHANGED <<connection, queue, flushing, rejected, server, history>>
    BY <1>2 DEF Written
  <2>2. /\ call' \in Callers
        /\ \A g \in Frames : call'[g] = "waiting" => (g = f /\ f \in Acked) \/ call[g] = "waiting"
        /\ \A g \in Frames : call'[g] = "true" => (g = f /\ f \notin Acked) \/ call[g] = "true"
    BY <1>1, <2>1 DEF Callers, Answers
  <2>3. TypeOK'
    BY <1>on, <2>1, <2>2 DEF Inv, TypeOK, Callers
  <2>4. WaitersAreOwned'
    BY <2>1, <2>2 DEF Inv, WaitersAreOwned
  <2>5. TrueMeansAccepted'
    BY <2>1, <2>2 DEF Inv, TrueMeansAccepted
  <2> QED
    BY <2>3, <2>4, <2>5 DEF Inv
<1>3. CASE WriteFails(f) /\ f \in Patient
  <2> DEFINE over == Overflow(TRUE)
  <2>1. /\ queue' = Enqueued(f, TRUE)
        /\ call' = [Answer(over, "error") EXCEPT ![f] = "error"]
        /\ failed' = failed \cup {f} /\ on' = [on EXCEPT ![f] = 0]
        /\ UNCHANGED <<connection, flushing, pending, rejected, server, lost, displaced>>
    BY <1>3 DEF WriteFails
  <2>2. /\ queue' \in Seq(Frames) /\ Len(queue') <= QueueMax
        /\ InSeq(queue) \subseteq InSeq(queue') \cup over
    BY <1>1, <2>1, EnqueueKeeps
  <2> HIDE DEF over
  <2>3. /\ Answer(over, "error") \in Callers
        /\ \A g \in Frames : Answer(over, "error")[g] = "waiting" => call[g] = "waiting" /\ g \notin over
        /\ \A g \in Frames : Answer(over, "error")[g] = "true" => call[g] = "true"
    <3>1. "error" \in Answers /\ "error" # "true"
      BY DEF Answers
    <3> QED
      BY <1>1, <3>1, AnswerMoves
  <2>4. /\ call' \in Callers
        /\ \A g \in Frames : call'[g] = "waiting" => call[g] = "waiting" /\ g \notin over
        /\ \A g \in Frames : call'[g] = "true" => call[g] = "true"
    BY <2>1, <2>3 DEF Callers, Answers
  <2>5. TypeOK'
    BY <1>on, <2>1, <2>2, <2>4 DEF Inv, TypeOK, Callers
  <2>6. WaitersAreOwned'
    BY <2>1, <2>2, <2>4 DEF Inv, WaitersAreOwned
  <2>7. TrueMeansAccepted'
    BY <2>1, <2>4 DEF Inv, TrueMeansAccepted
  <2> QED
    BY <2>5, <2>6, <2>7 DEF Inv
<1>4. CASE (WriteFails(f) /\ f \notin Patient) \/ CallerCancelled(f)
  <2>1. /\ call' = [call EXCEPT ![f] = "false"] \/ call' = [call EXCEPT ![f] = "cancelled"]
        /\ on' = [on EXCEPT ![f] = 0]
        /\ failed' = failed \/ failed' = failed \cup {f}
        /\ UNCHANGED <<connection, queue, flushing, pending, rejected, server, lost, displaced>>
    BY <1>4 DEF WriteFails, CallerCancelled
  <2>2. /\ call' \in Callers
        /\ \A g \in Frames : call'[g] = "waiting" => call[g] = "waiting"
        /\ \A g \in Frames : call'[g] = "true" => call[g] = "true"
    BY <1>1, <2>1 DEF Callers, Answers
  <2>3. TypeOK'
    BY <1>on, <2>1, <2>2 DEF Inv, TypeOK, Callers
  <2>4. WaitersAreOwned'
    BY <2>1, <2>2 DEF Inv, WaitersAreOwned, InSeq
  <2>5. TrueMeansAccepted'
    BY <2>1, <2>2 DEF Inv, TrueMeansAccepted
  <2> QED
    BY <2>3, <2>4, <2>5 DEF Inv
<1> QED
  BY <1>2, <1>3, <1>4 DEF Returning

LEMMA RepliesKeep ==
  ASSUME Inv, NEW f \in Frames, Reply(f) \/ AckTimesOut(f)
  PROVE  Inv'
<1>1. call \in Callers
  BY TypeFacts DEF Inv
<1>2. /\ accepted \subseteq accepted' /\ accepted' \subseteq accepted \cup {f}
      /\ heard' \subseteq heard
      /\ UNCHANGED <<connection, queue, flushing, on, rejected, deaf, got, history>>
  BY DEF Reply, AckTimesOut
<1>3. \/ pending' = pending /\ call' = call
      \/ /\ pending' = pending \ {f}
         /\ \/ call' = Answer({f}, "true") /\ f \in accepted'
            \/ call' = Answer({f}, "error")
  BY DEF Reply, AckTimesOut
<1>4. /\ call' \in Callers
      /\ \A g \in Frames : call'[g] = "waiting" =>
           call[g] = "waiting" /\ (g \in pending => g \in pending')
      /\ \A g \in Frames : call'[g] = "true" => call[g] = "true" \/ g \in accepted'
  <2>1. CASE pending' = pending /\ call' = call
    BY <1>1, <2>1
  <2>2. CASE pending' = pending \ {f} /\ call' = Answer({f}, "true") /\ f \in accepted'
    <3>1. "true" \in Answers
      BY DEF Answers
    <3>2. \A g \in Frames : Answer({f}, "true")[g] = IF g \in {f} /\ call[g] = "waiting" THEN "true" ELSE call[g]
      BY <1>1, <3>1, AnswerMoves
    <3>3. /\ call' \in Callers
          /\ \A g \in Frames : call'[g] = "waiting" => call[g] = "waiting" /\ g \notin {f}
      BY <1>1, <2>2, <3>1, AnswerMoves
    <3> QED
      BY <2>2, <3>2, <3>3
  <2>3. CASE pending' = pending \ {f} /\ call' = Answer({f}, "error")
    <3>1. "error" \in Answers /\ "error" # "true"
      BY DEF Answers
    <3>2. /\ call' \in Callers
          /\ \A g \in Frames : call'[g] = "waiting" => call[g] = "waiting" /\ g \notin {f}
          /\ \A g \in Frames : call'[g] = "true" => call[g] = "true"
      BY <1>1, <2>3, <3>1, AnswerMoves
    <3> QED
      BY <2>3, <3>2
  <2> QED
    BY <1>3, <2>1, <2>2, <2>3
<1>5. pending' \subseteq pending
  BY <1>3
<1>6. TypeOK'
  BY <1>2, <1>4, <1>5 DEF Inv, TypeOK, Callers
<1>7. WaitersAreOwned'
  BY <1>2, <1>4 DEF Inv, WaitersAreOwned
<1>8. TrueMeansAccepted'
  BY <1>2, <1>4 DEF Inv, TrueMeansAccepted
<1> QED
  BY <1>6, <1>7, <1>8 DEF Inv

LEMMA FlushKeeps ==
  ASSUME Inv, Flush
  PROVE  Inv'
<1>1. /\ call \in Callers /\ queue \in Seq(Frames) /\ Len(queue) <= QueueMax
      /\ Len(queue) \in Nat /\ QueueMax \in Nat /\ (ws # 0 => ws \in Sockets)
  BY TypeFacts DEF Inv
<1>2. CASE FlushStarts
  <2>1. PICK n \in 0..Len(queue) : FlushFrom(queue, n)
    BY <1>2 DEF FlushStarts
  <2>2. /\ sup = "recover" /\ ws \in Sockets
        /\ UNCHANGED <<state, stopping, ws, opened, broken, on, pending, rejected, history>>
    BY <1>1, <1>2 DEF FlushStarts, Inv, TypeOK
  <2>3. /\ queue' \in Seq(Frames) /\ Len(queue') <= Len(queue) /\ call' \in Callers
        /\ flushing' \in Frames \cup {NoFrame}
        /\ sup' \in {"flush", "read"} /\ ((sup' = "flush") <=> (flushing' # NoFrame))
        /\ got' \in Seq(Frames) /\ deaf' \subseteq Sockets
        /\ heard' \subseteq Frames /\ accepted' = accepted
        /\ \A f \in Frames : call'[f] = "waiting" =>
             call[f] = "waiting" /\ (f \in InSeq(queue) => f \in InSeq(queue'))
        /\ \A f \in Frames : call'[f] = "true" => call[f] = "true"
    BY <1>1, <2>1, <2>2, FlushMoves DEF Inv, TypeOK
  <2>4. Len(queue') <= QueueMax
    BY <1>1, <2>3
  <2>5. TypeOK'
    BY <2>2, <2>3, <2>4 DEF Inv, TypeOK, Callers
  <2>6. WaitersAreOwned'
    BY <2>2, <2>3 DEF Inv, WaitersAreOwned
  <2>7. TrueMeansAccepted'
    BY <2>3 DEF Inv, TrueMeansAccepted
  <2> QED
    BY <2>5, <2>6, <2>7 DEF Inv
<1>3. CASE FlushSent
  <2> DEFINE q == Tail(queue)
             h == Head(queue)
  <2>1. /\ sup = "flush" /\ ws \in Sockets /\ queue # <<>> /\ flushing \in Frames
        /\ pending' = IF flushing \in Acked THEN pending \cup {flushing} ELSE pending
        /\ UNCHANGED <<state, stopping, ws, opened, broken, on, rejected, failed>>
    BY <1>1, <1>3 DEF FlushSent, Inv, TypeOK
  <2>2. /\ q \in Seq(Frames) /\ Len(q) = Len(queue) - 1 /\ h \in Frames
        /\ InSeq(queue) = InSeq(q) \cup {h}
    <3>1. /\ Tail(queue) = SubSeq(queue, 1 + 1, Len(queue)) /\ Head(queue) = queue[1]
          /\ 1 \in 1..Len(queue)
      BY <1>1, <2>1, TailIsSubSeq, HeadTailProperties
    <3>2. 1 \in 0..Len(queue) /\ {queue[i] : i \in 1..1} = {queue[1]} /\ queue[1] \in Frames
      BY <1>1, <3>1
    <3>3. /\ SubSeq(queue, 1 + 1, Len(queue)) \in Seq(Frames)
          /\ Len(SubSeq(queue, 1 + 1, Len(queue))) = Len(queue) - 1
          /\ InSeq(queue) = {queue[i] : i \in 1..1} \cup InSeq(SubSeq(queue, 1 + 1, Len(queue)))
      BY <1>1, <3>2, Suffix
    <3> QED
      BY <3>1, <3>2, <3>3
  <2>3. /\ lost' = IF h # flushing THEN lost \cup {h} ELSE lost
        /\ displaced' = IF h # flushing THEN displaced \cup {flushing} ELSE displaced
        /\ \E n \in 0..(Len(queue) - 1) : FlushFrom(q, n)
    BY <1>3 DEF FlushSent
  <2> HIDE DEF q, h
  <2>4. PICK n \in 0..Len(q) : FlushFrom(q, n)
    BY <2>2, <2>3
  <2>5. /\ queue' \in Seq(Frames) /\ Len(queue') <= Len(q) /\ call' \in Callers
        /\ flushing' \in Frames \cup {NoFrame}
        /\ sup' \in {"flush", "read"} /\ ((sup' = "flush") <=> (flushing' # NoFrame))
        /\ got' \in Seq(Frames) /\ deaf' \subseteq Sockets
        /\ heard' \subseteq Frames /\ accepted' = accepted
        /\ \A f \in Frames : call'[f] = "waiting" =>
             call[f] = "waiting" /\ (f \in InSeq(q) => f \in InSeq(queue'))
        /\ \A f \in Frames : call'[f] = "true" => call[f] = "true"
    BY <1>1, <2>1, <2>2, <2>4, FlushMoves DEF Inv, TypeOK
  <2>6. Len(queue') <= QueueMax
    BY <1>1, <2>2, <2>5
  <2>7. pending' \subseteq Acked /\ lost' \subseteq Frames /\ displaced' \subseteq Frames
    BY <2>1, <2>2, <2>3 DEF Inv, TypeOK
  <2>8. TypeOK'
    BY <2>1, <2>5, <2>6, <2>7 DEF Inv, TypeOK, Callers
  <2>9. WaitersAreOwned'
    <3>1. ASSUME NEW f \in Frames, call'[f] = "waiting"
          PROVE  f \in pending' \cup lost' \cup (IF stopping' THEN {} ELSE InSeq(queue'))
      <4>1. /\ call[f] = "waiting" /\ f \in Acked /\ (f \in InSeq(q) => f \in InSeq(queue'))
        BY <2>5, <3>1 DEF Inv, TypeOK
      <4>2. f \in pending \cup lost \cup (IF stopping THEN {} ELSE InSeq(q) \cup {h})
        BY <2>2, <4>1 DEF Inv, WaitersAreOwned
      <4>3. pending \subseteq pending' /\ lost \subseteq lost' /\ stopping' = stopping
        BY <2>1, <2>3
      <4>4. CASE f = h
        BY <2>1, <2>3, <4>1, <4>4
      <4>5. CASE f # h
        BY <4>1, <4>2, <4>3, <4>5
      <4> QED
        BY <4>4, <4>5
    <3> QED
      BY <3>1 DEF WaitersAreOwned
  <2>10. TrueMeansAccepted'
    BY <2>5 DEF Inv, TrueMeansAccepted
  <2> QED
    BY <2>8, <2>9, <2>10 DEF Inv
<1>4. CASE FlushFails
  <2>1. /\ sup = "flush" /\ flushing \in Frames
        /\ pending \subseteq pending' /\ pending' \subseteq Acked
        /\ failed' \subseteq Frames
        /\ flushing' = NoFrame /\ sup' = "torn"
        /\ UNCHANGED <<state, stopping, ws, opened, broken, queue, call, on, rejected, server,
                       lost, displaced>>
    BY <1>4 DEF FlushFails, Inv, TypeOK
  <2>2. TypeOK'
    BY <2>1 DEF Inv, TypeOK
  <2>3. WaitersAreOwned'
    BY <2>1 DEF Inv, WaitersAreOwned, InSeq
  <2>4. TrueMeansAccepted'
    BY <2>1 DEF Inv, TrueMeansAccepted
  <2> QED
    BY <2>2, <2>3, <2>4 DEF Inv
<1> QED
  BY <1>2, <1>3, <1>4 DEF Flush

\* What the reconnects and the operator do leaves the queue and the callers alone.
LEMMA ConnectionKeeps ==
  ASSUME Inv,
         \/ Connect \/ HelloOk \/ Away \/ AwayCloses \/ Resume \/ GiveUp
         \/ \E s \in Sockets : Break(s)
         \/ \E c \in Chats : ChatGate(c)
  PROVE  Inv'
<1>1. UNCHANGED <<queue, flushing, call, on, pending, server, history, stopping>>
  BY DEF Connect, HelloOk, Away, AwayCloses, Resume, GiveUp, Break, ChatGate
<1>2. WaitersAreOwned' /\ TrueMeansAccepted'
  BY <1>1 DEF Inv, WaitersAreOwned, TrueMeansAccepted, InSeq
<1>3. rejected' \subseteq Chats /\ broken' \subseteq Sockets
  <2>1. CASE \E c \in Chats : ChatGate(c)
    BY <2>1 DEF Inv, TypeOK, ChatGate
  <2>2. CASE ~\E c \in Chats : ChatGate(c)
    BY <2>2, TypeFacts DEF Inv, TypeOK, Connect, HelloOk, Away, AwayCloses, Resume, GiveUp, Break
  <2> QED
    BY <2>1, <2>2
<1>4. /\ state' \in {"offline", "ready", "away", "closed"}
      /\ sup' \in {"wait", "hello", "recover", "flush", "read", "torn", "done"}
      /\ (sup' = "flush") <=> (sup = "flush")
      /\ (ws' # 0) <=> sup' \in {"hello", "recover", "flush", "read", "torn"}
      /\ ws' \in 0..opened' /\ opened' \in 0..MaxSockets
  <2>1. CASE Connect
    <3>1. opened \in Nat /\ opened + 1 \in 1..MaxSockets
      BY <2>1 DEF Connect, Inv, TypeOK
    <3> QED
      BY <2>1, <3>1 DEF Connect, Inv, TypeOK
  <2>2. CASE HelloOk
    BY <2>2 DEF HelloOk, Inv, TypeOK
  <2>3. CASE Away \/ AwayCloses \/ Resume \/ \E s \in Sockets : Break(s)
    BY <2>3 DEF Away, AwayCloses, Resume, Break, Inv, TypeOK
  <2>4. CASE GiveUp
    BY <2>4 DEF GiveUp, Inv, TypeOK
  <2>5. CASE \E c \in Chats : ChatGate(c)
    BY <2>5 DEF ChatGate, Inv, TypeOK
  <2> QED
    BY <2>1, <2>2, <2>3, <2>4, <2>5
<1>5. TypeOK'
  BY <1>1, <1>3, <1>4 DEF Inv, TypeOK
<1> QED
  BY <1>2, <1>5 DEF Inv

\* The end of a connection and stop(): what leaves pending or the queue is answered.
LEMMA EndingKeeps ==
  ASSUME Inv, Teardown \/ StopBegins \/ StopEnds
  PROVE  Inv'
<1>1. /\ call \in Callers /\ queue \in Seq(Frames) /\ Len(queue) <= QueueMax
      /\ Len(queue) \in Nat /\ QueueMax \in Nat /\ (ws # 0 => ws \in Sockets)
  BY TypeFacts DEF Inv
<1>err. "error" \in Answers /\ "error" # "true"
  BY DEF Answers
<1>2. CASE Teardown
  <2>1. /\ ws' = 0 /\ sup' = "wait" /\ heard' = {} /\ sup # "flush" /\ ws \in Sockets
        /\ broken' \subseteq broken \cup {ws}
        /\ UNCHANGED <<stopping, opened, queue, flushing, on, rejected, deaf, got, accepted, history>>
    BY <1>1, <1>2 DEF Teardown, Inv, TypeOK
  <2>2. \/ UNCHANGED <<state, pending, call>>
        \/ state' = "offline" /\ pending' = {} /\ call' = Answer(pending, "error")
    BY <1>2 DEF Teardown
  <2>3. /\ call' \in Callers
        /\ \A f \in Frames : call'[f] = "waiting" =>
             call[f] = "waiting" /\ (f \in pending => f \in pending')
        /\ \A f \in Frames : call'[f] = "true" => call[f] = "true"
    <3>1. CASE UNCHANGED <<state, pending, call>>
      BY <1>1, <3>1
    <3>2. CASE call' = Answer(pending, "error")
      BY <1>1, <1>err, <3>2, AnswerMoves
    <3> QED
      BY <2>2, <3>1, <3>2
  <2>4. pending' \subseteq pending
    BY <2>2
  <2>5. 0 \in 0..opened /\ broken' \subseteq Sockets
    BY <2>1 DEF Inv, TypeOK
  <2>6. TypeOK'
    BY <2>1, <2>2, <2>3, <2>4, <2>5 DEF Inv, TypeOK, Callers
  <2>7. WaitersAreOwned'
    <3>1. \A f \in Frames : call'[f] = "waiting" =>
            f \in pending' \cup lost \cup (IF stopping THEN {} ELSE InSeq(queue))
      BY <2>3 DEF Inv, WaitersAreOwned
    <3>2. lost' = lost /\ stopping' = stopping /\ queue' = queue
      BY <2>1
    <3> QED
      BY <3>1, <3>2 DEF WaitersAreOwned, InSeq
  <2>8. TrueMeansAccepted'
    BY <2>1, <2>3 DEF Inv, TrueMeansAccepted
  <2> QED
    BY <2>6, <2>7, <2>8 DEF Inv
<1>3. CASE StopBegins
  <2>1. /\ ~stopping /\ stopping' = TRUE /\ state' = "closed" /\ pending' = {}
        /\ call' = Answer(pending \cup InSeq(queue), "error")
        /\ UNCHANGED <<sup, ws, opened, broken, flushing, on, rejected, server, history>>
    BY <1>3 DEF StopBegins
  <2>2. queue' \in Seq(Frames) /\ Len(queue') <= QueueMax
    <3>0. PICK n \in 0..Len(queue) : \E keep \in [1..n -> 1..Len(queue)] :
            queue' = [i \in 1..n |-> queue[keep[i]]]
      BY <1>3 DEF StopBegins, DropAwaited
    <3>1. PICK keep \in [1..n -> 1..Len(queue)] : queue' = [i \in 1..n |-> queue[keep[i]]]
      BY <3>0
    <3>2. \A i \in 1..n : queue[keep[i]] \in Frames
      BY <1>1
    <3>3. n \in Nat /\ n <= QueueMax
      BY <1>1
    <3>4. queue' \in Seq(Frames) /\ Len(queue') = n
      BY <3>1, <3>2, <3>3, IsASeq
    <3> QED
      BY <3>3, <3>4
  <2>3. /\ call' \in Callers
        /\ \A f \in Frames : call'[f] = "waiting" =>
             call[f] = "waiting" /\ f \notin pending \cup InSeq(queue)
        /\ \A f \in Frames : call'[f] = "true" => call[f] = "true"
    <3> DEFINE F == pending \cup InSeq(queue)
    <3>1. call' = Answer(F, "error")
      BY <2>1
    <3> HIDE DEF F
    <3>2. /\ call' \in Callers
          /\ \A f \in Frames : call'[f] = "waiting" => call[f] = "waiting" /\ f \notin F
          /\ \A f \in Frames : call'[f] = "true" => call[f] = "true"
      BY <1>1, <1>err, <3>1, AnswerMoves
    <3> QED
      BY <3>2 DEF F
  <2>4. TypeOK'
    BY <2>1, <2>2, <2>3 DEF Inv, TypeOK, Callers
  <2>5. WaitersAreOwned'
    BY <2>1, <2>3 DEF Inv, WaitersAreOwned
  <2>6. TrueMeansAccepted'
    BY <2>1, <2>3 DEF Inv, TrueMeansAccepted
  <2> QED
    BY <2>4, <2>5, <2>6 DEF Inv
<1>4. CASE StopEnds
  <2>1. /\ sup' = "done" /\ ws' = 0 /\ heard' = {} /\ flushing' = NoFrame
        /\ broken' \subseteq broken \cup ({ws} \ {0})
        /\ UNCHANGED <<state, stopping, opened, queue, call, on, pending, rejected,
                       deaf, got, accepted, history>>
    BY <1>4 DEF StopEnds
  <2>2. 0 \in 0..opened /\ broken' \subseteq Sockets
    BY <1>1, <2>1 DEF Inv, TypeOK
  <2>3. TypeOK'
    BY <2>1, <2>2 DEF Inv, TypeOK
  <2>4. WaitersAreOwned' /\ TrueMeansAccepted'
    BY <2>1 DEF Inv, WaitersAreOwned, TrueMeansAccepted, InSeq
  <2> QED
    BY <2>3, <2>4 DEF Inv
<1> QED
  BY <1>2, <1>3, <1>4

LEMMA InitHolds == Init => Inv
<1> SUFFICES ASSUME Init PROVE Inv
  OBVIOUS
<1>1. TypeOK
  <2>1. <<>> \in Seq(Frames) /\ Len(<<>>) = 0
    OBVIOUS
  <2>2. /\ Len(queue) = 0 /\ queue \in Seq(Frames) /\ got \in Seq(Frames)
        /\ 0 <= QueueMax /\ 0 \in 0..MaxSockets /\ 0 \in 0..0
    BY <2>1 DEF Init
  <2>3. /\ call \in [Frames -> {"idle", "writing", "waiting"} \cup Answers]
        /\ \A f \in Frames : call[f] # "waiting"
        /\ on \in [Frames -> 0..MaxSockets]
    BY <2>2 DEF Init
  <2> QED
    BY <2>2, <2>3 DEF Init, TypeOK
<1>2. WaitersAreOwned /\ TrueMeansAccepted
  BY DEF Init, WaitersAreOwned, TrueMeansAccepted
<1> QED
  BY <1>1, <1>2 DEF Inv

LEMMA NextKeeps == Inv /\ [Next]_vars => Inv'
<1> SUFFICES ASSUME Inv, [Next]_vars PROVE Inv'
  OBVIOUS
<1>1. ASSUME NEW f \in Frames,
             Sending(f) \/ Returning(f) \/ CallerCancelled(f) \/ Reply(f) \/ AckTimesOut(f)
      PROVE  Inv'
  BY <1>1, SendingKeeps, ReturningKeeps, RepliesKeep
<1>2. CASE \E c \in Chats : ChatGate(c)
  BY <1>2, ConnectionKeeps
<1>3. CASE Flush
  BY <1>3, FlushKeeps
<1>4. CASE Lifecycle
  BY <1>4, ConnectionKeeps, EndingKeeps DEF Lifecycle
<1>5. CASE UNCHANGED vars
  <2>1. TypeOK'
    BY <1>5 DEF Inv, TypeOK
  <2>2. WaitersAreOwned' /\ TrueMeansAccepted'
    BY <1>5 DEF Inv, WaitersAreOwned, TrueMeansAccepted, InSeq
  <2> QED
    BY <2>1, <2>2 DEF Inv
<1> QED
  BY <1>1, <1>2, <1>3, <1>4, <1>5 DEF Next

LEMMA Invariance == Spec => []Inv
BY InitHolds, NextKeeps, PTL DEF Spec

\* The types of the outbound queue, its bound among them, hold for every set
\* of calls and every bound.
THEOREM SendQueueTypes == Spec => []TypeOK
<1>1. Inv => TypeOK
  BY DEF Inv
<1> QED
  BY <1>1, Invariance, PTL

\* No caller is ever parked without somebody to wake it, but for the frames the
\* flush throws away unsent.
THEOREM CallersAreOwned == Spec => []WaitersAreOwned
<1>1. Inv => WaitersAreOwned
  BY DEF Inv
<1> QED
  BY <1>1, Invariance, PTL

\* send_frame answers True to an acked call only on the server's word.
THEOREM TrueIsAccepted == Spec => []TrueMeansAccepted
<1>1. Inv => TrueMeansAccepted
  BY DEF Inv
<1> QED
  BY <1>1, Invariance, PTL

-----------------------------------------------------------------------------
(* The order of the frames.  What the server read says nothing of what it  *)
(* will read: the invariant is about the frames still to be sent.          *)

\* Calls begin in the order of their numbers.
CallsInOrder ==
  \A f, g \in Frames : g < f /\ call[f] # "idle" => call[g] # "idle"

\* A frame whose call has not begun is nowhere.
FreshIsNowhere ==
  \A f \in Frames : call[f] = "idle" => f \notin InSeq(queue) \cup InSeq(got) \cup {flushing}

\* A frame whose direct send is under way is not queued, and whatever was queued
\* since then is younger, unless its own direct send failed.
WritingIsAhead ==
  \A f \in Frames : call[f] = "writing" =>
    f \notin InSeq(queue) /\ \A g \in InSeq(queue) : g < f => g \in failed

\* A queue holds each frame once, in call order except for the late ones.
InOrder(q, late) ==
  \A i, j \in 1..Len(q) : i < j => q[i] # q[j] /\ (q[j] < q[i] => q[j] \in late)

\* A queued frame the server has read is being sent by the flush, or a send of
\* it raised, or the flush missed it; after the end nothing is sent any more.
ReadAndQueued ==
  \A f \in InSeq(queue) \cap InSeq(got) :
    f \in failed \cup displaced \cup {flushing} \/ sup = "done"

\* A queued frame the server has not read is younger than all that it has,
\* unless a send of it raised.
YoungerThanRead ==
  \A f \in InSeq(queue) \ (InSeq(got) \cup failed) : \A g \in InSeq(got) : g < f

\* A call whose frame is queued did not answer False.
QueuedNotRefused == \A f \in InSeq(queue) : call[f] # "false"

QueueInv ==
  /\ CallsInOrder /\ FreshIsNowhere /\ WritingIsAhead
  /\ InOrder(queue, failed)
  /\ ReadAndQueued /\ YoungerThanRead /\ QueuedNotRefused

ReadInv == FalseMeansUnsent /\ CallOrder /\ OneCopy

LEMMA FramesAreNumbers == \A f \in Frames : f \in Int
BY DEF FramesAssumption

\* A queue with some of its frames left out keeps the order.
LEMMA PartInOrder ==
  ASSUME NEW q \in Seq(Frames), NEW p \in Seq(Frames), NEW late, InOrder(q, late),
         NEW keep \in [1..Len(p) -> 1..Len(q)],
         \A i, j \in 1..Len(p) : i < j => keep[i] < keep[j],
         \A i \in 1..Len(p) : p[i] = q[keep[i]]
  PROVE  InOrder(p, late) /\ InSeq(p) \subseteq InSeq(q)
<1>1. ASSUME NEW i \in 1..Len(p), NEW j \in 1..Len(p), i < j
      PROVE  p[i] # p[j] /\ (p[j] < p[i] => p[j] \in late)
  <2>1. keep[i] \in 1..Len(q) /\ keep[j] \in 1..Len(q) /\ keep[i] < keep[j]
    BY <1>1
  <2>2. p[i] = q[keep[i]] /\ p[j] = q[keep[j]]
    BY <1>1
  <2> QED
    BY <2>1, <2>2 DEF InOrder
<1>2. InSeq(p) \subseteq InSeq(q)
  BY DEF InSeq
<1> QED
  BY <1>1, <1>2 DEF InOrder

\* A suffix and a prefix of a queue in order.
LEMMA SuffixInOrder ==
  ASSUME NEW q \in Seq(Frames), NEW late, InOrder(q, late), NEW n \in 0..Len(q)
  PROVE  LET t == SubSeq(q, n + 1, Len(q)) IN
         /\ t \in Seq(Frames) /\ Len(t) = Len(q) - n
         /\ \A i \in 1..Len(t) : t[i] = q[n + i]
         /\ InOrder(t, late) /\ InSeq(t) \subseteq InSeq(q)
<1> DEFINE m == n + 1
           t == SubSeq(q, m, Len(q))
           keep == [i \in 1..Len(t) |-> n + i]
<1>1. n \in Nat /\ Len(q) \in Nat /\ m \in Int /\ m = n + 1 /\ m >= 1 /\ n <= Len(q)
  OBVIOUS
<1>2. t \in Seq(Frames) /\ Len(t) = Len(q) - n
  BY Suffix
<1>3. \A i \in 1..Len(t) : t[i] = q[n + i]
  <2>1. \A i \in m..Len(q) : q[i] \in Frames
    BY <1>1
  <2>2. \A i \in 1..(Len(q) - m + 1) : t[i] = q[m + i - 1]
    <3> HIDE DEF m
    <3> QED
      BY <1>1, <2>1, SubSeqProperties
  <2>3. ASSUME NEW i \in 1..Len(t) PROVE t[i] = q[n + i]
    <3>1. i \in 1..(Len(q) - m + 1) /\ m + i - 1 = n + i
      BY <1>1, <1>2
    <3> HIDE DEF m, t
    <3> QED
      BY <2>2, <3>1
  <2> QED
    BY <2>3
<1> HIDE DEF m, t
<1>4. /\ keep \in [1..Len(t) -> 1..Len(q)]
      /\ \A i, j \in 1..Len(t) : i < j => keep[i] < keep[j]
      /\ \A i \in 1..Len(t) : t[i] = q[keep[i]]
  BY <1>1, <1>2, <1>3
<1> HIDE DEF keep
<1>5. InOrder(t, late) /\ InSeq(t) \subseteq InSeq(q)
  BY <1>2, <1>4, PartInOrder
<1> QED
  BY <1>2, <1>3, <1>5 DEF t, m

LEMMA ButLastInOrder ==
  ASSUME NEW q \in Seq(Frames), NEW late, InOrder(q, late), Len(q) > 0
  PROVE  LET t == SubSeq(q, 1, Len(q) - 1) IN
         t \in Seq(Frames) /\ InOrder(t, late) /\ InSeq(t) \subseteq InSeq(q)
<1> DEFINE m == Len(q) - 1
           t == SubSeq(q, 1, m)
           keep == [i \in 1..Len(t) |-> i]
<1>1. m \in Nat /\ Len(q) \in Nat /\ m < Len(q)
  OBVIOUS
<1>2. t \in Seq(Frames) /\ Len(t) = m /\ \A i \in 1..m : t[i] = q[i]
  <2>1. \A i \in 1..m : q[i] \in Frames
    BY <1>1
  <2> HIDE DEF m
  <2> QED
    BY <1>1, <2>1, SubSeqProperties
<1> HIDE DEF m, t
<1>3. /\ keep \in [1..Len(t) -> 1..Len(q)]
      /\ \A i, j \in 1..Len(t) : i < j => keep[i] < keep[j]
      /\ \A i \in 1..Len(t) : t[i] = q[keep[i]]
  BY <1>1, <1>2
<1> HIDE DEF keep
<1>4. InOrder(t, late) /\ InSeq(t) \subseteq InSeq(q)
  BY <1>2, <1>3, PartInOrder
<1> QED
  BY <1>2, <1>4 DEF t, m
\* A frame that joins a queue in order at its end, or late at its front.
LEMMA AppendInOrder ==
  ASSUME NEW q \in Seq(Frames), NEW late, InOrder(q, late), NEW f \in Frames,
         \A g \in InSeq(q) : g < f
  PROVE  InOrder(Append(q, f), late)
<1>1. /\ Len(Append(q, f)) = Len(q) + 1
      /\ \A i \in 1..Len(q) : Append(q, f)[i] = q[i]
      /\ Append(q, f)[Len(q) + 1] = f
  BY AppendProperties
<1>2. Len(q) \in Nat
  OBVIOUS
<1> DEFINE r == Append(q, f)
<1> HIDE DEF r
<1>3. ASSUME NEW i \in 1..Len(r), NEW j \in 1..Len(r), i < j
      PROVE  r[i] # r[j] /\ (r[j] < r[i] => r[j] \in late)
  <2>1. i \in 1..Len(q) /\ r[i] = q[i] /\ q[i] \in InSeq(q) /\ q[i] \in Frames
    BY <1>1, <1>2, <1>3 DEF r, InSeq
  <2>2. CASE j \in 1..Len(q)
    BY <1>1, <1>3, <2>1, <2>2 DEF InOrder, r
  <2>3. CASE j \notin 1..Len(q)
    <3>1. j = Len(q) + 1 /\ r[j] = f
      BY <1>1, <1>2, <1>3, <2>3 DEF r
    <3>2. q[i] < f /\ q[i] \in Int /\ f \in Int
      BY <2>1, FramesAreNumbers
    <3> QED
      BY <2>1, <3>1, <3>2
  <2> QED
    BY <2>2, <2>3
<1> QED
  BY <1>3 DEF InOrder, r

LEMMA FrontInOrder ==
  ASSUME NEW q \in Seq(Frames), NEW late, InOrder(q, late), NEW f \in Frames,
         f \notin InSeq(q), \A g \in InSeq(q) : g < f => g \in late
  PROVE  InOrder(<<f>> \o q, late)
<1> DEFINE r == <<f>> \o q
<1>1. /\ <<f>> \in Seq(Frames) /\ Len(<<f>>) = 1 /\ <<f>>[1] = f
  OBVIOUS
<1>2. /\ Len(r) = Len(q) + 1
      /\ \A i \in 1..Len(r) : r[i] = IF i <= 1 THEN <<f>>[i] ELSE q[i - 1]
  <2>1. /\ Len(r) = 1 + Len(q)
        /\ \A i \in 1..(1 + Len(q)) : r[i] = IF i <= 1 THEN <<f>>[i] ELSE q[i - 1]
    BY <1>1, ConcatProperties
  <2> QED
    BY <2>1
<1>3. Len(q) \in Nat
  OBVIOUS
<1>4. r[1] = f /\ \A i \in 2..Len(r) : r[i] = q[i - 1] /\ i - 1 \in 1..Len(q)
  BY <1>1, <1>2, <1>3
<1> HIDE DEF r
<1>5. ASSUME NEW i \in 1..Len(r), NEW j \in 1..Len(r), i < j
      PROVE  r[i] # r[j] /\ (r[j] < r[i] => r[j] \in late)
  <2>1. j \in 2..Len(r)
    BY <1>2, <1>3, <1>5
  <2>2. r[j] = q[j - 1] /\ q[j - 1] \in InSeq(q)
    BY <1>4, <2>1 DEF InSeq
  <2>3. CASE i = 1
    BY <1>4, <2>2, <2>3
  <2>4. CASE i # 1
    <3>1. i \in 2..Len(r) /\ i - 1 < j - 1
      BY <1>2, <1>3, <1>5, <2>4
    <3>2. i - 1 \in 1..Len(q) /\ j - 1 \in 1..Len(q) /\ r[i] = q[i - 1]
      BY <1>4, <2>1, <3>1
    <3> QED
      BY <2>2, <3>1, <3>2 DEF InOrder
  <2> QED
    BY <2>3, <2>4
<1> QED
  BY <1>5 DEF InOrder, r

\* _enqueue_frame keeps the order: a new call's frame is the youngest, and one
\* whose direct send raised is older than what was queued meanwhile.
LEMMA EnqueueInOrder ==
  ASSUME NEW f \in Frames, NEW front \in BOOLEAN, NEW late,
         queue \in Seq(Frames), Len(queue) <= QueueMax, InOrder(queue, late),
         f \notin InSeq(queue),
         IF front THEN \A g \in InSeq(queue) : g < f => g \in late
                  ELSE \A g \in InSeq(queue) : g < f
  PROVE  /\ InOrder(Enqueued(f, front), late)
         /\ InSeq(Enqueued(f, front)) \subseteq InSeq(queue) \cup {f}
<1>1. Len(queue) \in Nat /\ QueueMax \in Nat /\ QueueMax >= 1
  OBVIOUS
<1>2. CASE front
  <2> DEFINE t == IF Len(queue) < QueueMax THEN queue ELSE SubSeq(queue, 1, Len(queue) - 1)
  <2>1. Enqueued(f, front) = <<f>> \o t
    BY <1>2 DEF Enqueued
  <2>2. t \in Seq(Frames) /\ InOrder(t, late) /\ InSeq(t) \subseteq InSeq(queue)
    <3>1. CASE Len(queue) < QueueMax
      BY <3>1
    <3>2. CASE ~(Len(queue) < QueueMax)
      BY <1>1, <3>2, ButLastInOrder
    <3> QED
      BY <3>1, <3>2
  <2> HIDE DEF t
  <2>3. InOrder(<<f>> \o t, late)
    BY <1>2, <2>2, FrontInOrder
  <2>4. InSeq(<<f>> \o t) = InSeq(t) \cup {f}
    BY <2>2, GrowFront
  <2> QED
    BY <2>1, <2>2, <2>3, <2>4
<1>3. CASE ~front
  <2> DEFINE t == IF Len(queue) < QueueMax THEN queue ELSE Tail(queue)
  <2>1. Enqueued(f, front) = Append(t, f)
    BY <1>3 DEF Enqueued
  <2>2. t \in Seq(Frames) /\ InOrder(t, late) /\ InSeq(t) \subseteq InSeq(queue)
    <3>1. CASE Len(queue) < QueueMax
      BY <3>1
    <3>2. CASE ~(Len(queue) < QueueMax)
      <4>1. 1 \in 0..Len(queue) /\ Tail(queue) = SubSeq(queue, 1 + 1, Len(queue))
        BY <1>1, <3>2, TailIsSubSeq
      <4>2. /\ SubSeq(queue, 1 + 1, Len(queue)) \in Seq(Frames)
            /\ InOrder(SubSeq(queue, 1 + 1, Len(queue)), late)
            /\ InSeq(SubSeq(queue, 1 + 1, Len(queue))) \subseteq InSeq(queue)
        BY <4>1, SuffixInOrder
      <4> QED
        BY <3>2, <4>1, <4>2
    <3> QED
      BY <3>1, <3>2
  <2> HIDE DEF t
  <2>3. InOrder(Append(t, f), late)
    BY <1>3, <2>2, AppendInOrder
  <2>4. InSeq(Append(t, f)) = InSeq(t) \cup {f}
    BY <2>2, GrowBack, Zenon
  <2> QED
    BY <2>1, <2>2, <2>3, <2>4
<1> QED
  BY <1>2, <1>3

\* A frame handed to the socket keeps the order of what the server has read, if
\* it is younger than all of it, or late, or was read before.
LEMMA HandedInOrder ==
  ASSUME NEW f \in Frames, got \in Seq(Frames), got' = got \/ got' = Append(got, f),
         CallOrder, OneCopy, failed \subseteq failed', displaced \subseteq displaced',
         f \in InSeq(got) => f \in failed' \cup displaced',
         f \notin InSeq(got) \cup failed' => \A g \in InSeq(got) : g < f
  PROVE  CallOrder' /\ OneCopy'
<1>1. CASE got' = got
  BY <1>1 DEF CallOrder, OneCopy
<1>2. CASE got' = Append(got, f)
  <2>1. /\ Len(got') = Len(got) + 1 /\ Len(got) \in Nat
        /\ \A i \in 1..Len(got) : got'[i] = got[i]
        /\ got'[Len(got) + 1] = f
    BY <1>2, AppendProperties
  <2>2. \A i \in 1..Len(got) : got[i] \in InSeq(got) /\ got[i] \in Frames
    BY DEF InSeq
  <2>3. ASSUME NEW i \in 1..Len(got'), NEW j \in 1..Len(got'), i < j
        PROVE  /\ got'[j] < got'[i] =>
                    got'[j] \in failed' \/ \E k \in 1..(i - 1) : got'[k] = got'[j]
               /\ got'[i] = got'[j] => got'[i] \in failed' \cup displaced'
    <3>1. i \in 1..Len(got) /\ got'[i] = got[i] /\ \A k \in 1..(i - 1) : got'[k] = got[k]
      BY <2>1, <2>3
    <3>2. CASE j \in 1..Len(got)
      BY <2>1, <2>3, <3>1, <3>2 DEF CallOrder, OneCopy
    <3>3. CASE j \notin 1..Len(got)
      <4>1. got'[j] = f
        BY <2>1, <2>3, <3>3
      <4>2. got'[i] = f => f \in failed' \cup displaced'
        BY <2>2, <3>1
      <4>3. ASSUME f < got[i]
            PROVE  f \in failed' \/ \E k \in 1..(i - 1) : got[k] = f
        <5>1. CASE f \in InSeq(got)
          <6>1. PICK m \in 1..Len(got) : got[m] = f
            BY <5>1 DEF InSeq
          <6>2. CASE m < i
            BY <3>1, <6>1, <6>2
          <6>3. CASE m = i
            BY <4>3, <6>1, <6>3
          <6>4. CASE m > i
            BY <3>1, <4>3, <6>1, <6>4 DEF CallOrder
          <6> QED
            BY <3>1, <6>2, <6>3, <6>4
        <5>2. CASE f \notin InSeq(got)
          <6>1. got[i] \in Int /\ f \in Int
            BY <2>2, <3>1, FramesAreNumbers
          <6> QED
            BY <2>2, <3>1, <4>3, <5>2, <6>1
        <5> QED
          BY <5>1, <5>2
      <4> QED
        BY <3>1, <4>1, <4>2, <4>3
    <3> QED
      BY <3>2, <3>3
  <2> QED
    BY <2>3 DEF CallOrder, OneCopy
<1> QED
  BY <1>1, <1>2

\* What is handed to the socket is all that the server may read.
LEMMA HandedReads ==
  ASSUME NEW f \in Frames, got \in Seq(Frames), Handed(f)
  PROVE  /\ got' = got \/ got' = Append(got, f)
         /\ InSeq(got) \subseteq InSeq(got') /\ InSeq(got') \subseteq InSeq(got) \cup {f}
<1>1. got' = got \/ got' = Append(got, f)
  BY DEF Handed
<1>2. InSeq(Append(got, f)) = InSeq(got) \cup {f}
  BY GrowBack, Zenon
<1>3. CASE got' = got
  BY <1>3 DEF InSeq
<1>4. CASE got' = Append(got, f)
  <2>1. InSeq(got') = InSeq(Append(got, f))
    BY <1>4 DEF InSeq
  <2> QED
    BY <1>2, <1>4, <2>1
<1> QED
  BY <1>1, <1>3, <1>4
-----------------------------------------------------------------------------
(* Steps keep the order: those that send nothing, those that queue a frame, *)
(* a direct send, and the flush.                                            *)

\* Settling futures turns parked calls into answered ones, and no other.
LEMMA AnswerPoint ==
  ASSUME NEW F, NEW a \in Answers, call \in Callers, NEW f \in Frames
  PROVE  \/ Answer(F, a)[f] = call[f]
         \/ f \in F /\ call[f] = "waiting" /\ Answer(F, a)[f] = a
BY AnswerMoves

\* A step that hands nothing to a socket, adds nothing to the queue and refuses
\* only frames that are neither queued nor, unless a send raised, read.
LEMMA QuietKeeps ==
  ASSUME Inv, QueueInv, ReadInv, queue' \in Seq(Frames),
         got' = got, failed \subseteq failed', displaced \subseteq displaced',
         InOrder(queue', failed'), InSeq(queue') \subseteq InSeq(queue),
         CallsInOrder',
         \A f \in Frames : call'[f] \in {"idle", "writing"} => call[f] = call'[f],
         \A f \in Frames : call'[f] = "false" =>
           \/ call[f] = "false"
           \/ f \notin InSeq(queue') /\ (f \in InSeq(got) => f \in failed' \cup displaced'),
         \/ flushing' = flushing
         \/ flushing' = NoFrame /\ (sup' = "done" \/ flushing \in failed' \/ queue' = <<>>),
         sup = "done" => sup' = "done"
  PROVE  QueueInv' /\ ReadInv'
<1>1. InSeq(got') = InSeq(got) /\ InSeq(queue') \subseteq Frames /\ InSeq(got) \subseteq Frames
  BY DEF InSeq, Inv, TypeOK
<1>2. FreshIsNowhere'
  <2>1. NoFrame \notin Frames
    BY DEF FramesAssumption
  <2>2. ASSUME NEW f \in Frames, call'[f] = "idle"
        PROVE  f \notin InSeq(queue') \cup InSeq(got') \cup {flushing'}
    <3>1. f \notin InSeq(queue) \cup InSeq(got) \cup {flushing}
      BY <2>2 DEF QueueInv, FreshIsNowhere
    <3> QED
      BY <1>1, <2>1, <3>1
  <2>3. InSeq(queue)' = InSeq(queue') /\ InSeq(got)' = InSeq(got')
    BY DEF InSeq
  <2> QED
    BY <2>2, <2>3 DEF FreshIsNowhere
<1>3. WritingIsAhead'
  <2>1. ASSUME NEW f \in Frames, call'[f] = "writing"
        PROVE  f \notin InSeq(queue') /\ \A g \in InSeq(queue') : g < f => g \in failed'
    BY <2>1 DEF QueueInv, WritingIsAhead
  <2> QED
    BY <2>1 DEF WritingIsAhead, InSeq
<1>4. ReadAndQueued'
  <2>1. ASSUME NEW f \in InSeq(queue'), f \in InSeq(got)
        PROVE  f \in failed' \cup displaced' \cup {flushing'} \/ sup' = "done"
    <3>1. queue' # <<>>
      BY <2>1 DEF InSeq
    <3> QED
      BY <2>1, <3>1 DEF QueueInv, ReadAndQueued
  <2> QED
    BY <1>1, <2>1 DEF ReadAndQueued, InSeq
<1>5. YoungerThanRead'
  <2>1. \A f \in InSeq(queue') \ (InSeq(got') \cup failed') : \A g \in InSeq(got') : g < f
    BY <1>1 DEF QueueInv, YoungerThanRead
  <2> QED
    BY <2>1 DEF YoungerThanRead, InSeq
<1>6. QueuedNotRefused'
  <2>1. \A f \in InSeq(queue') : call'[f] # "false"
    BY <1>1 DEF QueueInv, QueuedNotRefused
  <2> QED
    BY <2>1 DEF QueuedNotRefused, InSeq
<1>7. FalseMeansUnsent'
  <2>1. \A f \in Frames : call'[f] = "false" /\ f \in InSeq(got') => f \in failed' \cup displaced'
    BY <1>1 DEF ReadInv, FalseMeansUnsent
  <2> QED
    BY <2>1 DEF FalseMeansUnsent, InSeq
<1>8. CallOrder' /\ OneCopy'
  BY DEF ReadInv, CallOrder, OneCopy
<1>9. InOrder(queue, failed)'
  BY DEF InOrder
<1> QED
  BY <1>2, <1>3, <1>4, <1>5, <1>6, <1>7, <1>8, <1>9 DEF QueueInv, ReadInv

\* The calls that have begun stay begun.
LEMMA BegunStays ==
  ASSUME QueueInv, \A f \in Frames : call'[f] = "idle" <=> call[f] = "idle"
  PROVE  CallsInOrder'
BY DEF QueueInv, CallsInOrder

\* The next call is younger than every frame that is somewhere.
LEMMA NewcomerIsYoungest ==
  ASSUME Inv, QueueInv, NEW f \in Frames, Calls(f), NEW a, a # "idle",
         \A g \in Frames \ {f} : call'[g] = "idle" <=> call[g] = "idle", call'[f] = a
  PROVE  /\ \A g \in InSeq(queue) \cup InSeq(got) : g < f
         /\ f \notin InSeq(queue) \cup InSeq(got) \cup {flushing}
         /\ CallsInOrder'
<1>1. call[f] = "idle" /\ \A g \in Frames : g < f => call[g] # "idle"
  BY DEF Calls
<1>2. f \notin InSeq(queue) \cup InSeq(got) \cup {flushing}
  BY <1>1 DEF QueueInv, FreshIsNowhere
<1>3. ASSUME NEW g \in InSeq(queue) \cup InSeq(got) PROVE g < f
  <2>1. g \in Frames
    BY <1>3 DEF Inv, TypeOK, InSeq
  <2>2. call[g] # "idle" /\ g # f
    BY <1>2, <1>3, <2>1 DEF QueueInv, FreshIsNowhere
  <2>3. ~(f < g)
    BY <1>1, <2>1, <2>2 DEF QueueInv, CallsInOrder
  <2> QED
    BY <2>1, <2>2, <2>3, FramesAreNumbers
<1>4. CallsInOrder'
  <2>1. ASSUME NEW g \in Frames, NEW h \in Frames, h < g, call'[g] # "idle" PROVE call'[h] # "idle"
    <3>1. CASE h = f
      BY <3>1
    <3>2. CASE h # f /\ g = f
      BY <1>1, <2>1, <3>2
    <3>3. CASE h # f /\ g # f
      BY <2>1, <3>3 DEF QueueInv, CallsInOrder
    <3> QED
      BY <3>1, <3>2, <3>3
  <2> QED
    BY <2>1 DEF CallsInOrder
<1> QED
  BY <1>2, <1>3, <1>4
LEMMA SendingInOrder ==
  ASSUME Inv, QueueInv, ReadInv, NEW f \in Frames, Sending(f)
  PROVE  QueueInv' /\ ReadInv'
<1>1. /\ call \in Callers /\ queue \in Seq(Frames) /\ Len(queue) <= QueueMax
      /\ got \in Seq(Frames) /\ InSeq(queue) \subseteq Frames /\ InSeq(got) \subseteq Frames
  BY DEF Inv, TypeOK, Callers, InSeq
<1>2. CASE SendRefused(f)
  <2>1. /\ call' = [call EXCEPT ![f] = "false"] /\ Calls(f)
        /\ UNCHANGED <<connection, queue, flushing, on, pending, rejected, server, history>>
    BY <1>2 DEF SendRefused
  <2>2. call'[f] = "false" /\ \A g \in Frames \ {f} : call'[g] = call[g]
    BY <1>1, <2>1 DEF Callers
  <2>3. CallsInOrder' /\ f \notin InSeq(queue) \cup InSeq(got)
    BY <2>1, <2>2, NewcomerIsYoungest
  <2>4. InOrder(queue', failed') /\ InSeq(queue') = InSeq(queue)
    BY <2>1 DEF QueueInv
  <2>5. \A g \in Frames : call'[g] \in {"idle", "writing"} => call[g] = call'[g]
    BY <2>2
  <2>6. \A g \in Frames : call'[g] = "false" => call[g] = "false" \/
          (g \notin InSeq(queue') /\ (g \in InSeq(got) => g \in failed' \cup displaced'))
    BY <2>2, <2>3, <2>4
  <2> QED
    BY <1>1, <2>1, <2>3, <2>4, <2>5, <2>6, QuietKeeps
<1>3. CASE SendDirect(f)
  <2>1. /\ call' = [call EXCEPT ![f] = "writing"] /\ Calls(f) /\ Handed(f)
        /\ queue = <<>> /\ flushing = NoFrame
        /\ UNCHANGED <<connection, queue, flushing, pending, rejected, history>>
    BY <1>3 DEF SendDirect, Direct
  <2>2. call'[f] = "writing" /\ \A g \in Frames \ {f} : call'[g] = call[g]
    BY <1>1, <2>1 DEF Callers
  <2>3. /\ CallsInOrder' /\ f \notin InSeq(queue) \cup InSeq(got)
        /\ \A g \in InSeq(got) : g < f
    BY <2>1, <2>2, NewcomerIsYoungest
  <2>4. /\ got' = got \/ got' = Append(got, f)
        /\ InSeq(got') \subseteq InSeq(got) \cup {f}
    BY <1>1, <2>1, HandedReads
  <2>5. CallOrder' /\ OneCopy'
    BY <1>1, <2>1, <2>3, <2>4, HandedInOrder DEF ReadInv
  <2>6. InSeq(queue') = {} /\ queue' = queue /\ InSeq(queue)' = {} /\ InSeq(got)' = InSeq(got')
    BY <2>1 DEF InSeq
  <2>7. FreshIsNowhere'
    <3>1. ASSUME NEW g \in Frames, call'[g] = "idle"
          PROVE  g \notin InSeq(queue') \cup InSeq(got') \cup {flushing'}
      <4>1. g # f /\ call[g] = "idle"
        BY <2>2, <3>1
      <4>2. g \notin InSeq(got) \cup {flushing}
        BY <4>1 DEF QueueInv, FreshIsNowhere
      <4> QED
        BY <2>1, <2>4, <2>6, <4>1, <4>2
    <3> QED
      BY <2>6, <3>1 DEF FreshIsNowhere
  <2>8. FalseMeansUnsent'
    <3>1. ASSUME NEW g \in Frames, call'[g] = "false", g \in InSeq(got')
          PROVE  g \in failed' \cup displaced'
      <4>1. g # f /\ call[g] = "false" /\ g \in InSeq(got)
        BY <2>2, <2>4, <3>1
      <4> QED
        BY <2>1, <4>1 DEF ReadInv, FalseMeansUnsent
    <3> QED
      BY <2>6, <3>1 DEF FalseMeansUnsent
  <2>9. InOrder(queue, failed)'
    BY <2>1 DEF QueueInv, InOrder
  <2>10. WritingIsAhead' /\ ReadAndQueued' /\ YoungerThanRead' /\ QueuedNotRefused'
    BY <2>6 DEF WritingIsAhead, ReadAndQueued, YoungerThanRead, QueuedNotRefused
  <2> QED
    BY <2>3, <2>5, <2>7, <2>8, <2>9, <2>10 DEF QueueInv, ReadInv
<1>4. CASE SendQueued(f)
  <2> DEFINE over == Overflow(FALSE)
             a == IF f \in Acked THEN "waiting" ELSE "true"
  <2>1. /\ call' = [Answer(over, "error") EXCEPT ![f] = a] /\ Calls(f)
        /\ queue' = Enqueued(f, FALSE)
        /\ UNCHANGED <<connection, flushing, on, pending, rejected, server, history>>
    BY <1>4 DEF SendQueued
  <2>2. a \in {"waiting", "true"}
    OBVIOUS
  <2> HIDE DEF over, a
  <2>3. "error" \in Answers
    BY DEF Answers
  <2>4. /\ Answer(over, "error") \in Callers
        /\ \A g \in Frames : \/ Answer(over, "error")[g] = call[g]
                             \/ call[g] = "waiting" /\ Answer(over, "error")[g] = "error"
    BY <1>1, <2>3, AnswerMoves, AnswerPoint
  <2>5. /\ call'[f] = a
        /\ \A g \in Frames \ {f} : \/ call'[g] = call[g]
                                   \/ call[g] = "waiting" /\ call'[g] = "error"
    BY <2>1, <2>4 DEF Callers
  <2>6. /\ \A g \in InSeq(queue) \cup InSeq(got) : g < f
        /\ f \notin InSeq(queue) \cup InSeq(got) \cup {flushing}
        /\ CallsInOrder'
    BY <2>1, <2>2, <2>5, NewcomerIsYoungest
  <2>7. InOrder(queue', failed') /\ InSeq(queue') \subseteq InSeq(queue) \cup {f}
    <3>1. InOrder(queue, failed)
      BY DEF QueueInv
    <3>2. \A g \in InSeq(queue) : g < f
      BY <2>6
    <3>3. /\ InOrder(Enqueued(f, FALSE), failed)
          /\ InSeq(Enqueued(f, FALSE)) \subseteq InSeq(queue) \cup {f}
      BY <1>1, <2>6, <3>1, <3>2, EnqueueInOrder
    <3> QED
      BY <2>1, <3>3
  <2>8. InSeq(queue)' = InSeq(queue') /\ InSeq(got)' = InSeq(got)
    BY <2>1 DEF InSeq
  <2>9. FreshIsNowhere'
    <3>1. ASSUME NEW g \in Frames, call'[g] = "idle"
          PROVE  g \notin InSeq(queue') \cup InSeq(got) \cup {flushing}
      <4>1. g # f /\ call[g] = "idle"
        BY <2>2, <2>5, <3>1
      <4> QED
        BY <2>7, <4>1 DEF QueueInv, FreshIsNowhere
    <3> QED
      BY <2>1, <2>8, <3>1 DEF FreshIsNowhere
  <2>10. WritingIsAhead'
    <3>1. ASSUME NEW g \in Frames, call'[g] = "writing"
          PROVE  g \notin InSeq(queue') /\ \A h \in InSeq(queue') : h < g => h \in failed'
      <4>1. g # f /\ call[g] = "writing"
        BY <2>2, <2>5, <3>1
      <4>2. ~(f < g)
        BY <2>1, <4>1 DEF Calls, QueueInv, CallsInOrder
      <4> QED
        BY <2>1, <2>7, <4>1, <4>2 DEF QueueInv, WritingIsAhead
    <3> QED
      BY <2>8, <3>1 DEF WritingIsAhead
  <2>11. ReadAndQueued'
    <3>1. \A g \in InSeq(queue') \cap InSeq(got) :
            g \in failed' \cup displaced' \cup {flushing'} \/ sup' = "done"
      BY <2>1, <2>6, <2>7 DEF QueueInv, ReadAndQueued
    <3> QED
      BY <2>8, <3>1 DEF ReadAndQueued
  <2>12. YoungerThanRead'
    <3>1. \A g \in InSeq(queue') \ (InSeq(got) \cup failed') : \A h \in InSeq(got) : h < g
      BY <2>1, <2>6, <2>7 DEF QueueInv, YoungerThanRead
    <3> QED
      BY <2>8, <3>1 DEF YoungerThanRead
  <2>13. QueuedNotRefused'
    <3>1. \A g \in InSeq(queue') : call'[g] # "false"
      BY <1>1, <2>2, <2>5, <2>7 DEF QueueInv, QueuedNotRefused
    <3> QED
      BY <2>8, <3>1 DEF QueuedNotRefused
  <2>14. FalseMeansUnsent'
    <3>1. \A g \in Frames : call'[g] = "false" /\ g \in InSeq(got) => g \in failed' \cup displaced'
      BY <2>1, <2>2, <2>5 DEF ReadInv, FalseMeansUnsent
    <3> QED
      BY <2>8, <3>1 DEF FalseMeansUnsent
  <2>15. CallOrder' /\ OneCopy'
    BY <2>1 DEF ReadInv, CallOrder, OneCopy
  <2>16. InOrder(queue, failed)'
    BY <2>7 DEF InOrder
  <2> QED
    BY <2>6, <2>9, <2>10, <2>11, <2>12, <2>13, <2>14, <2>15, <2>16 DEF QueueInv, ReadInv
<1> QED
  BY <1>2, <1>3, <1>4 DEF Sending
\* The end of a direct send, of a caller, of an acknowledgement.
LEMMA ReturningInOrder ==
  ASSUME Inv, QueueInv, ReadInv, Inv', NEW f \in Frames,
         Returning(f) \/ CallerCancelled(f) \/ Reply(f) \/ AckTimesOut(f)
  PROVE  QueueInv' /\ ReadInv'
<1>1. /\ call \in Callers /\ queue \in Seq(Frames) /\ queue' \in Seq(Frames)
      /\ Len(queue) <= QueueMax /\ InSeq(queue) \subseteq Frames
  <2>1. call \in Callers /\ queue \in Seq(Frames) /\ Len(queue) <= QueueMax
    BY DEF Inv, TypeOK, Callers
  <2>2. queue' \in Seq(Frames)
    BY DEF Inv, TypeOK
  <2>3. InSeq(queue) \subseteq Frames
    BY <2>1 DEF InSeq
  <2> QED
    BY <2>1, <2>2, <2>3
<1>2. CASE WriteFails(f) /\ f \in Patient
  <2> DEFINE over == Overflow(TRUE)
  <2>1. /\ call[f] = "writing" /\ queue' = Enqueued(f, TRUE)
        /\ call' = [Answer(over, "error") EXCEPT ![f] = "error"]
        /\ failed' = failed \cup {f}
        /\ UNCHANGED <<connection, flushing, pending, rejected, server, lost, displaced>>
    BY <1>2 DEF WriteFails
  <2> HIDE DEF over
  <2>2. "error" \in Answers
    BY DEF Answers
  <2>3. /\ Answer(over, "error") \in Callers
        /\ \A g \in Frames : \/ Answer(over, "error")[g] = call[g]
                             \/ call[g] = "waiting" /\ Answer(over, "error")[g] = "error"
    BY <1>1, <2>2, AnswerMoves, AnswerPoint
  <2>4. /\ call'[f] = "error"
        /\ \A g \in Frames \ {f} : \/ call'[g] = call[g]
                                   \/ call[g] = "waiting" /\ call'[g] = "error"
    BY <2>1, <2>3 DEF Callers
  <2>5. f \notin InSeq(queue) /\ \A g \in InSeq(queue) : g < f => g \in failed'
    BY <2>1 DEF QueueInv, WritingIsAhead
  <2>6. InOrder(queue, failed')
    BY <2>1 DEF QueueInv, InOrder
  <2>7. InOrder(queue', failed') /\ InSeq(queue') \subseteq InSeq(queue) \cup {f}
    <3>1. /\ InOrder(Enqueued(f, TRUE), failed')
          /\ InSeq(Enqueued(f, TRUE)) \subseteq InSeq(queue) \cup {f}
      BY <1>1, <2>5, <2>6, EnqueueInOrder
    <3> QED
      BY <2>1, <3>1
  <2>8. InSeq(queue)' = InSeq(queue') /\ InSeq(got)' = InSeq(got)
    BY <2>1 DEF InSeq
  <2>9. \A g \in Frames : call'[g] = "idle" <=> call[g] = "idle"
    BY <2>1, <2>4
  <2>10. CallsInOrder'
    BY <2>9, BegunStays
  <2>11. FreshIsNowhere'
    <3>1. \A g \in Frames : call'[g] = "idle" =>
            g \notin InSeq(queue') \cup InSeq(got) \cup {flushing}
      BY <2>1, <2>7, <2>9 DEF QueueInv, FreshIsNowhere
    <3> QED
      BY <2>1, <2>8, <3>1 DEF FreshIsNowhere
  <2>12. WritingIsAhead'
    <3>1. ASSUME NEW g \in Frames, call'[g] = "writing"
          PROVE  g \notin InSeq(queue') /\ \A h \in InSeq(queue') : h < g => h \in failed'
      <4>1. g # f /\ call[g] = "writing"
        BY <2>4, <3>1
      <4> QED
        BY <2>1, <2>7, <4>1 DEF QueueInv, WritingIsAhead
    <3> QED
      BY <2>8, <3>1 DEF WritingIsAhead
  <2>13. ReadAndQueued'
    <3>1. \A g \in InSeq(queue') \cap InSeq(got) :
            g \in failed' \cup displaced' \cup {flushing'} \/ sup' = "done"
      BY <2>1, <2>7 DEF QueueInv, ReadAndQueued
    <3> QED
      BY <2>8, <3>1 DEF ReadAndQueued
  <2>14. YoungerThanRead'
    <3>1. \A g \in InSeq(queue') \ (InSeq(got) \cup failed') : \A h \in InSeq(got) : h < g
      BY <2>1, <2>7 DEF QueueInv, YoungerThanRead
    <3> QED
      BY <2>8, <3>1 DEF YoungerThanRead
  <2>15. QueuedNotRefused'
    <3>1. \A g \in InSeq(queue') : call'[g] # "false"
      BY <1>1, <2>4, <2>7 DEF QueueInv, QueuedNotRefused
    <3> QED
      BY <2>8, <3>1 DEF QueuedNotRefused
  <2>16. FalseMeansUnsent'
    <3>1. \A g \in Frames : call'[g] = "false" /\ g \in InSeq(got) => g \in failed' \cup displaced'
      BY <2>1, <2>4 DEF ReadInv, FalseMeansUnsent
    <3> QED
      BY <2>8, <3>1 DEF FalseMeansUnsent
  <2>17. CallOrder' /\ OneCopy'
    BY <2>1 DEF ReadInv, CallOrder, OneCopy
  <2>18. InOrder(queue, failed)'
    BY <2>7 DEF InOrder
  <2> QED
    BY <2>10, <2>11, <2>12, <2>13, <2>14, <2>15, <2>16, <2>17, <2>18 DEF QueueInv, ReadInv
<1>3. CASE \/ Written(f) \/ (WriteFails(f) /\ f \notin Patient)
           \/ CallerCancelled(f) \/ Reply(f) \/ AckTimesOut(f)
  <2>1. /\ UNCHANGED <<connection, queue, flushing, got, displaced>>
        /\ failed' = failed \/ failed' = failed \cup {f}
    BY <1>3 DEF Written, WriteFails, CallerCancelled, Reply, AckTimesOut
  <2>2. /\ \A g \in Frames : call'[g] \in {"idle", "writing"} => call[g] = call'[g]
        /\ \A g \in Frames : call[g] = "idle" => call'[g] = "idle"
        /\ \A g \in Frames : call'[g] = "false" =>
             \/ call[g] = "false"
             \/ g \notin InSeq(queue') /\ g \in failed'
    <3>1. CASE Written(f)
      BY <1>1, <3>1 DEF Written, Callers
    <3>2. CASE WriteFails(f) /\ f \notin Patient
      <4>1. f \notin InSeq(queue) /\ InSeq(queue') = InSeq(queue)
        BY <2>1, <3>2 DEF WriteFails, QueueInv, WritingIsAhead
      <4> QED
        BY <1>1, <3>2, <4>1 DEF WriteFails, Callers
    <3>3. CASE CallerCancelled(f)
      BY <1>1, <3>3 DEF CallerCancelled, Callers, Unanswered
    <3>4. CASE Reply(f) \/ AckTimesOut(f)
      <4>1. call' = call \/ \E a \in {"true", "error"} : call' = Answer({f}, a)
        BY <3>4 DEF Reply, AckTimesOut
      <4>2. CASE call' = call
        BY <4>2
      <4>3. ASSUME NEW a \in {"true", "error"}, call' = Answer({f}, a)
            PROVE  \A g \in Frames : \/ call'[g] = call[g]
                                     \/ call[g] = "waiting" /\ call'[g] = a
        <5>1. a \in Answers
          BY DEF Answers
        <5> QED
          BY <1>1, <4>3, <5>1, AnswerPoint
      <4>4. \A g \in Frames : \/ call'[g] = call[g]
                              \/ call[g] = "waiting" /\ call'[g] \in {"true", "error"}
        BY <4>1, <4>2, <4>3
      <4> QED
        BY <4>4
    <3> QED
      BY <1>3, <3>1, <3>2, <3>3, <3>4
  <2>3. CallsInOrder'
    BY <2>2, BegunStays
  <2>4. InOrder(queue', failed') /\ InSeq(queue') = InSeq(queue)
    BY <2>1 DEF QueueInv, InOrder
  <2> QED
    BY <1>1, <2>1, <2>2, <2>3, <2>4, QuietKeeps
<1> QED
  BY <1>2, <1>3 DEF Returning

\* What happens to the connection sends nothing, and takes from the queue only
\* when the client stops.
LEMMA LifecycleInOrder ==
  ASSUME Inv, QueueInv, ReadInv, Inv', Lifecycle \/ FlushFails \/ \E c \in Chats : ChatGate(c)
  PROVE  QueueInv' /\ ReadInv'
<1>1. /\ call \in Callers /\ queue \in Seq(Frames) /\ queue' \in Seq(Frames)
  BY DEF Inv, TypeOK, Callers
<1>2. /\ got' = got /\ failed \subseteq failed' /\ displaced' = displaced
      /\ sup = "done" => sup' = "done"
  BY DEF Lifecycle, FlushFails, ChatGate, Connect, HelloOk, Teardown, Away, AwayCloses, Resume,
         GiveUp, StopBegins, StopEnds, Break
<1>3. \/ flushing' = flushing
      \/ flushing' = NoFrame /\ (sup' = "done" \/ flushing \in failed' \/ queue' = <<>>)
  <2>1. CASE FlushFails
    BY <2>1 DEF FlushFails
  <2>2. CASE StopEnds
    BY <2>2 DEF StopEnds
  <2>3. CASE ~FlushFails /\ ~StopEnds
    BY <2>3 DEF Lifecycle, ChatGate, Connect, HelloOk, Teardown, Away, AwayCloses, Resume,
                GiveUp, StopBegins, Break
  <2> QED
    BY <2>1, <2>2, <2>3
<1>4. \A g \in Frames : call'[g] = call[g] \/ (call[g] = "waiting" /\ call'[g] = "error")
  <2>1. call' = call \/ \E F : call' = Answer(F, "error")
    BY DEF Lifecycle, FlushFails, ChatGate, Connect, HelloOk, Teardown, Away, AwayCloses, Resume,
           GiveUp, StopBegins, StopEnds, Break
  <2>2. "error" \in Answers
    BY DEF Answers
  <2> QED
    BY <1>1, <2>1, <2>2, AnswerPoint
<1>5. CallsInOrder'
  <2>1. \A g \in Frames : call'[g] = "idle" <=> call[g] = "idle"
    BY <1>4
  <2> QED
    BY <2>1, BegunStays
<1>6. InOrder(queue', failed) /\ InSeq(queue') \subseteq InSeq(queue)
  <2>1. InOrder(queue, failed)
    BY DEF QueueInv
  <2>2. CASE StopBegins
    <3>1. PICK n \in 0..Len(queue) : \E keep \in [1..n -> 1..Len(queue)] :
            /\ \A i, j \in 1..n : i < j => keep[i] < keep[j]
            /\ queue' = [i \in 1..n |-> queue[keep[i]]]
      BY <2>2 DEF StopBegins, DropAwaited
    <3>2. PICK keep \in [1..n -> 1..Len(queue)] :
            /\ \A i, j \in 1..n : i < j => keep[i] < keep[j]
            /\ queue' = [i \in 1..n |-> queue[keep[i]]]
      BY <3>1
    <3>3. Len(queue') = n /\ \A i \in 1..n : queue'[i] = queue[keep[i]]
      <4>1. n \in Nat /\ \A i \in 1..n : queue[keep[i]] \in Frames
        BY <1>1
      <4>2. Len([i \in 1..n |-> queue[keep[i]]]) = n
        BY <4>1, IsASeq
      <4> QED
        BY <3>2, <4>2
    <3> QED
      BY <1>1, <2>1, <3>2, <3>3, PartInOrder
  <2>3. CASE ~StopBegins
    <3>1. queue' = queue
      BY <2>3 DEF Lifecycle, FlushFails, ChatGate, Connect, HelloOk, Teardown, Away, AwayCloses,
                  Resume, GiveUp, StopEnds, Break
    <3> QED
      BY <2>1, <3>1
  <2> QED
    BY <2>2, <2>3
<1>7. InOrder(queue', failed')
  BY <1>2, <1>6 DEF InOrder
<1> QED
  BY <1>1, <1>2, <1>3, <1>4, <1>5, <1>6, <1>7, QuietKeeps
\* The flush goes on from a queue q that holds no frame it has just sent.
LEMMA FlushFromInOrder ==
  ASSUME Inv, QueueInv, ReadInv, Inv', NEW q \in Seq(Frames), NEW n \in 0..Len(q), FlushFrom(q, n),
         InOrder(q, failed), InSeq(q) \subseteq InSeq(queue),
         failed' = failed, displaced \subseteq displaced',
         \A f \in InSeq(q) : f \in InSeq(got) => f \in failed \cup displaced'
  PROVE  QueueInv' /\ ReadInv'
<1> DEFINE skipped == {q[i] : i \in 1..n}
<1>1. /\ call \in Callers /\ queue' \in Seq(Frames) /\ got \in Seq(Frames)
      /\ InSeq(queue) \subseteq Frames /\ InSeq(q) \subseteq Frames
      /\ n \in Nat /\ Len(q) \in Nat /\ n <= Len(q)
  <2>1. /\ call \in Callers /\ queue' \in Seq(Frames) /\ got \in Seq(Frames)
        /\ queue \in Seq(Frames)
    BY DEF Inv, TypeOK, Callers
  <2>2. n \in Nat /\ Len(q) \in Nat /\ n <= Len(q)
    OBVIOUS
  <2>3. InSeq(queue) \subseteq Frames
    BY <2>1 DEF InSeq
  <2> QED
    BY <2>1, <2>2, <2>3
<1>2. queue' = SubSeq(q, n + 1, Len(q)) /\ call' = Answer(skipped, "false")
  BY DEF FlushFrom
<1>3. /\ Len(queue') = Len(q) - n
      /\ \A i \in 1..Len(queue') : queue'[i] = q[n + i]
      /\ InOrder(queue', failed) /\ InSeq(queue') \subseteq InSeq(q)
  BY <1>2, SuffixInOrder
<1>4. \A f \in Frames : \/ call'[f] = call[f]
                        \/ f \in skipped /\ call[f] = "waiting" /\ call'[f] = "false"
  <2>1. "false" \in Answers
    BY DEF Answers
  <2> HIDE DEF skipped
  <2> QED
    BY <1>1, <1>2, <2>1, AnswerPoint
<1>5. skipped \subseteq InSeq(q)
  <2>1. 1..n \subseteq 1..Len(q)
    BY <1>1
  <2> QED
    BY <2>1 DEF InSeq
<1>6. skipped \cap InSeq(queue') = {}
  <2>1. ASSUME NEW i \in 1..n, NEW k \in 1..Len(queue'), q[i] = queue'[k] PROVE FALSE
    <3>1. n + k \in 1..Len(q) /\ i \in 1..Len(q) /\ i < n + k /\ queue'[k] = q[n + k]
      BY <1>1, <1>3
    <3> QED
      BY <2>1, <3>1 DEF InOrder
  <2> QED
    BY <2>1 DEF InSeq
<1> HIDE DEF skipped
<1>7. CallsInOrder'
  <2>1. \A f \in Frames : call'[f] = "idle" <=> call[f] = "idle"
    BY <1>4
  <2> QED
    BY <2>1, BegunStays
<1>8. InOrder(queue, failed)'
  BY <1>3 DEF InOrder
<1>9. InSeq(queue)' = InSeq(queue') /\ InSeq(got)' = InSeq(got')
  BY DEF InSeq
<1>10. WritingIsAhead'
  <2>1. \A f \in Frames : call'[f] = "writing" =>
          f \notin InSeq(queue') /\ \A g \in InSeq(queue') : g < f => g \in failed'
    BY <1>3, <1>4 DEF QueueInv, WritingIsAhead
  <2> QED
    BY <1>9, <2>1 DEF WritingIsAhead
<1>11. QueuedNotRefused'
  <2>1. \A f \in InSeq(queue') : call'[f] # "false"
    BY <1>1, <1>3, <1>4, <1>6 DEF QueueInv, QueuedNotRefused
  <2> QED
    BY <1>9, <2>1 DEF QueuedNotRefused
<1>12. CASE n < Len(q)
  <2> DEFINE h == q[n + 1]
  <2>1. h \in Frames /\ flushing' = h /\ Handed(h)
    BY <1>1, <1>12 DEF FlushFrom
  <2>2. 1 \in 1..Len(queue') /\ queue'[1] = h /\ h \in InSeq(queue')
    BY <1>1, <1>3, <1>12 DEF InSeq
  <2> HIDE DEF h
  <2>3. h \in InSeq(q) /\ h \in InSeq(queue)
    BY <1>3, <2>2
  <2>4. /\ got' = got \/ got' = Append(got, h)
        /\ InSeq(got) \subseteq InSeq(got') /\ InSeq(got') \subseteq InSeq(got) \cup {h}
    BY <1>1, <2>1, HandedReads
  <2>5. h \notin InSeq(got) \cup failed' => \A g \in InSeq(got) : g < h
    BY <2>3 DEF QueueInv, YoungerThanRead
  <2>6. CallOrder' /\ OneCopy'
    BY <1>1, <2>1, <2>3, <2>4, <2>5, HandedInOrder DEF ReadInv
  <2>7. FreshIsNowhere'
    <3>1. \A f \in Frames : call'[f] = "idle" =>
            f \notin InSeq(queue') \cup InSeq(got') \cup {flushing'}
      BY <1>3, <1>4, <2>1, <2>3, <2>4 DEF QueueInv, FreshIsNowhere
    <3> QED
      BY <1>9, <3>1 DEF FreshIsNowhere
  <2>8. ReadAndQueued'
    <3>1. \A f \in InSeq(queue') \cap InSeq(got') :
            f \in failed' \cup displaced' \cup {flushing'} \/ sup' = "done"
      BY <1>3, <2>1, <2>4
    <3> QED
      BY <1>9, <3>1 DEF ReadAndQueued
  <2>9. YoungerThanRead'
    <3>1. ASSUME NEW f \in InSeq(queue') \ (InSeq(got') \cup failed'), NEW g \in InSeq(got')
          PROVE  g < f
      <4>1. CASE g \in InSeq(got)
        BY <1>3, <2>4, <3>1, <4>1 DEF QueueInv, YoungerThanRead
      <4>2. CASE g \notin InSeq(got)
        <5>1. g = h /\ f # h
          BY <2>4, <3>1, <4>2
        <5>2. PICK k \in 1..Len(queue') : queue'[k] = f
          BY <3>1 DEF InSeq
        <5>3. 1 < k
          BY <2>2, <5>1, <5>2
        <5>4. ~(f < h)
          BY <1>3, <2>2, <3>1, <5>2, <5>3 DEF InOrder
        <5>5. f \in Int /\ h \in Int
          BY <1>1, <1>3, <2>1, <3>1, FramesAreNumbers
        <5> QED
          BY <5>1, <5>4, <5>5
      <4> QED
        BY <4>1, <4>2
    <3> QED
      BY <1>9, <3>1 DEF YoungerThanRead
  <2>10. FalseMeansUnsent'
    <3>1. ASSUME NEW f \in Frames, call'[f] = "false", f \in InSeq(got')
          PROVE  f \in failed' \cup displaced'
      <4>1. f # h
        BY <1>11, <1>9, <2>2, <3>1 DEF QueuedNotRefused
      <4>2. f \in InSeq(got)
        BY <2>4, <3>1, <4>1
      <4> QED
        BY <1>4, <1>5, <3>1, <4>2 DEF ReadInv, FalseMeansUnsent
    <3> QED
      BY <1>9, <3>1 DEF FalseMeansUnsent
  <2> QED
    BY <1>7, <1>8, <1>10, <1>11, <2>6, <2>7, <2>8, <2>9, <2>10 DEF QueueInv, ReadInv
<1>13. CASE ~(n < Len(q))
  <2>1. got' = got /\ flushing' = NoFrame /\ Len(queue') = 0
    BY <1>1, <1>3, <1>13 DEF FlushFrom
  <2>2. InSeq(queue') = {} /\ InSeq(got') = InSeq(got)
    BY <2>1 DEF InSeq
  <2>3. FreshIsNowhere'
    <3>1. NoFrame \notin Frames
      BY DEF FramesAssumption
    <3>2. \A f \in Frames : call'[f] = "idle" =>
            f \notin InSeq(queue') \cup InSeq(got') \cup {flushing'}
      BY <1>4, <2>1, <2>2, <3>1 DEF QueueInv, FreshIsNowhere
    <3> QED
      BY <1>9, <3>2 DEF FreshIsNowhere
  <2>4. ReadAndQueued' /\ YoungerThanRead'
    BY <1>9, <2>2 DEF ReadAndQueued, YoungerThanRead
  <2>5. FalseMeansUnsent'
    <3>1. \A f \in Frames : call'[f] = "false" /\ f \in InSeq(got) => f \in failed' \cup displaced'
      BY <1>4, <1>5 DEF ReadInv, FalseMeansUnsent
    <3> QED
      BY <1>9, <2>2, <3>1 DEF FalseMeansUnsent
  <2>6. CallOrder' /\ OneCopy'
    BY <2>1 DEF ReadInv, CallOrder, OneCopy
  <2> QED
    BY <1>7, <1>8, <1>10, <1>11, <2>3, <2>4, <2>5, <2>6 DEF QueueInv, ReadInv
<1> QED
  BY <1>12, <1>13

\* The flush sends the queue from its head.  A frame it has sent either leaves
\* the queue or, when the head has changed meanwhile, is known as displaced.
LEMMA FlushInOrder ==
  ASSUME Inv, QueueInv, ReadInv, Inv', FlushStarts \/ FlushSent
  PROVE  QueueInv' /\ ReadInv'
<1>1. queue \in Seq(Frames) /\ Len(queue) \in Nat /\ InOrder(queue, failed) /\ NoFrame \notin Frames
  BY DEF Inv, TypeOK, QueueInv, FramesAssumption
<1>2. CASE FlushStarts
  <2>1. PICK n \in 0..Len(queue) : FlushFrom(queue, n)
    BY <1>2 DEF FlushStarts
  <2>2. /\ sup = "recover" /\ flushing = NoFrame
        /\ failed' = failed /\ displaced' = displaced
    BY <1>2 DEF FlushStarts, Inv, TypeOK
  <2>3. \A f \in InSeq(queue) : f \in InSeq(got) => f \in failed \cup displaced'
    BY <1>1, <2>2 DEF QueueInv, ReadAndQueued, InSeq
  <2> QED
    BY <1>1, <2>1, <2>2, <2>3, FlushFromInOrder
<1>3. CASE FlushSent
  <2> DEFINE q == Tail(queue)
             h == Head(queue)
  <2>1. /\ sup = "flush" /\ queue # <<>> /\ failed' = failed
        /\ displaced' = IF h # flushing THEN displaced \cup {flushing} ELSE displaced
        /\ \E n \in 0..(Len(queue) - 1) : FlushFrom(q, n)
    BY <1>3 DEF FlushSent
  <2>2. /\ q = SubSeq(queue, 1 + 1, Len(queue)) /\ h = queue[1]
        /\ 1 \in 0..Len(queue) /\ 1 \in 1..Len(queue)
    BY <1>1, <2>1, TailIsSubSeq, HeadTailProperties
  <2> HIDE DEF q, h
  <2>3. /\ q \in Seq(Frames) /\ Len(q) = Len(queue) - 1
        /\ \A i \in 1..Len(q) : q[i] = queue[1 + i]
        /\ InOrder(q, failed) /\ InSeq(q) \subseteq InSeq(queue)
    <3> DEFINE n == 1
               m == n + 1
               t == SubSeq(queue, m, Len(queue))
    <3>1. n \in 0..Len(queue) /\ q = t
      BY <2>2
    <3>2. /\ t \in Seq(Frames) /\ Len(t) = Len(queue) - n
          /\ \A i \in 1..Len(t) : t[i] = queue[n + i]
          /\ InOrder(t, failed) /\ InSeq(t) \subseteq InSeq(queue)
      BY <1>1, <3>1, SuffixInOrder
    <3> HIDE DEF t
    <3> QED
      BY <3>1, <3>2
  <2>4. h \notin InSeq(q)
    <3>1. ASSUME NEW i \in 1..Len(q), q[i] = h PROVE FALSE
      <4>1. 1 + i \in 1..Len(queue) /\ 1 < 1 + i
        BY <1>1, <2>3
      <4> QED
        BY <1>1, <2>2, <2>3, <3>1, <4>1 DEF InOrder
    <3> QED
      BY <3>1 DEF InSeq
  <2>5. PICK n \in 0..Len(q) : FlushFrom(q, n)
    BY <2>1, <2>3
  <2>6. \A f \in InSeq(q) : f \in InSeq(got) => f \in failed \cup displaced'
    BY <2>1, <2>3, <2>4 DEF QueueInv, ReadAndQueued
  <2> QED
    BY <2>1, <2>3, <2>5, <2>6, FlushFromInOrder
<1> QED
  BY <1>2, <1>3

SafeInv == Inv /\ QueueInv /\ ReadInv

LEMMA InitInOrder == Init => QueueInv /\ ReadInv
<1> SUFFICES ASSUME Init PROVE QueueInv /\ ReadInv
  OBVIOUS
<1>1. /\ InSeq(queue) = {} /\ InSeq(got) = {} /\ flushing = NoFrame /\ NoFrame \notin Frames
      /\ Len(queue) = 0 /\ Len(got) = 0 /\ \A f \in Frames : call[f] = "idle"
  BY DEF Init, InSeq, FramesAssumption
<1>2. QueueInv
  BY <1>1 DEF QueueInv, CallsInOrder, FreshIsNowhere, WritingIsAhead, InOrder, ReadAndQueued,
              YoungerThanRead, QueuedNotRefused
<1>3. ReadInv
  BY <1>1 DEF ReadInv, FalseMeansUnsent, CallOrder, OneCopy
<1> QED
  BY <1>2, <1>3

LEMMA NextInOrder == SafeInv /\ [Next]_vars => SafeInv'
<1> SUFFICES ASSUME SafeInv, [Next]_vars PROVE SafeInv'
  OBVIOUS
<1>1. Inv /\ Inv' /\ QueueInv /\ ReadInv
  BY NextKeeps DEF SafeInv
<1>2. ASSUME NEW f \in Frames,
             Sending(f) \/ Returning(f) \/ CallerCancelled(f) \/ Reply(f) \/ AckTimesOut(f)
      PROVE  QueueInv' /\ ReadInv'
  BY <1>1, <1>2, SendingInOrder, ReturningInOrder
<1>3. CASE Flush
  BY <1>1, <1>3, FlushInOrder, LifecycleInOrder DEF Flush, SafeInv
<1>4. CASE Lifecycle \/ \E c \in Chats : ChatGate(c)
  BY <1>1, <1>4, LifecycleInOrder DEF SafeInv
<1>5. CASE UNCHANGED vars
  <2>1. QueueInv'
    BY <1>1, <1>5 DEF QueueInv, CallsInOrder, FreshIsNowhere, WritingIsAhead, InOrder,
                      ReadAndQueued, YoungerThanRead, QueuedNotRefused, InSeq
  <2>2. ReadInv'
    BY <1>1, <1>5 DEF ReadInv, FalseMeansUnsent, CallOrder, OneCopy, InSeq
  <2> QED
    BY <1>1, <2>1, <2>2 DEF SafeInv
<1> QED
  BY <1>1, <1>2, <1>3, <1>4, <1>5 DEF Next, SafeInv

\* Whatever reconnects, failed sends and stops do: each caller is owned, True
\* and False tell what the server read, and the server reads frames in the
\* order of their calls and once, but for the exceptions the parts name.
THEOREM QueueIsSafe == Spec => []QueueSafe
<1>1. Init => SafeInv
  BY InitHolds, InitInOrder DEF SafeInv
<1>2. SafeInv => QueueSafe
  BY DEF SafeInv, Inv, ReadInv, QueueSafe
<1> QED
  BY <1>1, <1>2, NextInOrder, PTL DEF Spec
=============================================================================
