---------------------------- MODULE Replies ----------------------------
(***************************************************************************)
(* How one direct chat's replies leave the adapter (adapter.py: send,      *)
(* edit_message, on_run_complete, on_run_failed and the reply streaming of *)
(* docs/client-integration.md section 8).                                  *)
(*                                                                         *)
(* The host writes a reply as a run: an intermediate send opens it under a *)
(* new message id, edits carry the text so far, the last edit finalizes    *)
(* it.  Every frame is awaited, so the coroutine that sweeps the replies   *)
(* the host left unfinished, and a host that cancels its own writer, act   *)
(* between the frames of one call.                                         *)
(*                                                                         *)
(* A text is one of a few members: "a" and "ab" (ab extends a), "x" which  *)
(* extends neither, "hold" which may still turn into a no-reply token or a *)
(* status line, "silent" which holds the token, "none".                    *)
(***************************************************************************)
EXTENDS Naturals, Sequences, FiniteSets

CONSTANTS
  Runs,          \* message ids a reply can be opened under
  Sweepers,      \* sweeps that can be scheduled, one per stop_typing
  Streaming,     \* stream_replies is on and the chat is direct
  MaxEdits,      \* texts the host writes in one reply
  MaxFailures,   \* reply frames that are dropped or raise
  MaxMarks,      \* terminal sends a tool makes in the chat
  NoRun

Texts == {"none", "hold", "a", "ab", "x", "silent"}
Tasks == {"host"} \cup Sweepers

VARIABLES
  run,        \* _active_runs_by_id and _completed_run_ids, one record per id
  task,       \* what each coroutine awaits
  writing,    \* the run the host's stream consumer is writing, or NoRun
  ledger,     \* the outbound row of an id: "none", "claimed", "error", "sent"
  wire,       \* the frames put on the wire under an id, in order
  recent,     \* texts inside the duplicate window (_recent_emits)
  marked,     \* a terminal send stands for the turn's reply
  edits, failures, marks,   \* bounds
  acked,      \* ids whose reply frame was acknowledged
  hushed,     \* ids the host finalized with the no-reply token
  torn        \* ids one of whose calls raised or was cancelled, or that were
              \* swept while one of their stream frames was being written

vars == <<run, task, writing, ledger, wire, recent, marked, edits, failures, marks,
          acked, hushed, torn>>


Extends(t, u) == u = "none" \/ t = u \/ (u = "a" /\ t \in {"ab", "silent"})

\* A coroutine at rest.  todo: the ids a sweep has still to look at.
AtRest(k) == [pc |-> IF k = "host" THEN "idle" ELSE "unused",
              run |-> NoRun, text |-> "none", then |-> "none", todo |-> {}]

Init ==
  /\ run = [r \in Runs |-> [st |-> "none", text |-> "none", streamed |-> "none",
                            open |-> FALSE, failed |-> FALSE]]
  /\ task = [k \in Tasks |-> AtRest(k)]
  /\ writing = NoRun
  /\ ledger = [r \in Runs |-> "none"]
  /\ wire = [r \in Runs |-> <<>>]
  /\ recent = {} /\ marked = FALSE
  /\ edits = 0 /\ failures = 0 /\ marks = 0
  /\ acked = {} /\ hushed = {} /\ torn = {}

(***************************************************************************)
(* Pieces the calls are made of                                            *)
(***************************************************************************)
Put(r, f, t) == wire' = [wire EXCEPT ![r] = Append(@, [f |-> f, t |-> t])]

Await(k, pc, r, t, then) ==
  task' = [task EXCEPT ![k] = [@ EXCEPT !.pc = pc, !.run = r, !.text = t, !.then = then]]

Return(k, r) ==
  task' = [task EXCEPT ![k] = [AtRest("host") EXCEPT !.todo = task[k].todo \ {r}]]

Active(r) == run[r].st = "active"
Unused(r) == run[r].st = "none" /\ wire[r] = <<>> /\ ledger[r] = "none"

\* Mutant of Retire: the run is dropped and its stream left open.
RetireQuietly(k, r, then, runs) ==
  run' = [runs EXCEPT ![r].st = "completed"] /\ Return(k, r) /\ UNCHANGED wire

\* _retire_run: an open stream is failed first, the run discarded after it.
Retire(k, r, then, runs) ==
  \/ /\ run[r].open
     /\ Put(r, "failed", run[r].streamed)
     /\ Await(k, "failing", r, "none", then)
     /\ run' = runs
  \/ /\ ~run[r].open
     /\ run' = [runs EXCEPT ![r].st = "completed"]
     /\ Return(k, r)
     /\ UNCHANGED wire

\* _should_stream and the texts _stream_update holds back.
Streams(r, t) ==
  Streaming /\ ~run[r].failed /\ t \notin {"none", "hold", "silent", run[r].streamed}

\* _stream_update up to its first await; the run's text is t already.
StreamUpdate(k, r, t) ==
  \/ /\ ~Streams(r, t)
     /\ Return(k, r) /\ UNCHANGED wire
  \/ /\ Streams(r, t) /\ run[r].open /\ ~Extends(t, run[r].streamed)
     /\ Put(r, "failed", run[r].streamed)
     /\ Await(k, "failing", r, t, "none")
  \/ /\ Streams(r, t) /\ run[r].open /\ Extends(t, run[r].streamed)
     /\ Put(r, "add", t)
     /\ Await(k, "adding", r, t, "none")
  \/ /\ Streams(r, t) /\ ~run[r].open
     /\ Put(r, "created", "none")
     /\ Await(k, "creating", r, t, "none")

\* _stream_finish, then the reply frame or the discard.
Finish(k, r, t, then, runs) ==
  \/ /\ run[r].open
     /\ Put(r, "done", t)
     /\ Await(k, "closing", r, t, then)
     /\ run' = runs
  \/ /\ ~run[r].open /\ then = "reply"
     /\ Put(r, "reply", t)
     /\ Await(k, "sending", r, t, "complete")
     /\ run' = runs
  \/ /\ ~run[r].open /\ then = "discard"
     /\ run' = [runs EXCEPT ![r].st = "completed"]
     /\ Return(k, r)
     /\ UNCHANGED wire

\* Mutant of Claim: the row is written whether there is one or not.
ClaimAlways(r) == TRUE

\* _claim_outbound_message: the row of an id is inserted once.
Claim(r) == ledger[r] = "none"

\* What of the final text goes out: the run's own when the host gave none.
Final(r, t, runs) == IF t = "none" THEN runs[r].text ELSE t

\* Mutant of Unsaid: a token that first appears in the final text is missed.
UnsaidDraft(r, t, runs) ==
  \/ Final(r, t, runs) = "none"
  \/ runs[r].text = "none" /\ t \in {"hold", "silent"}
  \/ Final(r, t, runs) \in recent

\* Nothing of the final text may go out (the token, an empty text, a text
\* still held when nothing else was written, the same text a moment ago).
Unsaid(r, t, runs) ==
  \/ Final(r, t, runs) \in {"none", "silent"}
  \/ runs[r].text = "none" /\ t = "hold"
  \/ Final(r, t, runs) \in recent

\* on_run_complete with an active run and no terminal marker.
Complete(k, r, t, runs) ==
  \/ /\ Unsaid(r, t, runs)
     /\ Retire(k, r, "discard", runs)
     /\ UNCHANGED <<ledger, failures>>
  \/ /\ ~Unsaid(r, t, runs) /\ Claim(r)
     /\ ledger' = [ledger EXCEPT ![r] = "claimed"]
     /\ Finish(k, r, Final(r, t, runs), "reply", runs)
     /\ UNCHANGED failures
  \/ /\ ~Unsaid(r, t, runs) /\ ~Claim(r)
     /\ Finish(k, r, Final(r, t, runs), "discard", runs)
     /\ UNCHANGED <<ledger, failures>>
  \/ \* the claim could not be decided: the run stays
     /\ ~Unsaid(r, t, runs) /\ failures < MaxFailures
     /\ failures' = failures + 1
     /\ Return(k, r)
     /\ run' = runs
     /\ UNCHANGED <<wire, ledger>>

\* A terminal send swallows the call; the run it was for is retired.
Swallowed(k, r) ==
  /\ marked
  /\ marked' = FALSE
  /\ \/ Active(r) /\ Retire(k, r, "discard", run)
     \/ ~Active(r) /\ Return(k, r) /\ UNCHANGED <<run, wire>>
  /\ UNCHANGED <<ledger, failures>>

(***************************************************************************)
(* The host's stream consumer: one call at a time                          *)
(***************************************************************************)
HostIdle == task["host"].pc = "idle"

\* send of an intermediate text: it opens a run, unless a terminal send or
\* the token swallows it (then nothing is opened).
Open(r, t) ==
  /\ HostIdle /\ writing = NoRun /\ Unused(r) /\ ~marked /\ t # "silent"
  /\ writing' = r
  /\ run' = [run EXCEPT ![r].st = "active", ![r].text = t]
  /\ edits' = 1
  /\ StreamUpdate("host", r, t)
  /\ UNCHANGED <<ledger, recent, marked, failures, marks, acked, hushed, torn>>

OpenSwallowed ==
  /\ HostIdle /\ writing = NoRun /\ marked
  /\ marked' = FALSE
  /\ UNCHANGED <<run, task, writing, ledger, wire, recent, edits, failures, marks,
                 acked, hushed, torn>>

\* edit_message without finalize.
Edit(t) ==
  LET r == writing IN
  /\ HostIdle /\ r # NoRun /\ edits < MaxEdits
  /\ t # "none" /\ t # run[r].text
  /\ edits' = edits + 1
  /\ \/ Swallowed("host", r)
     \/ /\ ~marked /\ Active(r) /\ t = "silent"
        /\ Retire("host", r, "discard", run)
        /\ UNCHANGED <<ledger, failures, marked>>
     \/ /\ ~marked /\ Active(r) /\ t = "hold" /\ run[r].text = "none"
        /\ UNCHANGED <<run, task, wire, ledger, failures, marked>>
     \/ /\ ~marked /\ Active(r) /\ t # "silent" /\ ~(t = "hold" /\ run[r].text = "none")
        /\ run' = [run EXCEPT ![r].text = t]
        /\ StreamUpdate("host", r, t)
        /\ UNCHANGED <<ledger, failures, marked>>
  /\ hushed' = IF t = "silent" THEN hushed \cup {r} ELSE hushed \ {r}
  /\ UNCHANGED <<writing, recent, marks, acked, torn>>

\* edit_message with finalize: the token retires the run, any other text
\* becomes the run's and on_run_complete follows.
Finalize(t) ==
  LET r == writing
      written == [run EXCEPT ![r].text = t]
  IN
  /\ HostIdle /\ r # NoRun
  /\ writing' = NoRun
  /\ \/ Swallowed("host", r)
     \/ /\ ~marked /\ ~Active(r)
        /\ UNCHANGED <<run, task, wire, ledger, failures, marked>>
     \/ /\ ~marked /\ Active(r)
        /\ (t = "silent" \/ (t = "hold" /\ run[r].text = "none"))
        /\ Retire("host", r, "discard", run)
        /\ UNCHANGED <<ledger, failures, marked>>
     \/ /\ ~marked /\ Active(r)
        /\ ~(t = "silent" \/ (t = "hold" /\ run[r].text = "none"))
        /\ Complete("host", r, t, written)
        /\ UNCHANGED marked
  /\ hushed' = IF t = "silent" THEN hushed \cup {r} ELSE hushed \ {r}
  /\ UNCHANGED <<recent, edits, marks, acked, torn>>

\* on_run_complete called by the host: without a text the run's own goes out.
RunComplete(t) ==
  LET r == writing IN
  /\ HostIdle /\ r # NoRun
  /\ writing' = NoRun
  /\ \/ Swallowed("host", r)
     \/ /\ ~marked /\ ~Active(r)
        /\ UNCHANGED <<run, task, wire, ledger, failures, marked>>
     \/ ~marked /\ Active(r) /\ Complete("host", r, t, run) /\ UNCHANGED marked
  /\ hushed' = IF Final(r, t, run) = "silent" THEN hushed \cup {r} ELSE hushed \ {r}
  /\ UNCHANGED <<recent, edits, marks, acked, torn>>

\* on_run_failed: an open stream is withdrawn and the owner told it broke off.
Fail ==
  LET r == writing IN
  /\ HostIdle /\ r # NoRun
  /\ writing' = NoRun
  /\ \/ Active(r) /\ Retire("host", r, "notice", run)
     \/ ~Active(r) /\ UNCHANGED <<run, task, wire>>
  /\ UNCHANGED <<ledger, recent, marked, edits, failures, marks, acked, hushed, torn>>

\* send of a whole text: no run, the same claim.
SendWhole(r, t) ==
  /\ HostIdle /\ writing = NoRun /\ Unused(r) /\ ~marked
  /\ t \notin {"none", "silent"} \cup recent
  /\ ledger' = [ledger EXCEPT ![r] = "claimed"]
  /\ Put(r, "reply", t)
  /\ Await("host", "sending", r, t, "send")
  /\ UNCHANGED <<run, writing, recent, marked, edits, failures, marks, acked, hushed, torn>>

\* The host's delivery ledger resends a reply whose send did not succeed; the
\* earlier attempt's id is found by its text and used again without a claim.
Attempted(r) == {wire[r][i].t : i \in {j \in 1..Len(wire[r]) : wire[r][j].f = "reply"}}

Redeliver(r, t) ==
  /\ HostIdle /\ writing = NoRun /\ ~marked
  /\ ledger[r] \in {"claimed", "error"} /\ r \notin acked /\ t \in Attempted(r) \ recent
  /\ \A k \in Tasks : task[k].run # r
  /\ \A j \in 1..Len(wire[r]) : wire[r][j].f # "again"
  /\ ledger' = [ledger EXCEPT ![r] = "claimed"]
  /\ Put(r, "again", t)
  /\ Await("host", "sending", r, t, "send")
  /\ UNCHANGED <<run, writing, recent, marked, edits, failures, marks, acked, hushed, torn>>

\* /stop and /new cancel the writer where it waits, and a frame whose write
\* fails is queued and raises: the run is left as it is.
Broken(k) ==
  /\ task[k].pc \notin {"unused", "idle", "noticing"}
  /\ failures < MaxFailures
  /\ failures' = failures + 1
  /\ Return(k, task[k].run)
  /\ torn' = torn \cup {task[k].run}
  /\ writing' = IF k = "host" THEN NoRun ELSE writing
  /\ UNCHANGED <<run, ledger, wire, recent, marked, edits, marks, acked, hushed>>

\* The writer is abandoned between two calls.
Abandon ==
  /\ HostIdle /\ writing # NoRun
  /\ writing' = NoRun
  /\ UNCHANGED <<run, task, ledger, wire, recent, marked, edits, failures, marks, acked, hushed, torn>>

(***************************************************************************)
(* Where a call goes on after a frame                                      *)
(***************************************************************************)
Others == UNCHANGED <<writing, marked, edits, marks, hushed, torn>>

Created(k) ==
  LET r == task[k].run IN
  /\ task[k].pc = "creating"
  /\ run' = [run EXCEPT ![r].open = TRUE]
  /\ Put(r, "add", task[k].text)
  /\ Await(k, "adding", r, task[k].text, "none")
  /\ Others /\ UNCHANGED <<ledger, recent, failures, acked>>

Added(k) ==
  LET r == task[k].run IN
  /\ task[k].pc = "adding"
  /\ run' = [run EXCEPT ![r].streamed = task[k].text]
  /\ Return(k, r)
  /\ Others /\ UNCHANGED <<ledger, wire, recent, failures, acked>>

\* _stream_fail after its frame; then the run is discarded when it was retired.
StreamFailed(k) ==
  LET r == task[k].run
      closed == [run EXCEPT ![r].open = FALSE, ![r].failed = TRUE]
  IN
  /\ task[k].pc = "failing"
  /\ run' = IF task[k].then = "none" THEN closed ELSE [closed EXCEPT ![r].st = "completed"]
  /\ IF task[k].then = "notice"
     THEN Put(r, "notice", "none") /\ Await(k, "noticing", r, "none", "none")
     ELSE Return(k, r) /\ UNCHANGED wire
  /\ Others /\ UNCHANGED <<ledger, recent, failures, acked>>

Noticed(k) ==
  /\ task[k].pc = "noticing"
  /\ Return(k, task[k].run)
  /\ Others /\ UNCHANGED <<run, ledger, wire, recent, failures, acked>>

StreamDone(k) ==
  LET r == task[k].run IN
  /\ task[k].pc = "closing"
  /\ \/ /\ task[k].then = "reply"
        /\ run' = [run EXCEPT ![r].open = FALSE]
        /\ Put(r, "reply", task[k].text)
        /\ Await(k, "sending", r, task[k].text, "complete")
     \/ /\ task[k].then = "discard"
        /\ run' = [run EXCEPT ![r].open = FALSE, ![r].st = "completed"]
        /\ Return(k, r)
        /\ UNCHANGED wire
  /\ Others /\ UNCHANGED <<ledger, recent, failures, acked>>

\* The reply was acknowledged: recorded, and a run's own reply retires it.
Sent(k) ==
  LET r == task[k].run IN
  /\ task[k].pc = "sending"
  /\ acked' = acked \cup {r}
  /\ recent' = recent \cup {task[k].text}
  /\ ledger' = [ledger EXCEPT ![r] = "sent"]
  /\ IF task[k].then = "complete"
     THEN Retire(k, r, "discard", run)
     ELSE Return(k, r) /\ UNCHANGED <<run, wire>>
  /\ Others /\ UNCHANGED failures

\* Dropped (the row becomes an error) or raised (the row stays as claimed).
NotSent(k) ==
  LET r == task[k].run IN
  /\ task[k].pc = "sending" /\ failures < MaxFailures
  /\ failures' = failures + 1
  /\ ledger' \in {[ledger EXCEPT ![r] = "error"], ledger}
  /\ Return(k, r)
  /\ Others /\ UNCHANGED <<run, wire, recent, acked>>

(***************************************************************************)
(* Sweeps, terminal sends, time                                            *)
(***************************************************************************)
Unfinished == {r \in Runs : Active(r) /\ (run[r].open \/ run[r].text # "none")}

\* stop_typing: the runs that exist now, looked at when the grace is over.
\* The host ends its writer before the turn's typing stops.
ScheduleSweep(k) ==
  /\ k \in Sweepers /\ task[k].pc = "unused"
  /\ Streaming /\ writing = NoRun /\ Unfinished # {}
  /\ task' = [task EXCEPT ![k] = [@ EXCEPT !.pc = "idle", !.todo = Unfinished]]
  /\ UNCHANGED <<run, writing, ledger, wire, recent, marked, edits, failures, marks,
                 acked, hushed, torn>>

Inside(r) == \E k \in Tasks : task[k].pc \notin {"idle", "unused"} /\ task[k].run = r

Stalled(r) ==
  \E k \in Tasks : /\ task[k].pc \in {"creating", "adding", "failing", "closing"}
                   /\ task[k].run = r

Sweep(k, r) ==
  /\ k \in Sweepers /\ task[k].pc = "idle" /\ r \in task[k].todo
  /\ torn' = IF Stalled(r) THEN torn \cup {r} ELSE torn
  /\ \/ /\ ~Active(r)
        /\ Return(k, r)
        /\ UNCHANGED <<run, wire, ledger, failures, marked>>
     \/ Active(r) /\ Swallowed(k, r)
     \/ Active(r) /\ ~marked /\ Complete(k, r, run[r].text, run) /\ UNCHANGED marked
  /\ UNCHANGED <<writing, recent, edits, marks, acked, hushed>>

\* A tool sent the turn's reply itself (send_mention_message); the marker
\* lives for a minute.
Mark ==
  /\ marks < MaxMarks /\ ~marked
  /\ marked' = TRUE /\ marks' = marks + 1
  /\ UNCHANGED <<run, task, writing, ledger, wire, recent, edits, failures, acked, hushed, torn>>

MarkExpires ==
  /\ marked /\ marked' = FALSE
  /\ UNCHANGED <<run, task, writing, ledger, wire, recent, edits, failures, marks, acked, hushed, torn>>

\* The duplicate window of five seconds is over.
WindowOver ==
  /\ recent # {} /\ recent' = {}
  /\ UNCHANGED <<run, task, writing, ledger, wire, marked, edits, failures, marks, acked, hushed, torn>>

Next ==
  \/ \E r \in Runs, t \in Texts : Open(r, t) \/ SendWhole(r, t) \/ Redeliver(r, t)
  \/ \E t \in Texts : Edit(t) \/ Finalize(t) \/ RunComplete(t)
  \/ OpenSwallowed \/ Fail \/ Abandon
  \/ \E k \in Tasks : \/ Created(k) \/ Added(k) \/ StreamFailed(k) \/ Noticed(k)
                      \/ StreamDone(k) \/ Sent(k) \/ NotSent(k) \/ Broken(k) \/ ScheduleSweep(k)
  \/ \E k \in Tasks, r \in Runs : Sweep(k, r)
  \/ Mark \/ MarkExpires \/ WindowOver

Spec == Init /\ [][Next]_vars

(***************************************************************************)
(* Properties                                                              *)
(***************************************************************************)
Frames == {"created", "add", "done", "failed", "reply", "again", "notice"}

\* The types of the variables.
TypeOK ==
  /\ run \in [Runs -> [st : {"none", "active", "completed"}, text : Texts, streamed : Texts,
                       open : BOOLEAN, failed : BOOLEAN]]
  /\ task \in [Tasks -> [pc : {"unused", "idle", "creating", "adding", "failing", "noticing",
                               "closing", "sending"},
                         run : Runs \cup {NoRun}, text : Texts,
                         then : {"none", "discard", "notice", "reply", "complete", "send"},
                         todo : SUBSET Runs]]
  /\ writing \in Runs \cup {NoRun}
  /\ ledger \in [Runs -> {"none", "claimed", "error", "sent"}]
  /\ \A r \in Runs : \A i \in 1..Len(wire[r]) : wire[r][i] \in [f : Frames, t : Texts]
  /\ recent \subseteq Texts /\ marked \in BOOLEAN
  /\ acked \cup hushed \cup torn \subseteq Runs

At(r, f) == {i \in 1..Len(wire[r]) : wire[r][i].f = f}
Stream(r) == SelectSeq(wire[r], LAMBDA e : e.f \in {"created", "add", "done", "failed"})

\* A reply frame goes out once under an id, whoever finishes the run (the
\* host, a sweep, two sweeps), and is never followed by message.failed, which
\* would withdraw a message its reader already has.
OneReplyStands ==
  \A r \in Runs :
    /\ Cardinality(At(r, "reply")) <= 1
    /\ \A i \in At(r, "failed"), j \in At(r, "reply") : i < j

\* A stream that showed text is ended, done or withdrawn, before its run is
\* forgotten: no preview stays open with nobody left to close it.
StreamEnded ==
  \A r \in Runs :
    (run[r].st = "completed" /\ ~Inside(r) /\ At(r, "add") # {})
      => Stream(r)[Len(Stream(r))].f \in {"done", "failed"}

\* A reply that turned out to be a no-reply leaves nothing: no reply frame,
\* and what was streamed of it is withdrawn.  A call that was cut short is
\* left to the sweep, which knows only the text written so far.
SilentLeavesNothing ==
  \A r \in hushed \ torn :
    (run[r].st = "completed" /\ ~Inside(r))
      => /\ At(r, "reply") = {}
         /\ At(r, "add") # {} => Stream(r)[Len(Stream(r))].f = "failed"
=============================================================================
