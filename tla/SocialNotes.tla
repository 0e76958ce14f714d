---------------------------- MODULE SocialNotes ----------------------------
(***************************************************************************)
(* The plugin's social notes: owner.md, users/<id>.md, groups/<id>.md.     *)
(* A note has two halves with different writers.  The metadata block is    *)
(* what the server last answered (clawchat_metadata.py): refreshed by an   *)
(* invalidation signal, an inbound message, a new connection or the        *)
(* metadata tools.  The body is what the agent wrote (clawchat_memory.py). *)
(* Every write replaces the whole file, after reading it, under the file's *)
(* lock (state_lock.py, atomic_file.py), from the gateway's loop, from     *)
(* tool threads and from other processes.                                  *)
(*                                                                         *)
(* One group conversation, its group note, one participant's note and the  *)
(* owner's note.  The server's state is a count of mutations; what a GET   *)
(* answers is the count at that time.  Facts stand for paragraphs.         *)
(***************************************************************************)
EXTENDS Integers, Sequences, FiniteSets

CONSTANTS
    Pullers,        \* refreshing coroutines that may run at once
    Writers,        \* calls of the memory tools that may run at once
    Facts,          \* paragraphs
    MaxMutations,   \* changes at the server
    MaxPulls,       \* refreshes other than the signals'
    MaxFaults       \* failed requests, lock timeouts, failed fsyncs

Notes == {"owner", "group", "user"}
None == -1
Nobody == "nobody"
Sig == "signal"     \* the read loop, which handles one signal at a time
Refreshers == Pullers \cup {Sig}
Agents == Refreshers \cup Writers

VARIABLES
    mutation,   \* how often the server's state has changed
    gone,       \* the conversation no longer exists
    emitted,    \* the signals the server has emitted
    note,       \* the files
    lock,       \* who holds a note's lock
    pull,       \* what a refresher is doing
    handling,   \* the signal being handled and what it still has to fetch
    version,    \* _conversation_metadata_versions of the conversation
    tool,       \* what a call of a memory tool is doing
    told,       \* facts whose append was answered with ok
    undone,     \* facts a replace, an edit or a delete took out since
    refreshed,  \* per note, the metadata the last refresh wrote
    fetched,    \* per note, the latest state a written answer was read at
    pulls, faults

vars == <<mutation, gone, emitted, note, lock, pull, handling, version, tool,
          told, undone, refreshed, fetched, pulls, faults>>

server == <<mutation, gone, emitted>>
ghosts == <<told, undone, refreshed, fetched>>

NoNote == [exists |-> FALSE, meta |-> None, body |-> {}]
IdlePull == [pc |-> "idle", todo |-> <<>>, answer |-> None, ok |-> TRUE,
             seen |-> NoNote]
IdleTool == [pc |-> "idle", on |-> "owner", do |-> "append", fact |-> "none",
             seen |-> NoNote]
NotHandling == [v |-> None, needs |-> {}]

Init ==
    /\ mutation = 0 /\ gone = FALSE /\ emitted = {}
    /\ note = [n \in Notes |-> NoNote]
    /\ lock = [n \in Notes |-> Nobody]
    /\ pull = [r \in Refreshers |-> IdlePull]
    /\ handling = NotHandling /\ version = None
    /\ tool = [w \in Writers |-> IdleTool]
    /\ told = [n \in Notes |-> {}] /\ undone = [n \in Notes |-> {}]
    /\ refreshed = [n \in Notes |-> None]
    /\ fetched = [n \in Notes |-> None]
    /\ pulls = 0 /\ faults = 0

Fault == faults < MaxFaults /\ faults' = faults + 1

(***************************************************************************)
(* The file lock: a thread lock per path and process and flock on a file   *)
(* that is never removed.  Whoever has it reads the note, and replaces the *)
(* file before giving it back.                                             *)
(***************************************************************************)
\* Mutant of Free: the lock file is removed on release, so that the next to
\* come locks another inode than the one who waits.
FreeForAll(n) == n \in Notes

Free(n) == lock[n] = Nobody

Take(a, n) == Free(n) /\ lock' = [lock EXCEPT ![n] = a]
Give(a, n) == lock' = [lock EXCEPT ![n] = IF @ = a THEN Nobody ELSE @]

(***************************************************************************)
(* The server.                                                             *)
(***************************************************************************)
\* A change of the owner's agent or of the group, and its signal.
Mutate(needs) ==
    /\ mutation < MaxMutations /\ ~gone
    /\ mutation' = mutation + 1
    /\ emitted' = emitted \cup {[v |-> mutation + 1, needs |-> needs]}
    /\ UNCHANGED <<gone, note, lock, pull, handling, version, tool, ghosts,
                   pulls, faults>>

Vanish ==
    /\ ~gone /\ gone' = TRUE
    /\ UNCHANGED <<mutation, emitted, note, lock, pull, handling, version,
                   tool, ghosts, pulls, faults>>

(***************************************************************************)
(* Refreshing: pull_owner_metadata, pull_user_metadata and                 *)
(* pull_group_metadata, which goes on with the participants it has no note *)
(* of.                                                                     *)
(***************************************************************************)
Todo(n) == IF n = "group" THEN <<"group", "user">> ELSE <<n>>
Now(r) == Head(pull[r].todo)
Ask(n) == [IdlePull EXCEPT !.pc = "asking", !.todo = Todo(n)]

\* An inbound message, a new connection or metadata_sync asks for a note.
Pull(r, n) ==
    /\ r \in Pullers /\ pull[r].pc = "idle" /\ pulls < MaxPulls
    /\ pulls' = pulls + 1
    /\ pull' = [pull EXCEPT ![r] = Ask(n)]
    /\ UNCHANGED <<server, note, lock, handling, version, tool, ghosts, faults>>

\* A participant with a note is passed over.
Known(r) == Now(r) = "user" /\ pull[r].answer # None /\ note["user"].exists

PassOver(r) ==
    /\ pull[r].pc = "asking" /\ Known(r)
    /\ pull' = [pull EXCEPT ![r].pc = "done"]
    /\ UNCHANGED <<server, note, lock, handling, version, tool, ghosts, pulls,
                   faults>>

\* The server reads its state; the answer arrives when the loop gets to it.
Answer(r) ==
    /\ pull[r].pc = "asking"
    /\ ~Known(r) /\ ~(gone /\ Now(r) = "group")
    /\ pull' = [pull EXCEPT ![r].pc = "answered", ![r].answer = mutation]
    /\ UNCHANGED <<server, note, lock, handling, version, tool, ghosts, pulls,
                   faults>>

\* The conversation is unknown: its note goes and so does its version.
NotFound(r) ==
    /\ pull[r].pc = "asking" /\ Now(r) = "group" /\ gone
    /\ pull' = [pull EXCEPT ![r].pc = "deleting"]
    /\ UNCHANGED <<server, note, lock, handling, version, tool, ghosts, pulls,
                   faults>>

Deleted(r) ==
    /\ pull[r].pc = "deleting" /\ Free("group")
    /\ note' = [note EXCEPT !["group"] = NoNote]
    /\ refreshed' = [refreshed EXCEPT !["group"] = None]
    /\ undone' = [undone EXCEPT !["group"] = @ \cup note["group"].body]
    /\ version' = None
    /\ pull' = [pull EXCEPT ![r].pc = "done", ![r].ok = FALSE]
    /\ UNCHANGED <<server, lock, handling, tool, told, fetched, pulls, faults>>

\* A request fails, or the note's lock is not to be had in time.  A
\* participant's failure leaves the rest, and the refresh counts as failed.  A
\* deletion that fails leaves the note, but the version goes all the same.
PullFails(r) ==
    /\ pull[r].pc \in {"asking", "answered", "deleting"} /\ Fault
    /\ version' = IF pull[r].pc = "deleting" THEN None ELSE version
    /\ pull' = [pull EXCEPT ![r].pc = "done", ![r].ok = FALSE]
    /\ UNCHANGED <<server, note, lock, handling, tool, ghosts, pulls>>

\* write_clawchat_metadata: the note is read under the lock ...
ReadForMetadata(r) ==
    /\ pull[r].pc = "answered"
    /\ Take(r, Now(r))
    /\ pull' = [pull EXCEPT ![r].pc = "writing", ![r].seen = note[Now(r)]]
    /\ UNCHANGED <<server, note, handling, version, tool, ghosts, pulls, faults>>

\* ... and replaced with the answer in its metadata block, the body kept.
\* A directory that cannot be synced fails the refresh after the replacement.
WithMetadata(seen, answer) ==
    [exists |-> TRUE, meta |-> answer, body |-> seen.body]

WriteMetadata(r, synced) ==
    /\ pull[r].pc = "writing"
    /\ note' = [note EXCEPT ![Now(r)] = WithMetadata(pull[r].seen, pull[r].answer)]
    /\ Give(r, Now(r))
    /\ refreshed' = [refreshed EXCEPT ![Now(r)] = pull[r].answer]
    /\ fetched' = [fetched EXCEPT ![Now(r)] =
                     IF pull[r].answer > @ THEN pull[r].answer ELSE @]
    /\ \/ /\ synced /\ UNCHANGED faults
          /\ pull' = [pull EXCEPT ![r].todo = Tail(@),
                        ![r].pc = IF Len(pull[r].todo) > 1 THEN "asking" ELSE "done",
                        ![r].seen = NoNote]
       \/ /\ ~synced /\ Fault
          /\ pull' = [pull EXCEPT ![r].pc = "done", ![r].ok = FALSE,
                        ![r].seen = NoNote]
    /\ UNCHANGED <<server, handling, version, tool, told, undone, pulls>>

\* A refresh of a puller has ended; nobody looks at how.
PullEnds(r) ==
    /\ r \in Pullers /\ pull[r].pc = "done"
    /\ pull' = [pull EXCEPT ![r] = IdlePull]
    /\ UNCHANGED <<server, note, lock, handling, version, tool, ghosts, pulls,
                   faults>>

\* A newer connection or the shutdown cancels a refresh where it awaits.
Cancel(r) ==
    /\ r \in Pullers /\ pull[r].pc = "asking"
    /\ pull' = [pull EXCEPT ![r] = IdlePull]
    /\ UNCHANGED <<server, note, lock, handling, version, tool, ghosts, pulls,
                   faults>>

\* What a tool may change at the server: the owner's note and a group's.
Mutable == Notes \ {"user"}

\* update_metadata: the change is made at the server and its answer is
\* written like any other.
Changed(r, n) ==
    /\ pull[r].pc = "idle" /\ pulls < MaxPulls
    /\ mutation < MaxMutations /\ ~gone
    /\ pulls' = pulls + 1
    /\ mutation' = mutation + 1
    /\ emitted' = emitted \cup {[v |-> mutation + 1, needs |-> {n}]}
    /\ pull' = [pull EXCEPT ![r] = [IdlePull EXCEPT !.pc = "answered",
                  !.todo = <<n>>, !.answer = mutation + 1]]
    /\ UNCHANGED <<gone, note, lock, handling, version, tool, ghosts, faults>>

Update(r, n) == r \in Pullers /\ n \in Mutable /\ Changed(r, n)

\* push_metadata: the change is what the file's metadata block says, read
\* without the lock; a block without the field is refused.
HasFields(n) == note[n].meta # None
Push(r, n) == HasFields(n) /\ Update(r, n)

(***************************************************************************)
(* chat.metadata.invalidated: _handle_metadata_invalidated.                *)
(***************************************************************************)
Stale(s) == version # None /\ s.v <= version

\* A signal that is not older than what has been fetched for; it can come
\* late, twice or never.  The owner's note is fetched before the group's.
Behind(needs) == IF "owner" \in needs THEN "owner" ELSE "group"

Signal(s) ==
    /\ handling = NotHandling /\ pull[Sig].pc = "idle" /\ ~Stale(s)
    /\ handling' = [v |-> s.v, needs |-> s.needs]
    /\ pull' = [pull EXCEPT ![Sig] = Ask(Behind(s.needs))]
    /\ UNCHANGED <<server, note, lock, version, tool, ghosts, pulls, faults>>

\* One of its refreshes has ended; a failed one is remembered in `ok`.
NextHalf ==
    /\ pull[Sig].pc = "done" /\ handling.needs = {"owner", "group"}
    /\ handling' = [handling EXCEPT !.needs = {"group"}]
    /\ pull' = [pull EXCEPT ![Sig] = [Ask("group") EXCEPT !.ok = pull[Sig].ok]]
    /\ UNCHANGED <<server, note, lock, version, tool, ghosts, pulls, faults>>

\* Mutant of Succeeded: the version is kept however the refreshes ended.
SucceededAny == TRUE

\* The signal's version is kept when every refresh it needed succeeded.
Succeeded == pull[Sig].ok

Handled ==
    /\ pull[Sig].pc = "done" /\ handling.needs # {"owner", "group"}
    /\ version' = IF Succeeded THEN handling.v ELSE version
    /\ handling' = NotHandling
    /\ pull' = [pull EXCEPT ![Sig] = IdlePull]
    /\ UNCHANGED <<server, note, lock, tool, ghosts, pulls, faults>>

(***************************************************************************)
(* The memory tools: write_clawchat_memory_body, edit_clawchat_memory_body.*)
(***************************************************************************)
\* The body the tool leaves: an append adds its paragraph once, a replace
\* leaves only its own, an edit takes the one occurrence out.
Body(do, body, f) ==
    CASE do = "append" -> body \cup {f}
      [] do = "replace" -> {f}
      [] do = "edit" -> body \ {f}

ToolReads(w, n, do, f) ==
    /\ tool[w].pc = "idle"
    /\ Take(w, n)
    /\ tool' = [tool EXCEPT ![w] = [pc |-> "writing", on |-> n, do |-> do,
                  fact |-> f, seen |-> note[n]]]
    /\ UNCHANGED <<server, note, pull, handling, version, ghosts, pulls, faults>>

\* An append that is already there writes nothing, an edit of what is not
\* there is refused; both give the lock back.
Nothing(t) ==
    \/ t.do = "append" /\ t.fact \in t.seen.body
    \/ t.do = "edit" /\ t.fact \notin t.seen.body

ToolWrites(w, synced) ==
    LET t == tool[w] IN
    /\ t.pc = "writing" /\ ~Nothing(t)
    /\ note' = [note EXCEPT ![t.on] =
                  [exists |-> TRUE, meta |-> t.seen.meta,
                   body |-> Body(t.do, t.seen.body, t.fact)]]
    /\ Give(w, t.on)
    /\ IF synced THEN UNCHANGED faults ELSE Fault
    /\ told' = [told EXCEPT ![t.on] =
                  IF synced /\ t.do # "edit" THEN @ \cup {t.fact} ELSE @]
    /\ undone' = [undone EXCEPT ![t.on] =
                    (@ \ {t.fact}) \cup (t.seen.body \ Body(t.do, t.seen.body, t.fact))]
    /\ tool' = [tool EXCEPT ![w] = [IdleTool EXCEPT !.pc = "done"]]
    /\ UNCHANGED <<server, pull, handling, version, refreshed, fetched, pulls>>

ToolLeaves(w) ==
    LET t == tool[w] IN
    /\ t.pc = "writing" /\ Nothing(t)
    /\ Give(w, t.on)
    /\ told' = [told EXCEPT ![t.on] =
                  IF t.do = "append" THEN @ \cup {t.fact} ELSE @]
    /\ tool' = [tool EXCEPT ![w] = [IdleTool EXCEPT !.pc = "done"]]
    /\ UNCHANGED <<server, note, pull, handling, version, undone, refreshed,
                   fetched, pulls, faults>>

\* The process dies between the reading and the replacement: the lock goes
\* with it and the file is as it was.
ToolDies(w) ==
    /\ tool[w].pc = "writing" /\ Fault
    /\ Give(w, tool[w].on)
    /\ tool' = [tool EXCEPT ![w] = [IdleTool EXCEPT !.pc = "done"]]
    /\ UNCHANGED <<server, note, pull, handling, version, ghosts, pulls>>

Next ==
    \/ \E needs \in {{"owner"}, {"group"}, {"owner", "group"}} : Mutate(needs)
    \/ Vanish
    \/ \E r \in Refreshers :
        \/ \E n \in Notes : Pull(r, n) \/ Update(r, n) \/ Push(r, n)
        \/ PassOver(r) \/ Answer(r) \/ NotFound(r) \/ Deleted(r) \/ PullFails(r)
        \/ ReadForMetadata(r)
        \/ \E synced \in BOOLEAN : WriteMetadata(r, synced)
        \/ PullEnds(r) \/ Cancel(r)
    \/ \E s \in emitted : Signal(s)
    \/ NextHalf \/ Handled
    \/ \E w \in Writers :
        \/ \E n \in Notes, do \in {"append", "replace", "edit"}, f \in Facts :
              ToolReads(w, n, do, f)
        \/ \E synced \in BOOLEAN : ToolWrites(w, synced)
        \/ ToolLeaves(w) \/ ToolDies(w)

Spec == Init /\ [][Next]_vars

(***************************************************************************)
(* Properties.                                                             *)
(***************************************************************************)
\* The variables keep the shapes the code gives them.
TypeOK ==
    /\ mutation \in 0..MaxMutations /\ gone \in BOOLEAN
    /\ \A n \in Notes :
        /\ note[n].exists \in BOOLEAN
        /\ note[n].meta \in None..MaxMutations /\ note[n].body \subseteq Facts
        /\ lock[n] \in Agents \cup {Nobody}
    /\ \A r \in Refreshers :
        pull[r].pc \in {"idle", "asking", "answered", "deleting", "writing", "done"}
    /\ version \in None..MaxMutations

\* Neither half of a note loses to a writer of the other: a paragraph whose
\* append was answered with ok is in the body until somebody takes it out,
\* and the metadata block is the one the last refresh wrote, whatever bodies
\* were written since (clawchat_memory.py, write_clawchat_metadata,
\* write_clawchat_memory_body; state_lock.py).
HalvesKept ==
    \A n \in Notes :
        /\ told[n] \subseteq note[n].body \cup undone[n]
        /\ note[n].meta = refreshed[n]

\* The version kept for a conversation is one for which every note the signal
\* named was fetched at least as late as the change and written: a signal
\* that is passed over as stale had nothing more to tell (adapter.py,
\* _handle_metadata_invalidated).
VersionFetched ==
    \A s \in emitted :
        s.v = version => \A n \in s.needs : fetched[n] >= s.v
=============================================================================
