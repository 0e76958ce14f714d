----------------------------- MODULE Greeting -----------------------------
(***************************************************************************)
(* The first message to the owner after a pairing (adapter.py               *)
(* _dispatch_activation_bootstrap, the claim columns of the activations     *)
(* row in storage.py).                                                      *)
(*                                                                         *)
(* Every READY starts a task that waits for the owner's profile, claims the *)
(* row, runs one turn that writes the greeting and marks the row.  Pairing  *)
(* again resets the row; a claim nobody settled for ten minutes may be      *)
(* taken over; a disconnect cancels the tasks and a crash just ends them.   *)
(***************************************************************************)
EXTENDS Naturals

CONSTANTS
  Tasks,          \* tasks of one process
  MaxActivations, MaxReadies, MaxCrashes, MaxFaults, MaxStale

\* What the proofs take the constants to be.
GreetingConstants == MaxActivations \in Nat \ {0}

Free == 0
NoTask == [pc |-> "none", claim |-> Free, pairing |-> 0, before |-> 0]

VARIABLES
  pairing,    \* which activation the row belongs to
  sent,       \* bootstrap_sent
  claim,      \* bootstrap_claimed_at: Free, or the number of the claim
  stale,      \* the claim of the row is older than ten minutes
  claims,     \* claims made so far: the clock
  task,       \* the dispatch tasks of the running process
  visible,    \* _visible_sends of the owner's conversation, in this process
  greeted,    \* per activation: greetings the owner saw
  excused,    \* activations whose record of the greeting was lost or came late
  done,       \* activations one of whose turns returned or saw a message go out
  readies, crashes, faults, stales     \* bounds

vars == <<pairing, sent, claim, stale, claims, task, visible, greeted, excused, done,
          readies, crashes, faults, stales>>

Init ==
  /\ pairing = 1 /\ sent = FALSE /\ claim = Free /\ stale = FALSE /\ claims = 0
  /\ task = [t \in Tasks |-> NoTask]
  /\ visible = 0
  /\ greeted = [a \in 1 .. MaxActivations |-> 0]
  /\ excused = {} /\ done = {}
  /\ readies = 0 /\ crashes = 0 /\ faults = 0 /\ stales = 0

Turns == {task[t].pairing : t \in {u \in Tasks : task[u].pc \in {"turn", "said"}}}

---------------------------------------------------------------------------
Ready(t) ==
  /\ task[t].pc = "none" /\ readies < MaxReadies
  /\ task' = [task EXCEPT ![t].pc = "waiting"]
  /\ readies' = readies + 1
  /\ UNCHANGED <<pairing, sent, claim, stale, claims, visible, greeted, excused, done,
                 crashes, faults, stales>>

Claimable == ~sent /\ (claim = Free \/ stale)

(* The owner's profile has arrived, or its wait is over. *)
Claim(t) ==
  /\ task[t].pc = "waiting"
  /\ IF Claimable
       THEN /\ claims' = claims + 1 /\ claim' = claims + 1 /\ stale' = FALSE
            /\ task' = [task EXCEPT ![t] = [pc |-> "turn", claim |-> claims + 1,
                                            pairing |-> pairing, before |-> visible]]
            /\ excused' = IF claim # Free THEN excused \union {pairing} ELSE excused
       ELSE /\ task' = [task EXCEPT ![t] = NoTask]
            /\ UNCHANGED <<claims, claim, stale, excused>>
  /\ UNCHANGED <<pairing, sent, visible, greeted, done, readies, crashes, faults, stales>>

(* The turn writes its greeting. *)
Say(t) ==
  /\ task[t].pc = "turn"
  /\ task' = [task EXCEPT ![t].pc = "said"]
  /\ visible' = visible + 1
  /\ greeted' = [greeted EXCEPT ![task[t].pairing] = @ + 1]
  /\ done' = done \union Turns
  /\ UNCHANGED <<pairing, sent, claim, stale, claims, excused, readies, crashes, faults, stales>>

(* Something else reaches the owner's conversation meanwhile. *)
Other ==
  /\ \E t \in Tasks : task[t].pc = "turn" /\ visible = task[t].before
  /\ visible' = visible + 1
  /\ done' = done \union Turns
  /\ UNCHANGED <<pairing, sent, claim, stale, claims, task, greeted, excused, readies, crashes,
                 faults, stales>>

\* Mutant of Marks: the claim is not compared.
MarksAnyClaim(t) == ~sent /\ claim # Free

Marks(t) == ~sent /\ claim = task[t].claim
Mark(t) == sent' = (sent \/ Marks(t)) /\ UNCHANGED <<claim, stale>>

Released(t) == IF ~sent /\ claim = task[t].claim THEN Free ELSE claim

Release(t) ==
  /\ claim' = Released(t)
  /\ stale' = (stale /\ claim' # Free)
  /\ UNCHANGED sent

Lost(t) ==
  /\ faults < MaxFaults /\ faults' = faults + 1
  /\ excused' = excused \union {task[t].pairing}
  /\ UNCHANGED <<sent, claim, stale>>

\* Mutant of Ends: a turn that fails always gives its claim back.
EndsReleasing(t, ok) ==
  /\ task[t].pc \in {"turn", "said"}
  /\ \/ ok /\ Mark(t) /\ UNCHANGED <<excused, faults>>
     \/ ~ok /\ Release(t) /\ UNCHANGED <<excused, faults>>
     \/ Lost(t)
  /\ done' = IF ok THEN done \union {task[t].pairing} ELSE done
  /\ task' = [task EXCEPT ![t] = NoTask]
  /\ UNCHANGED <<pairing, claims, visible, greeted, readies, crashes, stales>>

Ends(t, ok) ==
  /\ task[t].pc \in {"turn", "said"}
  /\ \/ (ok \/ visible > task[t].before) /\ Mark(t) /\ UNCHANGED <<excused, faults>>
     \/ ~ok /\ visible = task[t].before /\ Release(t) /\ UNCHANGED <<excused, faults>>
     \/ Lost(t)
  /\ done' = IF ok THEN done \union {task[t].pairing} ELSE done
  /\ task' = [task EXCEPT ![t] = NoTask]
  /\ UNCHANGED <<pairing, claims, visible, greeted, readies, crashes, stales>>

(* A disconnect cancels a task that has claimed nothing yet. *)
Cancel(t) ==
  /\ task[t].pc = "waiting"
  /\ task' = [task EXCEPT ![t] = NoTask]
  /\ UNCHANGED <<pairing, sent, claim, stale, claims, visible, greeted, excused, done,
                 readies, crashes, faults, stales>>

(* Pairing again, with whatever code, resets the row. *)
Activate ==
  /\ pairing < MaxActivations
  /\ pairing' = pairing + 1
  /\ sent' = FALSE /\ claim' = Free /\ stale' = FALSE
  /\ UNCHANGED <<claims, task, visible, greeted, excused, done, readies, crashes, faults, stales>>

TenMinutes ==
  /\ claim # Free /\ ~stale /\ stales < MaxStale
  /\ stale' = TRUE
  /\ stales' = stales + 1
  /\ UNCHANGED <<pairing, sent, claim, claims, task, visible, greeted, excused, done,
                 readies, crashes, faults>>

Crash ==
  /\ crashes < MaxCrashes
  /\ task # [t \in Tasks |-> NoTask]
  /\ task' = [t \in Tasks |-> NoTask]
  /\ visible' = 0
  /\ excused' = excused \union {task[t].pairing : t \in {u \in Tasks : task[u].pc = "said"}}
  /\ crashes' = crashes + 1
  /\ UNCHANGED <<pairing, sent, claim, stale, claims, greeted, done, readies, faults, stales>>

Next ==
  \/ \E t \in Tasks : \/ Ready(t) \/ Claim(t) \/ Say(t) \/ Cancel(t)
                      \/ \E ok \in BOOLEAN : Ends(t, ok)
  \/ Other \/ Activate \/ TenMinutes \/ Crash

Spec == Init /\ [][Next]_vars

---------------------------------------------------------------------------
TypeOK ==
  /\ pairing \in 1 .. MaxActivations /\ sent \in BOOLEAN /\ stale \in BOOLEAN
  /\ claim \in 0 .. claims
  /\ \A t \in Tasks : task[t].pc \in {"none", "waiting", "turn", "said"} /\ task[t].claim <= claims
  /\ excused \subseteq 1 .. MaxActivations /\ done \subseteq 1 .. MaxActivations

(* The owner is greeted once for each pairing, through any number of READY  *)
(* states, cancelled turns and pairings in between: a greeting that went    *)
(* out is not repeated because its turn then failed (docstring of           *)
(* _dispatch_activation_bootstrap).  Excepted are a crash or a lost write   *)
(* between greeting and mark, and a claim taken over after ten minutes.     *)
GreetedOnce ==
  \A a \in 1 .. MaxActivations : greeted[a] > 1 => a \in excused

(* A pairing counts as greeted only when one of its own turns returned or   *)
(* saw a message go out in the conversation: a turn begun for an earlier    *)
(* pairing does not mark the row of a later one                             *)
(* (mark_activation_bootstrap_sent compares the claim).                     *)
MarkedByOwnTurn == sent => pairing \in done

===========================================================================
