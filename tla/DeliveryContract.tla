-------------------------- MODULE DeliveryContract --------------------------
(***************************************************************************)
(* What reliable delivery promises, whatever happens to connections,       *)
(* threads and processes: the server holds a message until it is stored    *)
(* here, and a handler only ever gets what is stored.                      *)
(***************************************************************************)
CONSTANT Keys

VARIABLES
    held,       \* keys the server holds and will send again
    stored,     \* keys whose receipt was made durable
    handled     \* keys a handler has had

Init == held = {} /\ stored = {} /\ handled = {}

Send(k) == /\ held' = held \cup {k}
           /\ UNCHANGED <<stored, handled>>

Store(k) == /\ stored' = stored \cup {k}
            /\ UNCHANGED <<held, handled>>

\* An acknowledgement releases some stored keys.
Forget(S) == /\ S \subseteq stored
             /\ held' = held \ S
             /\ UNCHANGED <<stored, handled>>

Handle(k) == /\ k \in stored
             /\ handled' = handled \cup {k}
             /\ UNCHANGED <<held, stored>>

Next == \/ \E k \in Keys : Send(k) \/ Store(k) \/ Handle(k)
        \/ \E S \in SUBSET Keys : Forget(S)

Spec == Init /\ [][Next]_<<held, stored, handled>>

=============================================================================
