----------------------------- MODULE MCDelivery -----------------------------
(***************************************************************************)
(* One small instance of ReliableDelivery for TLC, explored in three       *)
(* scopes, each with its own share of the bounds: storage faults and       *)
(* stops; several keys and a stop; a standalone sender beside the gateway. *)
(***************************************************************************)
EXTENDS ReliableDelivery

CONSTANTS m1, m2, s1, c1

OneChat == [m \in Messages |-> c1]

VARIABLE scope

OnlySent(keys) == KeysSent \subseteq keys

\* The second message never comes before the first: they have the same chat.
InTurn == m2 \in KeysSent => m1 \in KeysSent

Within ==
    CASE scope = "faults" -> /\ \/ OnlySent({m1, Mark})
                                \/ OnlySent({s1}) /\ used["sends"] <= 1
                             /\ None({"aways", "senders"})
                             /\ used["sends"] <= 1 \/ Mishaps <= 1
      [] scope = "order"  -> /\ InTurn
                             /\ OnlySent({m1, m2}) \/ OnlySent({s1})
                             /\ None({"faults", "aways", "senders"})
      [] scope = "sender" -> /\ OnlySent({m1, Mark}) /\ used["sends"] <= 1
                             /\ None({"faults", "stops"})

MCInit == Init /\ scope \in {"faults", "order", "sender"}
MCNext == Next /\ UNCHANGED scope /\ Within'
MCSpec == MCInit /\ [][MCNext]_<<vars, scope>>
=============================================================================
