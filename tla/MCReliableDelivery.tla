------------------------- MODULE MCReliableDelivery -------------------------
(* Small instances of ReliableDelivery for TLC. *)
EXTENDS ReliableDelivery

CONSTANTS m1, m2, s1, c1

OneChat == [m \in Messages |-> c1]
=============================================================================
