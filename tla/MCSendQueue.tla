----------------------------- MODULE MCSendQueue -----------------------------
(* Small instances of SendQueue for TLC. *)
EXTENDS SendQueue

CONSTANT c1

TwoCalls == 1..2
ThreeCalls == 1..3
Two == {1, 2}
OneAndThree == {1, 3}
Three == {1, 2, 3}
None == {}

OneChat == [f \in Frames |-> c1]
==============================================================================
