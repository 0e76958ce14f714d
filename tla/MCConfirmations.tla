-------------------------- MODULE MCConfirmations --------------------------
(* A small instance of Confirmations for TLC. *)
EXTENDS Confirmations

\* Both approvals are asked in the session of one group.
InTheGroup == [r \in Requests |-> "g1"]
=============================================================================
