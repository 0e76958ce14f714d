--------------------------- MODULE MCTokenRefresh ---------------------------
(* A small instance of TokenRefresh for TLC. *)
EXTENDS TokenRefresh

CONSTANTS watcher, rest
=============================================================================
