--------------------------- MODULE MCUpdateRollout ---------------------------
(* Bounds of UpdateRollout for TLC. *)
EXTENDS UpdateRollout

\* The server is created with a maintenance window that can be parsed ...
WithWindow == {"valid"}

\* ... or with one that cannot.
BrokenWindow == {"invalid"}
=============================================================================
