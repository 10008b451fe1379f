--------------------------- MODULE MCShadowTimer ---------------------------
(* ShadowTimer for TLC. *)
EXTENDS ShadowTimer

=============================================================================
