--------------------------- MODULE MCShadowNetdev ---------------------------
(* ShadowNetdev for TLC: one device, two threads. *)
EXTENDS ShadowNetdev, TLC

=============================================================================
