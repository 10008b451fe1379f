-------------------------- MODULE MCShadowTasklet --------------------------
(* ShadowTasklet for TLC: one tasklet, two threads, two maps. *)
EXTENDS ShadowTasklet, TLC

=============================================================================
