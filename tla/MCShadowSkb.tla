---------------------------- MODULE MCShadowSkb ----------------------------
(* ShadowSkb for TLC. *)
EXTENDS ShadowSkb, TLC

\* Skbs, buffers and shadows are interchangeable.
Symmetry == Permutations(Skbs) \cup Permutations(Bufs) \cup Permutations(Shadows)

=============================================================================
