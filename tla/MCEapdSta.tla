----------------------------- MODULE MCEapdSta -----------------------------
(* Two BSSs, and one station more than the table has places, all of them in *)
(* one hash chain.                                                          *)
EXTENDS EapdSta, TLC

CONSTANTS s1, s2, s3

MCHash == [a \in Stas |-> 0]
Symmetry == Permutations(Stas)

\* Who was sent something is an output of a step: no guard and no property reads it.
WithoutSent == <<tab, clock, sess>>
=============================================================================
