---------------------------- MODULE MCNasRadius ----------------------------
(* Two stations for one place: it changes hands while answers are under way. *)
EXTENDS NasRadius, TLC

CONSTANTS s1, s2

MCKinds == s1 :> {"NONE"} @@ s2 :> {"WPA2", "PSK"}
=============================================================================
