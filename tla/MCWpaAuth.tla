----------------------------- MODULE MCWpaAuth -----------------------------
(* WpaAuth for TLC. *)
EXTENDS WpaAuth, TLC

\* Frames that nobody accepts any more, and no property speaks of, make no
\* difference: answers of a station below the replay counter of its entry, and
\* first messages at or below the station's.  Both counters only grow as long as
\* the frames of the association are kept.
Stale(m) ==
    \/ m.kind \in {"M2", "M2ie", "M4", "G2"} /\ m.replay < sta[m.sta].replay
    \/ m.kind = "M1" /\ m.replay <= peer[m.sta].replay
WithoutStale ==
    <<sta, gkc, gtk, plumbed, cm, cms, key, authz, peer, {m \in net : ~Stale(m)}, due>>
=============================================================================
