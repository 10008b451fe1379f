--------------------------- MODULE WpaAuthProofs ---------------------------
(***************************************************************************)
(* Proofs about WpaAuth, for any stations, modes, retry limit and bounds:  *)
(* what the authenticator and a station hold when a handshake is over,     *)
(* whatever was lost, repeated, delayed or reordered on the way.           *)
(***************************************************************************)
EXTENDS WpaAuth, TLAPS

\* The types of TableOK, with those of the fields named.
Nonces == 0..MaxNonce
Tries == 0..WPA_RETRY
ModeNames == {"WPA", "WPA2"}
Entry == [used : BOOLEAN, mode : ModeNames, state : States, retry_state : States, td : BOOLEAN,
          hndlr : BOOLEAN, retries : Tries, replay : Nat, anonce : Nonces, ptk : Nonces]
Peer == [tptk : Nonces, ptk : Nonces, gtk : Nat, replay : Int]
Frame == [sta : Stas, kind : Kinds, replay : Nat, ptk : Nonces, gtk : Nat]

\* Nothing is left of a station that is not in the table.
Forgotten(s) == sta[s] = Unused /\ peer[s] = Stranger /\ \A m \in net : m.sta # s

\* What a handshake has reached in each state.
Stage(s) ==
    \/ /\ sta[s].state = "PTKINITNEGOTIATING" /\ sta[s].retry_state = "PTKSTART"
       /\ ~sta[s].hndlr
    \/ /\ sta[s].state = "PTKINITDONE" /\ sta[s].retry_state = "PTKINITNEGOTIATING"
       /\ sta[s].ptk # 0 /\ (sta[s].hndlr => Wpa(s))
    \/ /\ sta[s].state = "REKEYNEGOTIATING" /\ sta[s].retry_state = "REKEYNEGOTIATING"
       /\ ~sta[s].hndlr /\ sta[s].ptk # 0 /\ key[s] = sta[s].ptk
    \/ /\ sta[s].state = "SETKEYSDONE" /\ ~sta[s].hndlr /\ ~sta[s].td
       /\ sta[s].ptk # 0 /\ key[s] = sta[s].ptk /\ s \in authz
       /\ peer[s].ptk = sta[s].ptk /\ peer[s].replay = sta[s].replay

\* The authenticator's replay counter is ahead of the station's and of every frame.
ReplayAhead(s) ==
    /\ peer[s].replay <= sta[s].replay
    /\ \A m \in net : m.sta = s => m.replay <= sta[s].replay

\* An answer that shows a pairwise key was made at a replay counter the station
\* has reached; if it is the present one, with the key it has installed now.
AnswersTold(s) ==
    \A m \in net : m.sta = s /\ m.kind \in {"M4", "G2"} =>
        /\ m.replay <= peer[s].replay
        /\ m.replay = peer[s].replay => m.ptk = peer[s].ptk

\* FreshReplay for one station.
Fresh(s) ==
    \A m, n \in net : /\ m.sta = s /\ n.sta = s /\ m.replay = n.replay
                      /\ m.kind \in {"M3", "G1"} /\ n.kind \in {"M3", "G1"}
                      => m = n

StaInv(s) == /\ IF sta[s].used THEN sta[s].anonce # 0 /\ Stage(s) ELSE Forgotten(s)
             /\ ReplayAhead(s) /\ AnswersTold(s) /\ Fresh(s)

WpaInv == TableOK /\ CmKeepsTkipOut /\ \A s \in Stas : StaInv(s)

-----------------------------------------------------------------------------
(* Types *)

\* TableOK in terms of the named types.
LEMMA Typed ==
    TableOK <=> /\ sta \in [Stas -> Entry] /\ gkc \in Nonces /\ gtk \in Nat
               /\ plumbed \in BOOLEAN /\ cm \in BOOLEAN /\ cms \in 0..MaxCm
               /\ key \in [Stas -> Nonces] /\ authz \in SUBSET Stas
               /\ peer \in [Stas -> Peer] /\ net \in SUBSET Frame
  BY DEF TableOK, Entries, Peers, Frames, Entry, Peer, Frame, Nonces, Tries, ModeNames

\* The same after a step.
LEMMA TypedNext ==
    TableOK' <=> /\ sta' \in [Stas -> Entry] /\ gkc' \in Nonces /\ gtk' \in Nat
                /\ plumbed' \in BOOLEAN /\ cm' \in BOOLEAN /\ cms' \in 0..MaxCm
                /\ key' \in [Stas -> Nonces] /\ authz' \in SUBSET Stas
                /\ peer' \in [Stas -> Peer] /\ net' \in SUBSET Frame
  BY DEF TableOK, Entries, Peers, Frames, Entry, Peer, Frame, Nonces, Tries, ModeNames

\* The values that the operators assign are of the fields' types.
LEMMA Values ==
    /\ 0 \in Nonces /\ 0 \in Tries /\ 0 \in Nat /\ "WPA" \in ModeNames /\ "WPA2" \in ModeNames
    /\ {"AUTHENTICATION2", "PTKSTART", "PTKINITNEGOTIATING", "PTKINITDONE", "REKEYNEGOTIATING",
        "SETKEYSDONE"} \subseteq States
    /\ Modes \subseteq ModeNames
  BY WpaAssumption DEF Nonces, Tries, ModeNames, States

\* What is left when a station is forgotten.
LEMMA Empty ==
    /\ Unused \in Entry /\ Unused.used = FALSE /\ Unused.replay = 0 /\ Unused.mode = "WPA2"
    /\ Stranger \in Peer /\ Stranger.replay = -1
<1>1. Unused \in Entry /\ Unused.used = FALSE /\ Unused.replay = 0 /\ Unused.mode = "WPA2"
  BY Values DEF Unused, Entry
<1>2. Stranger \in Peer /\ Stranger.replay = -1
  BY Values DEF Stranger, Peer
<1> QED
  BY <1>1, <1>2

\* A station none of whose state changes keeps its part of the invariant.
LEMMA Untouched ==
    ASSUME NEW s \in Stas, StaInv(s), sta'[s] = sta[s], peer'[s] = peer[s], key'[s] = key[s],
           s \in authz' <=> s \in authz,
           \A m : m.sta = s => (m \in net' <=> m \in net)
    PROVE  StaInv(s)'
  BY DEF StaInv, Forgotten, Stage, ReplayAhead, AnswersTold, Fresh, Wpa

\* One station's entry becomes e and its supplicant p.
LEMMA StationStep ==
    ASSUME WpaInv, NEW s \in Stas, NEW e \in Entry, NEW p \in Peer,
           sta' = [sta EXCEPT ![s] = e], peer' = [peer EXCEPT ![s] = p],
           key' \in [Stas -> Nonces], authz' \subseteq Stas,
           \A q \in Stas : q # s => key'[q] = key[q] /\ (q \in authz' <=> q \in authz),
           net' \subseteq Frame, \A m : m.sta # s => (m \in net' <=> m \in net),
           gkc' \in Nonces, gtk' \in Nat, plumbed' \in BOOLEAN, cm' = cm, cms' = cms,
           cm /\ e.used => e.mode # "WPA",
           StaInv(s)'
    PROVE  WpaInv'
<1>1. sta \in [Stas -> Entry] /\ peer \in [Stas -> Peer] /\ cm \in BOOLEAN /\ cms \in 0..MaxCm
  BY Typed DEF WpaInv
<1>2. sta'[s] = e /\ \A q \in Stas : q # s => sta'[q] = sta[q] /\ peer'[q] = peer[q]
  BY <1>1
<1>3. TableOK'
  <2>1. sta' \in [Stas -> Entry] /\ peer' \in [Stas -> Peer]
    BY <1>1
  <2> QED
    BY <1>1, <2>1, TypedNext
<1>4. CmKeepsTkipOut'
  BY <1>2 DEF WpaInv, CmKeepsTkipOut, Wpa
<1>5. ASSUME NEW q \in Stas, q # s PROVE StaInv(q)'
  <2>1. StaInv(q)
    BY DEF WpaInv
  <2>2. \A m : m.sta = q => (m \in net' <=> m \in net)
    BY <1>5
  <2> QED
    BY <1>2, <1>5, <2>1, <2>2, Untouched
<1> QED
  BY <1>3, <1>4, <1>5 DEF WpaInv

\* cleanup_sta forgets the stations in S.
LEMMA CleanupKeeps ==
    ASSUME WpaInv, NEW S \in SUBSET Stas, cleanup_sta(S), gkc' = gkc, gtk' = gtk,
           plumbed' \in BOOLEAN, cm' \in BOOLEAN, cms' \in 0..MaxCm,
           cm' => cm \/ \A q \in Stas : sta[q].used => q \in S
    PROVE  WpaInv'
<1>1. /\ sta \in [Stas -> Entry] /\ peer \in [Stas -> Peer] /\ key \in [Stas -> Nonces]
      /\ gkc \in Nonces /\ gtk \in Nat /\ authz \subseteq Stas /\ net \subseteq Frame
  BY Typed DEF WpaInv
<1>2. \A q \in Stas : IF q \in S THEN sta'[q] = Unused /\ peer'[q] = Stranger
                      ELSE sta'[q] = sta[q] /\ peer'[q] = peer[q] /\ key'[q] = key[q]
  BY DEF cleanup_sta
<1>3. net' \subseteq net /\ \A m \in net : m \in net' <=> m.sta \notin S
  BY DEF cleanup_sta, NetWithout
<1>4. TableOK'
  <2>1. sta' \in [Stas -> Entry] /\ peer' \in [Stas -> Peer] /\ key' \in [Stas -> Nonces]
    BY <1>1, Empty, Values DEF cleanup_sta
  <2>2. authz' \subseteq Stas /\ net' \subseteq Frame
    BY <1>1, <1>3 DEF cleanup_sta
  <2> QED
    BY <1>1, <2>1, <2>2, TypedNext
<1>5. CmKeepsTkipOut'
  BY <1>2, Empty DEF WpaInv, CmKeepsTkipOut, Wpa
<1>6. ASSUME NEW q \in Stas PROVE StaInv(q)'
  <2>1. CASE q \in S
    BY <1>2, <1>3, <2>1, Empty DEF StaInv, Forgotten, ReplayAhead, AnswersTold, Fresh
  <2>2. CASE q \notin S
    <3>1. StaInv(q) /\ (q \in authz' <=> q \in authz)
      BY <2>2 DEF WpaInv, cleanup_sta
    <3>2. \A m : m.sta = q => (m \in net' <=> m \in net)
      BY <1>3, <2>2
    <3> QED
      BY <1>2, <2>2, <3>1, <3>2, Untouched
  <2> QED
    BY <2>1, <2>2
<1> QED
  BY <1>4, <1>5, <1>6 DEF WpaInv

-----------------------------------------------------------------------------
(* Frames *)

\* The states wpa_send_eapol is called in, and the frame it builds for each.
Sending == {"PTKSTART", "PTKINITNEGOTIATING", "REKEYNEGOTIATING"}
FrameKind(state) == CASE state = "PTKSTART" -> "M1"
                      [] state = "PTKINITNEGOTIATING" -> "M3"
                      [] state = "REKEYNEGOTIATING" -> "G1"

\* The frame wpa_send_eapol builds.
LEMMA SendFields ==
    ASSUME NEW s \in Stas, NEW e \in Entry, e.state \in Sending, NEW g \in Nat
    PROVE  LET f == wpa_send_eapol(s, e, g) IN
           /\ f \in Frame /\ f.sta = s /\ f.replay = e.replay /\ f.kind = FrameKind(e.state)
           /\ e.state = "PTKSTART" => f.gtk = 0
<1> DEFINE k == FrameKind(e.state)
           x == IF e.state = "PTKSTART" THEN e.anonce ELSE e.ptk
           d == key_data(s, e, g)
<1>1. wpa_send_eapol(s, e, g) = [sta |-> s, kind |-> k, replay |-> e.replay, ptk |-> x, gtk |-> d]
  BY DEF wpa_send_eapol, FrameKind
<1>2. k \in Kinds /\ x \in Nonces /\ e.replay \in Nat
  BY DEF Kinds, FrameKind, Sending, Entry
<1>3. d \in Nat /\ (e.state = "PTKSTART" => d = 0)
  BY DEF key_data
<1> HIDE DEF k, x, d
<1>4. LET f == [sta |-> s, kind |-> k, replay |-> e.replay, ptk |-> x, gtk |-> d] IN
      /\ f \in Frame /\ f.sta = s /\ f.replay = e.replay /\ f.kind = k /\ f.gtk = d
  BY <1>2, <1>3 DEF Frame
<1> QED
  BY <1>1, <1>3, <1>4 DEF k

\* The group key a frame is sent with.
LEMMA GtkInUseTyped == TableOK => GtkInUse \in Nat /\ gtk \in Nat
  BY DEF TableOK, GtkInUse, wpa_gen_gtk

\* Sending a frame keeps the types.
LEMMA SendTyped ==
    ASSUME TableOK, NEW m \in Frame, NEW others \in SUBSET Frame, Send(m, others)
    PROVE  net' = others \cup {m} /\ net' \subseteq Frame /\ gtk' \in Nat /\ plumbed' \in BOOLEAN
<1>1. m.gtk \in Nat /\ gtk \in Nat /\ plumbed \in BOOLEAN
  BY DEF Frame, TableOK
<1>2. net' = others \cup {m}
  BY DEF Send
<1>3. gtk' \in Nat /\ plumbed' \in BOOLEAN
  BY <1>1 DEF Send, wpa_plumb_gtk, group
<1> QED
  BY <1>2, <1>3

-----------------------------------------------------------------------------
(* Driver events *)

\* An association starts a handshake of which nothing has been said yet.
LEMMA AssocKeeps ==
    ASSUME WpaInv, NEW s \in Stas, NEW mode \in Modes, Assoc(s, mode)
    PROVE  WpaInv'
<1> DEFINE e == [wpa_stop_retx(sta[s]) EXCEPT !.used = TRUE, !.mode = mode,
                    !.retries = 0, !.anonce = gkc + 1, !.state = "PTKSTART"]
           f == [e EXCEPT !.retry_state = "PTKSTART", !.state = "PTKINITNEGOTIATING"]
           n == arm(f)
           m == wpa_send_eapol(s, e, GtkInUse)
<1>1. /\ sta \in [Stas -> Entry] /\ peer \in [Stas -> Peer] /\ key \in [Stas -> Nonces]
      /\ authz \subseteq Stas /\ net \subseteq Frame /\ GtkInUse \in Nat
  BY Typed, GtkInUseTyped DEF WpaInv
<1>2. gkc + 1 \in Nonces /\ gkc + 1 # 0 /\ mode \in ModeNames /\ (cm => mode # "WPA")
  BY Typed, Values, WpaAssumption DEF WpaInv, Assoc, cm_blocks, Nonces
<1>3. /\ Send(m, NetWithout({s})) /\ sta' = [sta EXCEPT ![s] = n] /\ gkc' = gkc + 1
      /\ key' = [key EXCEPT ![s] = 0] /\ authz' = authz \ {s}
      /\ peer' = [peer EXCEPT ![s] = Stranger] /\ UNCHANGED <<cm, cms>>
  BY DEF Assoc, wpa_incr_gkc
<1>4. /\ e \in Entry /\ e.used /\ e.state = "PTKSTART" /\ e.replay = sta[s].replay
      /\ e.anonce = gkc + 1 /\ e.mode = mode /\ ~e.hndlr
  <2> DEFINE v == gkc + 1
  <2>1. e = [sta[s] EXCEPT !.td = FALSE, !.hndlr = FALSE, !.used = TRUE, !.mode = mode,
                !.retries = 0, !.anonce = v, !.state = "PTKSTART"]
    BY DEF wpa_stop_retx
  <2> HIDE DEF e, v
  <2> QED
    BY <1>1, <1>2, <2>1, Values DEF Entry, v
<1> HIDE DEF e
<1>5. /\ n \in Entry /\ n.used /\ n.state = "PTKINITNEGOTIATING" /\ n.retry_state = "PTKSTART"
      /\ n.replay = sta[s].replay /\ n.anonce = gkc + 1 /\ n.mode = mode /\ ~n.hndlr
  <2>1. n = [e EXCEPT !.retry_state = "PTKSTART", !.state = "PTKINITNEGOTIATING", !.td = TRUE]
    BY DEF arm
  <2> QED
    BY <1>4, <2>1, Values DEF Entry
<1> HIDE DEF n
<1>6. m \in Frame /\ m.sta = s /\ m.replay = sta[s].replay /\ m.kind = "M1"
  BY <1>1, <1>4, SendFields DEF Sending, FrameKind
<1> HIDE DEF m
<1>7. net' = NetWithout({s}) \cup {m} /\ net' \subseteq Frame /\ gtk' \in Nat /\ plumbed' \in BOOLEAN
  BY <1>1, <1>3, <1>6, SendTyped DEF NetWithout, WpaInv
<1>8. StaInv(s)'
  <2>1. sta'[s] = n /\ peer'[s] = Stranger /\ sta[s].replay \in Nat
    BY <1>1, <1>3 DEF Entry
  <2>2. \A x \in net' : x.sta = s => x = m
    BY <1>7 DEF NetWithout
  <2> QED
    BY <1>2, <1>5, <1>6, <2>1, <2>2, Empty DEF StaInv, Stage, ReplayAhead, AnswersTold, Fresh
<1>9. /\ key' \in [Stas -> Nonces] /\ authz' \subseteq Stas
      /\ \A q \in Stas : q # s => key'[q] = key[q] /\ (q \in authz' <=> q \in authz)
      /\ \A x : x.sta # s => (x \in net' <=> x \in net)
  BY <1>1, <1>3, <1>6, <1>7, Values DEF NetWithout
<1> QED
  BY <1>2, <1>3, <1>5, <1>7, <1>8, <1>9, Empty, StationStep

-----------------------------------------------------------------------------
(* Handshakes *)

\* The authenticator sends station s the frame m and goes on with entry n; a
\* MIC-protected frame has a new replay counter.
LEMMA SendKeeps ==
    ASSUME WpaInv, NEW s \in Stas, sta[s].used, NEW n \in Entry, NEW m \in Frame, NEW k \in Nonces,
           n.used, n.anonce # 0, n.mode = sta[s].mode, n.replay >= sta[s].replay,
           m.sta = s, m.replay = n.replay, m.kind \in {"M1", "M3", "G1"},
           m.kind # "M1" => n.replay > sta[s].replay,
           Send(m, net), sta' = [sta EXCEPT ![s] = n], key' = [key EXCEPT ![s] = k],
           UNCHANGED <<authz, peer, cm, cms>>, gkc' \in Nonces, Stage(s)'
    PROVE  WpaInv'
<1>1. /\ sta \in [Stas -> Entry] /\ peer \in [Stas -> Peer] /\ key \in [Stas -> Nonces]
      /\ authz \subseteq Stas /\ net \subseteq Frame
  BY Typed DEF WpaInv
<1>2. net' = net \cup {m} /\ net' \subseteq Frame /\ gtk' \in Nat /\ plumbed' \in BOOLEAN
  BY <1>1, SendTyped DEF WpaInv
<1>3. sta'[s] = n /\ peer'[s] = peer[s] /\ peer' = [peer EXCEPT ![s] = peer[s]] /\ peer[s] \in Peer
  BY <1>1
<1>4. StaInv(s) /\ sta[s].replay \in Nat /\ n.replay \in Nat /\ peer[s].replay \in Int
      /\ \A x \in net : x.replay \in Nat
  BY <1>1 DEF WpaInv, Entry, Peer, Frame
<1>5. ReplayAhead(s)'
  BY <1>2, <1>3, <1>4 DEF StaInv, ReplayAhead
<1>6. AnswersTold(s)'
  BY <1>2, <1>3, <1>4 DEF StaInv, AnswersTold
<1>7. Fresh(s)'
  <2>1. \A x \in net : x.sta = s => x.replay <= sta[s].replay
    BY <1>4 DEF StaInv, ReplayAhead
  <2>2. \A x \in net : x.sta = s /\ m.kind # "M1" => x.replay # m.replay
    BY <1>4, <2>1
  <2> QED
    BY <1>2, <1>4, <2>2 DEF StaInv, Fresh
<1>8. StaInv(s)'
  BY <1>3, <1>5, <1>6, <1>7 DEF StaInv
<1>9. /\ key' \in [Stas -> Nonces] /\ authz' \subseteq Stas
      /\ \A q \in Stas : q # s => key'[q] = key[q] /\ (q \in authz' <=> q \in authz)
      /\ \A x : x.sta # s => (x \in net' <=> x \in net)
      /\ cm /\ n.used => n.mode # "WPA"
  BY <1>1, <1>2 DEF WpaInv, CmKeepsTkipOut, Wpa
<1> QED
  BY <1>2, <1>3, <1>8, <1>9, StationStep

\* The entry of station s becomes n; nothing is sent.
LEMMA EntryKeeps ==
    ASSUME WpaInv, NEW s \in Stas, sta[s].used, NEW n \in Entry, NEW k \in Nonces,
           n.used, n.anonce # 0, n.mode = sta[s].mode, n.replay = sta[s].replay,
           sta' = [sta EXCEPT ![s] = n], key' = [key EXCEPT ![s] = k],
           authz' \in {authz, authz \cup {s}}, Stage(s)',
           UNCHANGED <<net, peer, gkc, gtk, plumbed, cm, cms>>
    PROVE  WpaInv'
<1>1. /\ sta \in [Stas -> Entry] /\ peer \in [Stas -> Peer] /\ key \in [Stas -> Nonces]
      /\ authz \subseteq Stas /\ net \subseteq Frame /\ gkc \in Nonces /\ gtk \in Nat
      /\ plumbed \in BOOLEAN
  BY Typed DEF WpaInv
<1>2. sta'[s] = n /\ peer'[s] = peer[s] /\ peer' = [peer EXCEPT ![s] = peer[s]] /\ peer[s] \in Peer
  BY <1>1
<1>3. StaInv(s)
  BY DEF WpaInv
<1>4. StaInv(s)'
  BY <1>2, <1>3 DEF StaInv, ReplayAhead, AnswersTold, Fresh
<1>5. /\ key' \in [Stas -> Nonces] /\ authz' \subseteq Stas
      /\ \A q \in Stas : q # s => key'[q] = key[q] /\ (q \in authz' <=> q \in authz)
      /\ \A x : x.sta # s => (x \in net' <=> x \in net)
      /\ cm /\ n.used => n.mode # "WPA"
  BY <1>1 DEF WpaInv, CmKeepsTkipOut, Wpa
<1> QED
  BY <1>1, <1>2, <1>4, <1>5, StationStep

\* The entry after message 2 has been taken.
LEMMA M2EntryFields ==
    ASSUME WpaInv, NEW s \in Stas, NEW m, M2Taken(s, m)
    PROVE  LET e == M2Entry(s) IN
           /\ sta[s].used /\ sta[s].replay \in Nat /\ sta[s].anonce # 0
           /\ e \in Entry /\ e.used /\ e.mode = sta[s].mode /\ e.replay = sta[s].replay
           /\ e.anonce = sta[s].anonce /\ e.ptk = e.anonce /\ ~e.hndlr
           /\ e.state = "PTKINITNEGOTIATING" /\ e.retry_state = "PTKSTART"
<1> DEFINE e == M2Entry(s)
<1>1. sta \in [Stas -> Entry] /\ sta[s].replay \in Nat
  BY Typed DEF WpaInv, Entry
<1>2. sta[s].used /\ sta[s].state = "PTKINITNEGOTIATING" /\ sta[s].retry_state = "PTKSTART"
      /\ sta[s].anonce # 0
  BY DEF M2Taken, Receives, WpaInv, StaInv, Stage
<1>3. e = [sta[s] EXCEPT !.td = FALSE, !.hndlr = FALSE, !.ptk = sta[s].anonce]
  BY <1>1 DEF M2Entry, wpa_calc_ptk, wpa_stop_retx, Entry
<1> HIDE DEF e
<1>4. /\ e \in Entry /\ e.used /\ e.mode = sta[s].mode /\ e.replay = sta[s].replay
      /\ e.anonce = sta[s].anonce /\ e.ptk = e.anonce /\ ~e.hndlr
      /\ e.state = "PTKINITNEGOTIATING" /\ e.retry_state = "PTKSTART"
  BY <1>1, <1>2, <1>3 DEF Entry
<1> QED
  BY <1>1, <1>2, <1>4 DEF e

\* Message 2 with a wrong MIC: the authenticator goes on waiting.
LEMMA RxM2BadMicKeeps ==
    ASSUME WpaInv, NEW s \in Stas, NEW m \in net, RxM2BadMic(s, m)
    PROVE  WpaInv'
<1> DEFINE e == M2Entry(s)
           a == arm(e)
<1>1. /\ sta \in [Stas -> Entry] /\ key \in [Stas -> Nonces]
  BY Typed DEF WpaInv
<1>2. /\ sta[s].used /\ sta[s].anonce # 0 /\ e \in Entry /\ e.used /\ e.mode = sta[s].mode
      /\ e.replay = sta[s].replay /\ e.anonce = sta[s].anonce /\ ~e.hndlr
      /\ e.state = "PTKINITNEGOTIATING" /\ e.retry_state = "PTKSTART"
  BY M2EntryFields DEF RxM2BadMic
<1>3. /\ sta' = [sta EXCEPT ![s] = a] /\ key' = [key EXCEPT ![s] = key[s]] /\ key[s] \in Nonces
      /\ UNCHANGED <<net, peer, gkc, gtk, plumbed, cm, cms, authz>>
  BY <1>1 DEF RxM2BadMic, group, driver
<1> HIDE DEF e
<1>4. /\ a \in Entry /\ a.used /\ a.mode = sta[s].mode /\ a.replay = sta[s].replay
      /\ a.anonce = sta[s].anonce /\ ~a.hndlr
      /\ a.state = "PTKINITNEGOTIATING" /\ a.retry_state = "PTKSTART"
  BY <1>2 DEF arm, Entry
<1> HIDE DEF a
<1>5. Stage(s)'
  BY <1>1, <1>3, <1>4 DEF Stage
<1> QED
  BY <1>2, <1>3, <1>4, <1>5, EntryKeeps

\* Message 2: message 3 goes out under a new replay counter.
LEMMA RxM2Keeps ==
    ASSUME WpaInv, NEW s \in Stas, NEW m \in net, RxM2(s, m)
    PROVE  WpaInv'
<1> DEFINE e == M2Entry(s)
           f == [incr_replay(e) EXCEPT !.retries = 0]
           n == arm([f EXCEPT !.hndlr = falls_through(s), !.retry_state = "PTKINITNEGOTIATING",
                              !.state = "PTKINITDONE"])
           x == wpa_send_eapol(s, f, GtkInUse)
<1>1. /\ sta \in [Stas -> Entry] /\ key \in [Stas -> Nonces] /\ GtkInUse \in Nat
      /\ gkc \in Nonces /\ sta[s].replay \in Nat
  BY Typed, GtkInUseTyped DEF WpaInv, Entry
<1>2. /\ sta[s].used /\ sta[s].anonce # 0 /\ e \in Entry /\ e.used /\ e.mode = sta[s].mode
      /\ e.replay = sta[s].replay /\ e.anonce = sta[s].anonce /\ e.ptk = e.anonce
      /\ e.state = "PTKINITNEGOTIATING"
  BY M2EntryFields DEF RxM2
<1>3. /\ Send(x, net) /\ sta' = [sta EXCEPT ![s] = n]
      /\ key' = [key EXCEPT ![s] = key[s]] /\ key[s] \in Nonces /\ UNCHANGED <<gkc, cm, cms, authz, peer>>
  BY <1>1 DEF RxM2, driver
<1> HIDE DEF e
<1>4. /\ f \in Entry /\ f.used /\ f.mode = sta[s].mode /\ f.replay = sta[s].replay + 1
      /\ f.anonce = sta[s].anonce /\ f.ptk = f.anonce /\ f.state = "PTKINITNEGOTIATING"
  <2> DEFINE v == e.replay + 1
  <2>1. v \in Nat /\ v = sta[s].replay + 1
    BY <1>1, <1>2
  <2>2. f = [e EXCEPT !.replay = v, !.retries = 0]
    BY DEF incr_replay
  <2> HIDE DEF f, v
  <2> QED
    BY <1>2, <2>1, <2>2, Values DEF Entry
<1> HIDE DEF f
<1>5. /\ n \in Entry /\ n.used /\ n.mode = sta[s].mode /\ n.replay = sta[s].replay + 1
      /\ n.anonce = sta[s].anonce /\ n.ptk = n.anonce /\ n.state = "PTKINITDONE"
      /\ n.retry_state = "PTKINITNEGOTIATING" /\ (n.hndlr <=> Wpa(s))
  <2> DEFINE b == falls_through(s)
  <2>1. b \in BOOLEAN /\ (b <=> Wpa(s))
    BY DEF falls_through, Wpa
  <2>2. n = [f EXCEPT !.hndlr = b, !.retry_state = "PTKINITNEGOTIATING",
                      !.state = "PTKINITDONE", !.td = TRUE]
    BY DEF arm
  <2> HIDE DEF b, n
  <2> QED
    BY <1>4, <2>1, <2>2, Values DEF Entry
<1> HIDE DEF n
<1>6. x \in Frame /\ x.sta = s /\ x.replay = sta[s].replay + 1 /\ x.kind = "M3"
  BY <1>1, <1>4, SendFields DEF Sending, FrameKind
<1> HIDE DEF x
<1>7. Stage(s)'
  BY <1>1, <1>2, <1>3, <1>5 DEF Stage, Wpa
<1>8. n.replay >= sta[s].replay /\ n.replay > sta[s].replay
  BY <1>1, <1>5
<1> QED
  BY <1>1, <1>2, <1>3, <1>5, <1>6, <1>7, <1>8, SendKeeps

\* The entry of a station whose group key handshake starts, made from entry e.
Rekeyed(r, e) ==
    /\ r \in Entry /\ r.used = e.used /\ r.mode = e.mode /\ r.anonce = e.anonce /\ r.ptk = e.ptk
    /\ r.replay = e.replay + 1 /\ r.state = "REKEYNEGOTIATING"
    /\ r.retry_state = "REKEYNEGOTIATING" /\ ~r.hndlr

\* What wpa_ptkinitdone2 and wpa_new_gtk_callback make of an entry.
LEMMA RekeyEntry ==
    ASSUME NEW e \in Entry, NEW td \in BOOLEAN
    PROVE  LET r == [incr_replay(wpa_stop_retx(e)) EXCEPT !.state = "REKEYNEGOTIATING",
                        !.retry_state = "REKEYNEGOTIATING", !.retries = 0]
               q == [incr_replay(wpa_stop_retx(e)) EXCEPT !.retries = 0,
                        !.state = "REKEYNEGOTIATING", !.retry_state = "REKEYNEGOTIATING"] IN
           Rekeyed(r, e) /\ Rekeyed([arm(r) EXCEPT !.td = td], e)
           /\ Rekeyed(q, e) /\ Rekeyed(arm(q), e)
<1> DEFINE v == e.replay + 1
           r == [incr_replay(wpa_stop_retx(e)) EXCEPT !.state = "REKEYNEGOTIATING",
                    !.retry_state = "REKEYNEGOTIATING", !.retries = 0]
           q == [incr_replay(wpa_stop_retx(e)) EXCEPT !.retries = 0,
                    !.state = "REKEYNEGOTIATING", !.retry_state = "REKEYNEGOTIATING"]
<1>1. v \in Nat
  BY DEF Entry
<1>2. /\ r = [e EXCEPT !.td = FALSE, !.hndlr = FALSE, !.replay = v, !.state = "REKEYNEGOTIATING",
                 !.retry_state = "REKEYNEGOTIATING", !.retries = 0]
      /\ q = [e EXCEPT !.td = FALSE, !.hndlr = FALSE, !.replay = v, !.retries = 0,
                 !.state = "REKEYNEGOTIATING", !.retry_state = "REKEYNEGOTIATING"]
  BY DEF incr_replay, wpa_stop_retx, Entry
<1> HIDE DEF v, r, q
<1>3. Rekeyed(r, e)
  BY <1>1, <1>2, Values DEF Rekeyed, Entry, v
<1>4. Rekeyed(q, e)
  BY <1>1, <1>2, Values DEF Rekeyed, Entry, v
<1>5. Rekeyed([r EXCEPT !.td = td], e)
  BY <1>3 DEF Rekeyed, Entry
<1>6. Rekeyed([q EXCEPT !.td = TRUE], e)
  BY <1>4 DEF Rekeyed, Entry
<1>7. arm(q) = [q EXCEPT !.td = TRUE] /\ [arm(r) EXCEPT !.td = td] = [r EXCEPT !.td = td]
  BY <1>3 DEF arm, Rekeyed, Entry
<1> QED
  BY <1>3, <1>4, <1>5, <1>6, <1>7 DEF r, q

\* An entry whose handshake is over.
LEMMA DoneEntry ==
    ASSUME NEW e \in Entry
    PROVE  LET d == [wpa_stop_retx(e) EXCEPT !.state = "SETKEYSDONE",
                        !.retry_state = "SETKEYSDONE"] IN
           /\ d \in Entry /\ d.used = e.used /\ d.mode = e.mode /\ d.anonce = e.anonce
           /\ d.ptk = e.ptk /\ d.replay = e.replay /\ d.state = "SETKEYSDONE"
           /\ ~d.hndlr /\ ~d.td
  BY Values DEF wpa_stop_retx, Entry

\* The pairwise key is plumbed.  If that ends the handshake, the station must
\* have answered message 3 under the present replay counter.
LEMMA PtkinitdoneKeeps ==
    ASSUME WpaInv, NEW s \in Stas, sta[s].used, sta[s].state = "PTKINITDONE", NEW td \in BOOLEAN,
           ~Wpa(s) => peer[s].ptk = sta[s].ptk /\ peer[s].replay = sta[s].replay,
           wpa_ptkinitdone2(s, td)
    PROVE  WpaInv'
<1> DEFINE e == wpa_stop_retx(sta[s])
           d == [e EXCEPT !.state = "SETKEYSDONE", !.retry_state = "SETKEYSDONE"]
           r == [incr_replay(e) EXCEPT !.state = "REKEYNEGOTIATING",
                    !.retry_state = "REKEYNEGOTIATING", !.retries = 0]
           n == [arm(r) EXCEPT !.td = td]
           x == wpa_send_eapol(s, r, GtkInUse)
           k == sta[s].ptk
<1>1. /\ sta \in [Stas -> Entry] /\ key \in [Stas -> Nonces] /\ GtkInUse \in Nat
      /\ gkc \in Nonces /\ sta[s] \in Entry /\ sta[s].replay \in Nat /\ k \in Nonces
      /\ authz \subseteq Stas
  BY Typed, GtkInUseTyped DEF WpaInv, Entry
<1>2. sta[s].anonce # 0 /\ sta[s].ptk # 0
  BY DEF WpaInv, StaInv, Stage
<1>3. key' = [key EXCEPT ![s] = k] /\ UNCHANGED <<gkc, cm, cms, peer>>
  BY <1>1 DEF wpa_ptkinitdone2, wpa_ptkinitdone_key, wpa_stop_retx, Entry
<1>4. CASE Wpa(s)
  <2>1. Send(x, net) /\ sta' = [sta EXCEPT ![s] = n] /\ authz' = authz
    BY <1>4 DEF wpa_ptkinitdone2
  <2>2. Rekeyed(r, sta[s]) /\ Rekeyed(n, sta[s])
    BY <1>1, RekeyEntry
  <2> HIDE DEF r, n
  <2>3. x \in Frame /\ x.sta = s /\ x.replay = sta[s].replay + 1 /\ x.kind = "G1"
    BY <1>1, <2>2, SendFields DEF Sending, FrameKind, Rekeyed
  <2> HIDE DEF x, k
  <2>4. /\ n \in Entry /\ n.used /\ n.anonce # 0 /\ n.mode = sta[s].mode
        /\ n.replay >= sta[s].replay /\ n.replay > sta[s].replay /\ x.replay = n.replay
    BY <1>1, <1>2, <2>2, <2>3 DEF Rekeyed
  <2>5. Stage(s)'
    <3>1. sta'[s] = n /\ key'[s] = k /\ k # 0 /\ n.ptk = k
      BY <1>1, <1>2, <1>3, <2>1, <2>2 DEF Rekeyed, k
    <3> QED
      BY <2>2, <3>1 DEF Stage, Rekeyed
  <2> QED
    BY <1>1, <1>3, <2>1, <2>3, <2>4, <2>5, SendKeeps
<1>5. CASE ~Wpa(s)
  <2>1. sta' = [sta EXCEPT ![s] = d] /\ authz' = authz \cup {s} /\ UNCHANGED <<net, gtk, plumbed>>
    BY <1>5 DEF wpa_ptkinitdone2, group
  <2>2. /\ d \in Entry /\ d.used /\ d.mode = sta[s].mode /\ d.anonce # 0 /\ d.ptk = k
        /\ d.replay = sta[s].replay /\ d.state = "SETKEYSDONE" /\ ~d.hndlr /\ ~d.td
    BY <1>1, <1>2, DoneEntry
  <2> HIDE DEF d
  <2>3. Stage(s)'
    <3>1. sta'[s] = d /\ key'[s] = k /\ s \in authz' /\ peer'[s] = peer[s] /\ k # 0
      BY <1>1, <1>2, <1>3, <2>1
    <3> QED
      BY <1>5, <2>2, <3>1 DEF Stage
  <2> HIDE DEF k
  <2> QED
    BY <1>1, <1>3, <2>1, <2>2, <2>3, EntryKeeps
<1> QED
  BY <1>4, <1>5

\* Message 4: it answers message 3 of the present replay counter, so its key is
\* the one the station has installed.
LEMMA RxM4Keeps ==
    ASSUME WpaInv, NEW s \in Stas, NEW m \in net, RxM4(s, m)
    PROVE  WpaInv'
<1>1. /\ sta[s].used /\ sta[s].state = "PTKINITDONE" /\ m.sta = s /\ m.kind = "M4"
      /\ m.replay = sta[s].replay /\ m.ptk = sta[s].ptk /\ wpa_ptkinitdone2(s, TRUE)
  BY DEF RxM4, M4Accepted, Receives, mic_ok
<1>2. peer[s].replay \in Int /\ sta[s].replay \in Nat
  BY Typed DEF WpaInv, Peer, Entry
<1>3. peer[s].replay = sta[s].replay /\ peer[s].ptk = sta[s].ptk
  BY <1>1, <1>2 DEF WpaInv, StaInv, ReplayAhead, AnswersTold
<1> QED
  BY <1>1, <1>3, PtkinitdoneKeeps

\* Message 2 of the group key handshake.
LEMMA RxG2Keeps ==
    ASSUME WpaInv, NEW s \in Stas, NEW m \in net, RxG2(s, m)
    PROVE  WpaInv'
<1> DEFINE d == [wpa_stop_retx(sta[s]) EXCEPT !.state = "SETKEYSDONE",
                   !.retry_state = "SETKEYSDONE"]
<1>1. /\ sta \in [Stas -> Entry] /\ key \in [Stas -> Nonces] /\ sta[s] \in Entry
      /\ key[s] \in Nonces /\ peer[s].replay \in Int /\ sta[s].replay \in Nat
  BY Typed DEF WpaInv, Entry, Peer
<1>2. /\ sta[s].used /\ sta[s].state = "REKEYNEGOTIATING" /\ m.sta = s /\ m.kind = "G2"
      /\ m.replay = sta[s].replay /\ m.ptk = sta[s].ptk
  BY DEF RxG2, Receives, mic_ok
<1>3. peer[s].replay = sta[s].replay /\ peer[s].ptk = sta[s].ptk
  BY <1>1, <1>2 DEF WpaInv, StaInv, ReplayAhead, AnswersTold
<1>4. sta[s].anonce # 0 /\ sta[s].ptk # 0 /\ key[s] = sta[s].ptk
  BY <1>2 DEF WpaInv, StaInv, Stage
<1>5. /\ sta' = [sta EXCEPT ![s] = d] /\ authz' = authz \cup {s} /\ key' = [key EXCEPT ![s] = key[s]]
      /\ key' = key /\ UNCHANGED <<net, peer, gkc, gtk, plumbed, cm, cms>>
  BY <1>1 DEF RxG2, group
<1>6. /\ d \in Entry /\ d.used /\ d.mode = sta[s].mode /\ d.anonce # 0 /\ d.ptk = sta[s].ptk
      /\ d.replay = sta[s].replay /\ d.state = "SETKEYSDONE" /\ ~d.hndlr /\ ~d.td
  BY <1>1, <1>2, <1>4, DoneEntry
<1> HIDE DEF d
<1>7. Stage(s)'
  <2>1. sta'[s] = d /\ key'[s] = key[s] /\ s \in authz' /\ peer'[s] = peer[s]
    BY <1>1, <1>5
  <2> QED
    BY <1>3, <1>4, <1>6, <2>1 DEF Stage
<1> QED
  BY <1>1, <1>2, <1>5, <1>6, <1>7, EntryKeeps

\* A request for a new pairwise key: message 1 goes out under the old replay counter.
LEMMA RxPairwiseRequestKeeps ==
    ASSUME WpaInv, NEW s \in Stas, RxPairwiseRequest(s)
    PROVE  WpaInv'
<1> DEFINE v == gkc + 1
           e == [wpa_stop_retx(sta[s]) EXCEPT !.anonce = gkc + 1, !.retries = 0,
                    !.state = "PTKSTART", !.retry_state = "PTKSTART"]
           n == arm([e EXCEPT !.state = "PTKINITNEGOTIATING"])
           x == wpa_send_eapol(s, e, GtkInUse)
<1>1. /\ sta \in [Stas -> Entry] /\ key \in [Stas -> Nonces] /\ GtkInUse \in Nat
      /\ sta[s] \in Entry /\ sta[s].replay \in Nat /\ key[s] \in Nonces
  BY Typed, GtkInUseTyped DEF WpaInv, Entry
<1>2. v \in Nonces /\ v # 0
  BY Typed, WpaAssumption DEF WpaInv, RxPairwiseRequest, Nonces
<1>3. /\ sta[s].used /\ Send(x, net) /\ sta' = [sta EXCEPT ![s] = n] /\ gkc' = v
      /\ key' = [key EXCEPT ![s] = key[s]] /\ UNCHANGED <<authz, peer, cm, cms>>
  BY <1>1 DEF RxPairwiseRequest, wpa_setkeysdone, wpa_incr_gkc, driver
<1>4. e = [sta[s] EXCEPT !.td = FALSE, !.hndlr = FALSE, !.anonce = v, !.retries = 0,
             !.state = "PTKSTART", !.retry_state = "PTKSTART"]
  BY DEF wpa_stop_retx
<1> HIDE DEF e, v
<1>5. /\ e \in Entry /\ e.used /\ e.mode = sta[s].mode /\ e.replay = sta[s].replay
      /\ e.anonce = v /\ e.state = "PTKSTART" /\ e.retry_state = "PTKSTART" /\ ~e.hndlr
  BY <1>1, <1>2, <1>3, <1>4, Values DEF Entry
<1>6. /\ n \in Entry /\ n.used /\ n.mode = sta[s].mode /\ n.replay = sta[s].replay
      /\ n.anonce = v /\ n.state = "PTKINITNEGOTIATING" /\ n.retry_state = "PTKSTART" /\ ~n.hndlr
  BY <1>5, Values DEF arm, Entry
<1> HIDE DEF n
<1>7. x \in Frame /\ x.sta = s /\ x.replay = sta[s].replay /\ x.kind = "M1"
  BY <1>1, <1>5, SendFields DEF Sending, FrameKind
<1> HIDE DEF x
<1>8. Stage(s)'
  BY <1>1, <1>3, <1>6 DEF Stage
<1>9. n.anonce # 0 /\ n.replay >= sta[s].replay /\ x.replay = n.replay /\ gkc' \in Nonces
  BY <1>1, <1>2, <1>3, <1>6, <1>7
<1> QED
  BY <1>1, <1>3, <1>6, <1>7, <1>8, <1>9, SendKeeps

-----------------------------------------------------------------------------
(* The timers *)

\* A new group key for all the stations with keys: every one of them starts a
\* group key handshake under a replay counter of its own.
LEMMA NewGtkKeeps ==
    ASSUME WpaInv, wpa_new_gtk_callback
    PROVE  WpaInv'
<1> DEFINE keyed == {s \in Stas : sta[s].used /\ sta[s].state = "SETKEYSDONE"}
           rekey(s) == [incr_replay(wpa_stop_retx(sta[s])) EXCEPT !.retries = 0,
                          !.state = "REKEYNEGOTIATING", !.retry_state = "REKEYNEGOTIATING"]
           n(s) == arm(rekey(s))
           g == wpa_gen_gtk(gtk)
           x(s) == wpa_send_eapol(s, rekey(s), g)
<1>1. /\ sta \in [Stas -> Entry] /\ peer \in [Stas -> Peer] /\ key \in [Stas -> Nonces]
      /\ gkc \in Nonces /\ gtk \in Nat /\ cm \in BOOLEAN /\ cms \in 0..MaxCm /\ authz \subseteq Stas
      /\ net \subseteq Frame
  BY Typed DEF WpaInv
<1>2. g \in Nat
  BY <1>1 DEF wpa_gen_gtk
<1>3. /\ gtk' = g /\ plumbed' = TRUE /\ UNCHANGED <<gkc, cm, cms, key, authz, peer>>
      /\ sta' = [s \in Stas |-> IF s \in keyed THEN n(s) ELSE sta[s]]
      /\ net' = net \cup {x(s) : s \in keyed}
  BY DEF wpa_new_gtk_callback, wpa_plumb_gtk, driver
<1> HIDE DEF g
<1>4. ASSUME NEW s \in Stas PROVE Rekeyed(rekey(s), sta[s]) /\ Rekeyed(n(s), sta[s])
  BY <1>1, RekeyEntry
<1> HIDE DEF rekey, n
<1>5. ASSUME NEW s \in Stas
      PROVE  x(s) \in Frame /\ x(s).sta = s /\ x(s).replay = sta[s].replay + 1 /\ x(s).kind = "G1"
  BY <1>2, <1>4, SendFields DEF Sending, FrameKind, Rekeyed
<1> HIDE DEF x
<1>6. TableOK'
  <2>1. sta' \in [Stas -> Entry]
    BY <1>1, <1>3, <1>4 DEF Rekeyed
  <2>2. net' \subseteq Frame
    BY <1>1, <1>3, <1>5
  <2> QED
    BY <1>1, <1>2, <1>3, <2>1, <2>2, TypedNext
<1>7. CmKeepsTkipOut'
  BY <1>3, <1>4 DEF WpaInv, CmKeepsTkipOut, Wpa, Rekeyed
<1>8. ASSUME NEW q \in Stas PROVE StaInv(q)'
  <2>1. StaInv(q)
    BY DEF WpaInv
  <2>2. CASE q \notin keyed
    <3>1. sta'[q] = sta[q]
      BY <1>3, <2>2
    <3>2. \A m : m.sta = q => (m \in net' <=> m \in net)
      BY <1>3, <1>5, <2>2
    <3> QED
      BY <1>3, <2>1, <3>1, <3>2, Untouched
  <2>3. CASE q \in keyed
    <3>1. sta'[q] = n(q) /\ sta[q].used /\ sta[q].state = "SETKEYSDONE"
      BY <1>3, <2>3
    <3>2. \A m \in net' : m.sta = q => m \in net \/ m = x(q)
      BY <1>3, <1>5
    <3>3. /\ sta[q].replay \in Nat /\ peer[q].replay \in Int /\ n(q).replay = sta[q].replay + 1
          /\ \A m \in net : m.replay \in Nat
      BY <1>1, <1>4 DEF Rekeyed, Entry, Peer, Frame
    <3>4. Stage(q)' /\ n(q).used /\ n(q).anonce # 0
      BY <1>3, <1>4, <2>1, <3>1 DEF StaInv, Stage, Rekeyed
    <3>5. ReplayAhead(q)'
      BY <1>3, <1>5, <2>1, <3>1, <3>2, <3>3 DEF StaInv, ReplayAhead
    <3>6. AnswersTold(q)'
      BY <1>3, <1>5, <2>1, <3>2 DEF StaInv, AnswersTold
    <3>7. Fresh(q)'
      <4>1. \A m \in net : m.sta = q => m.replay # x(q).replay
        BY <1>5, <2>1, <3>3 DEF StaInv, ReplayAhead
      <4> QED
        BY <2>1, <3>2, <4>1 DEF StaInv, Fresh
    <3> QED
      BY <3>1, <3>4, <3>5, <3>6, <3>7 DEF StaInv
  <2> QED
    BY <2>2, <2>3
<1> QED
  BY <1>6, <1>7, <1>8 DEF WpaInv

\* The retransmission timer: the last message goes out again, under a new replay counter.
LEMMA RetxSendKeeps ==
    ASSUME WpaInv, NEW s \in Stas, RetxSend(s)
    PROVE  WpaInv'
<1> DEFINE v == sta[s].replay + 1
           w == sta[s].retries + 1
           e == [incr_replay(sta[s]) EXCEPT !.retries = sta[s].retries + 1]
           f == [e EXCEPT !.state = e.retry_state]
           g == IF Wpa(s) THEN gtk ELSE GtkInUse
           x == wpa_send_eapol(s, f, g)
<1>1. /\ sta \in [Stas -> Entry] /\ key \in [Stas -> Nonces] /\ g \in Nat
      /\ sta[s] \in Entry /\ key[s] \in Nonces /\ gkc \in Nonces
  BY Typed, GtkInUseTyped DEF WpaInv
<1>2. v \in Nat /\ w \in Tries /\ sta[s].replay \in Nat
  BY <1>1, WpaAssumption DEF RetxSend, give_up, Tries, Entry
<1>3. sta[s].used /\ sta[s].td /\ sta[s].anonce # 0 /\ Stage(s)
  BY DEF RetxSend, Fires, WpaInv, StaInv
<1>4. /\ Send(x, net) /\ sta' = [sta EXCEPT ![s] = e] /\ gkc' = gkc
      /\ key' = [key EXCEPT ![s] = key[s]] /\ key' = key /\ UNCHANGED <<authz, peer, cm, cms>>
  BY <1>1 DEF RetxSend, driver
<1>5. e = [sta[s] EXCEPT !.replay = v, !.retries = w]
  BY DEF incr_replay
<1> HIDE DEF e, v, w, g
<1>6. /\ e \in Entry /\ e.used = sta[s].used /\ e.mode = sta[s].mode /\ e.replay = v
      /\ e.anonce = sta[s].anonce /\ e.ptk = sta[s].ptk /\ e.state = sta[s].state
      /\ e.retry_state = sta[s].retry_state /\ e.hndlr = sta[s].hndlr /\ e.td = sta[s].td
  BY <1>1, <1>2, <1>5 DEF Entry
<1>7. e.retry_state \in Sending
  BY <1>3, <1>6 DEF Stage, Sending
<1>8. f \in Entry /\ f.state = e.retry_state /\ f.replay = v
  BY <1>6 DEF Entry
<1> HIDE DEF f
<1>9. x \in Frame /\ x.sta = s /\ x.replay = v /\ x.kind \in {"M1", "M3", "G1"}
  BY <1>1, <1>7, <1>8, SendFields DEF Sending, FrameKind
<1> HIDE DEF x
<1>10. Stage(s)'
  <2>1. sta'[s] = e
    BY <1>1, <1>4
  <2> QED
    BY <1>3, <1>4, <1>6, <2>1 DEF Stage, Wpa
<1>11. e.used /\ e.anonce # 0 /\ e.replay >= sta[s].replay /\ e.replay > sta[s].replay
  BY <1>2, <1>3, <1>6 DEF v
<1>12. e \in Entry /\ e.mode = sta[s].mode /\ x.replay = e.replay /\ gkc' \in Nonces
  BY <1>1, <1>4, <1>6, <1>9
<1> QED
  BY <1>1, <1>3, <1>4, <1>9, <1>10, <1>11, <1>12, SendKeeps

-----------------------------------------------------------------------------
(* The stations *)

\* A station answers frame m with x.
LEMMA ReplyKeeps ==
    ASSUME WpaInv, NEW s \in Stas, NEW m \in net, m.sta = s, NEW p \in Peer, NEW x \in Frame,
           x.sta = s, x.replay = m.replay, x.kind \in {"M2", "M2ie", "M4", "G2"},
           \/ p.replay = peer[s].replay /\ p.ptk = peer[s].ptk /\ x.kind \in {"M2", "M2ie"}
           \/ m.replay > peer[s].replay /\ p.replay = m.replay /\ p.ptk = m.ptk /\ x.ptk = m.ptk,
           peer' = [peer EXCEPT ![s] = p], net' = net \cup {x},
           UNCHANGED <<sta, gkc, gtk, plumbed, cm, cms, key, authz>>
    PROVE  WpaInv'
<1>1. /\ sta \in [Stas -> Entry] /\ peer \in [Stas -> Peer] /\ key \in [Stas -> Nonces]
      /\ gkc \in Nonces /\ gtk \in Nat /\ plumbed \in BOOLEAN /\ authz \subseteq Stas
      /\ net \subseteq Frame
  BY Typed DEF WpaInv
<1>2. /\ StaInv(s) /\ sta[s].replay \in Nat /\ peer[s].replay \in Int
      /\ \A y \in net : y.replay \in Nat
  BY <1>1 DEF WpaInv, Entry, Peer, Frame
<1>3. sta[s].used /\ peer'[s] = p
  BY <1>1, <1>2 DEF StaInv, Forgotten
<1>4. m.replay <= sta[s].replay
  BY <1>2 DEF StaInv, ReplayAhead
<1>5. Stage(s)'
  BY <1>2, <1>3, <1>4 DEF StaInv, Stage, Wpa
<1>6. ReplayAhead(s)'
  BY <1>2, <1>3, <1>4 DEF StaInv, ReplayAhead
<1>7. AnswersTold(s)'
  BY <1>2, <1>3 DEF StaInv, AnswersTold
<1>8. Fresh(s)'
  BY <1>2 DEF StaInv, Fresh
<1>9. StaInv(s)'
  BY <1>2, <1>3, <1>5, <1>6, <1>7, <1>8 DEF StaInv
<1>10. sta' = [sta EXCEPT ![s] = sta[s]] /\ sta[s] \in Entry /\ (cm /\ sta[s].used => sta[s].mode # "WPA")
  BY <1>1 DEF WpaInv, CmKeepsTkipOut, Wpa
<1>11. /\ net' \subseteq Frame /\ \A y : y.sta # s => (y \in net' <=> y \in net)
       /\ \A q \in Stas : q # s => key'[q] = key[q] /\ (q \in authz' <=> q \in authz)
  BY <1>1
<1> QED
  BY <1>1, <1>9, <1>10, <1>11, StationStep

\* The steps of the supplicants.
LEMMA PeerKeeps ==
    ASSUME WpaInv, NEW s \in Stas, NEW m \in net, PeerM1(s, m) \/ PeerM3(s, m) \/ PeerG1(s, m)
    PROVE  WpaInv'
<1>1. peer \in [Stas -> Peer] /\ peer[s] \in Peer /\ m \in Frame /\ m.sta = s
  BY Typed DEF WpaInv, PeerM1, PeerM3, PeerG1, Hears
<1>2. {"M2", "M2ie", "M4", "G2"} \subseteq Kinds
  BY DEF Kinds
<1>3. CASE PeerM1(s, m)
  <2>1. \E kind \in {"M2", "M2ie"}, y \in Nonces :
           Reply(s, kind, [m EXCEPT !.ptk = y], [peer[s] EXCEPT !.tptk = y])
    <3>1. m = [m EXCEPT !.ptk = m.ptk] /\ m.ptk \in Nonces
      BY <1>1 DEF Frame
    <3> QED
      BY <1>3, <3>1, Values DEF PeerM1
  <2>2. PICK kind \in {"M2", "M2ie"}, y \in Nonces :
           Reply(s, kind, [m EXCEPT !.ptk = y], [peer[s] EXCEPT !.tptk = y])
    BY <2>1
  <2> DEFINE p == [peer[s] EXCEPT !.tptk = y]
             x == [[m EXCEPT !.ptk = y] EXCEPT !.kind = kind, !.gtk = 0]
  <2>3. p \in Peer /\ p.replay = peer[s].replay /\ p.ptk = peer[s].ptk
    BY <1>1 DEF Peer
  <2>4. x \in Frame /\ x.sta = s /\ x.replay = m.replay /\ x.kind = kind
    BY <1>1, <1>2, Values DEF Frame
  <2>5. peer' = [peer EXCEPT ![s] = p] /\ net' = net \cup {x}
        /\ UNCHANGED <<sta, gkc, gtk, plumbed, cm, cms, key, authz>>
    BY <2>2 DEF Reply, group, driver
  <2> HIDE DEF p, x
  <2> QED
    BY <1>1, <2>3, <2>4, <2>5, ReplyKeeps
<1>4. CASE PeerM3(s, m)
  <2> DEFINE g == IF Wpa(s) THEN peer[s].gtk ELSE m.gtk
             p == [peer[s] EXCEPT !.replay = m.replay, !.ptk = m.ptk, !.gtk = g]
             x == [m EXCEPT !.kind = "M4", !.gtk = 0]
  <2>1. g \in Nat /\ m.replay \in Nat /\ m.replay \in Int /\ m.ptk \in Nonces
    BY <1>1 DEF Peer, Frame
  <2> HIDE DEF g
  <2>2. p \in Peer /\ p.replay = m.replay /\ p.ptk = m.ptk
    BY <1>1, <2>1 DEF Peer
  <2>3. x \in Frame /\ x.sta = s /\ x.replay = m.replay /\ x.kind = "M4" /\ x.ptk = m.ptk
    BY <1>1, <1>2, Values DEF Frame
  <2>4. /\ peer' = [peer EXCEPT ![s] = p] /\ net' = net \cup {x} /\ m.replay > peer[s].replay
        /\ UNCHANGED <<sta, gkc, gtk, plumbed, cm, cms, key, authz>>
    BY <1>4 DEF PeerM3, Hears, Reply, group, driver, g
  <2> HIDE DEF p, x
  <2> QED
    BY <1>1, <2>2, <2>3, <2>4, ReplyKeeps
<1>5. CASE PeerG1(s, m)
  <2> DEFINE p == [peer[s] EXCEPT !.replay = m.replay, !.gtk = m.gtk]
             x == [m EXCEPT !.kind = "G2", !.gtk = 0]
  <2>1. m.gtk \in Nat /\ m.replay \in Nat /\ m.replay \in Int /\ m.ptk = peer[s].ptk
    BY <1>1, <1>5 DEF Frame, PeerG1
  <2>2. p \in Peer /\ p.replay = m.replay /\ p.ptk = m.ptk
    BY <1>1, <2>1 DEF Peer
  <2>3. x \in Frame /\ x.sta = s /\ x.replay = m.replay /\ x.kind = "G2" /\ x.ptk = m.ptk
    BY <1>1, <1>2, Values DEF Frame
  <2>4. /\ peer' = [peer EXCEPT ![s] = p] /\ net' = net \cup {x} /\ m.replay > peer[s].replay
        /\ UNCHANGED <<sta, gkc, gtk, plumbed, cm, cms, key, authz>>
    BY <1>5 DEF PeerG1, Hears, Reply, group, driver
  <2> HIDE DEF p, x
  <2> QED
    BY <1>1, <2>2, <2>3, <2>4, ReplyKeeps
<1> QED
  BY <1>3, <1>4, <1>5

-----------------------------------------------------------------------------

\* Nothing is known of any station at first.
LEMMA WpaInit == Init => WpaInv
<1> SUFFICES ASSUME Init PROVE WpaInv
  OBVIOUS
<1>1. TableOK
  <2>1. sta \in [Stas -> Entry] /\ peer \in [Stas -> Peer] /\ key \in [Stas -> Nonces]
    BY Empty, Values DEF Init
  <2>2. gkc \in Nonces /\ cms \in 0..MaxCm
    BY Values, WpaAssumption DEF Init
  <2> QED
    BY <2>1, <2>2, Typed DEF Init
<1>2. CmKeepsTkipOut
  BY DEF Init, CmKeepsTkipOut
<1>3. ASSUME NEW s \in Stas PROVE StaInv(s)
  BY Empty DEF Init, StaInv, Forgotten, ReplayAhead, AnswersTold, Fresh
<1> QED
  BY <1>1, <1>2, <1>3 DEF WpaInv

\* Every step keeps the invariant.
LEMMA WpaStep == WpaInv /\ [Next]_vars => WpaInv'
<1> SUFFICES ASSUME WpaInv, [Next]_vars PROVE WpaInv'
  OBVIOUS
<1>1. plumbed \in BOOLEAN /\ cm \in BOOLEAN /\ cms \in 0..MaxCm
  BY DEF WpaInv, TableOK
<1>2. ASSUME NEW s \in Stas, cleanup_sta({s}), UNCHANGED <<gkc, group, cm, cms>> PROVE WpaInv'
  <2>1. {s} \in SUBSET Stas /\ gkc' = gkc /\ gtk' = gtk /\ plumbed' \in BOOLEAN /\ cm' \in BOOLEAN
        /\ cms' \in 0..MaxCm /\ (cm' => cm)
    BY <1>1, <1>2 DEF group
  <2> QED
    BY <1>2, <2>1, CleanupKeeps
<1>3. ASSUME NEW s \in Stas, NEW mode \in Modes, Assoc(s, mode) PROVE WpaInv'
  BY <1>3, AssocKeeps
<1>4. ASSUME NEW s \in Stas, AssocRefused(s) \/ Disassoc(s) PROVE WpaInv'
  BY <1>2, <1>4 DEF AssocRefused, Disassoc
<1>5. ASSUME NEW s \in Stas, wpa_mic_error(s) PROVE WpaInv'
  <2> DEFINE S == {q \in Stas : sta[q].used}
  <2>1. /\ S \in SUBSET Stas /\ cleanup_sta(S) /\ gkc' = gkc /\ gtk' = gtk /\ plumbed' \in BOOLEAN
        /\ cm' \in BOOLEAN /\ \A q \in Stas : sta[q].used => q \in S
    BY <1>5 DEF wpa_mic_error
  <2>2. cms' \in 0..MaxCm
    BY <1>1, <1>5, WpaAssumption DEF wpa_mic_error
  <2> HIDE DEF S
  <2> QED
    BY <2>1, <2>2, CleanupKeeps
<1>6. ASSUME NEW s \in Stas, RxPairwiseRequest(s) PROVE WpaInv'
  BY <1>6, RxPairwiseRequestKeeps
<1>10. ASSUME UNCHANGED <<sta, gkc, gtk, cms, key, authz, peer, net>>, plumbed' \in BOOLEAN,
              cm' \in BOOLEAN, cm' => cm
       PROVE  WpaInv'
  BY <1>10 DEF WpaInv, TableOK, CmKeepsTkipOut, Wpa, StaInv, Forgotten, Stage, ReplayAhead,
               AnswersTold, Fresh
<1>7. ASSUME NEW s \in Stas, Retx(s) PROVE WpaInv'
  <2>1. CASE RetxSend(s)
    BY <2>1, RetxSendKeeps
  <2>2. CASE RetxFallThrough(s)
    <3>1. sta[s].used /\ sta[s].td /\ sta[s].hndlr /\ wpa_ptkinitdone2(s, FALSE)
      BY <2>2 DEF RetxFallThrough, Fires
    <3>2. sta[s].state = "PTKINITDONE" /\ Wpa(s)
      BY <3>1 DEF WpaInv, StaInv, Stage
    <3> QED
      BY <3>1, <3>2, PtkinitdoneKeeps
  <2>3. CASE RetxGiveUp(s) \/ RetxNoRoom(s)
    BY <1>2, <2>3 DEF RetxGiveUp, RetxNoRoom
  <2>4. CASE RetxIdle(s)
    BY <1>1, <1>10, <2>4 DEF RetxIdle, group, driver
  <2> QED
    BY <1>7, <2>1, <2>2, <2>3, <2>4 DEF Retx
<1>8. ASSUME NEW s \in Stas, NEW m \in net,
             \/ RxM2(s, m) \/ RxM2BadMic(s, m) \/ RxM2Mismatch(s, m)
             \/ RxM4(s, m) \/ RxM4NoRoom(s, m) \/ RxG2(s, m)
      PROVE  WpaInv'
  <2>1. CASE RxM2Mismatch(s, m) \/ RxM4NoRoom(s, m)
    BY <1>2, <2>1 DEF RxM2Mismatch, RxM4NoRoom
  <2> QED
    BY <1>8, <2>1, RxM2Keeps, RxM2BadMicKeeps, RxM4Keeps, RxG2Keeps
<1>9. ASSUME NEW s \in Stas, NEW m \in net, PeerM1(s, m) \/ PeerM3(s, m) \/ PeerG1(s, m)
      PROVE  WpaInv'
  BY <1>9, PeerKeeps
<1>11. CASE LinkDown
  BY <1>1, <1>10, <1>11 DEF LinkDown, driver
<1>12. CASE wpa_new_gtk_callback
  BY <1>12, NewGtkKeeps
<1>13. CASE wpa_countermeasures_cb
  BY <1>1, <1>10, <1>13 DEF wpa_countermeasures_cb, group, driver
<1>14. ASSUME NEW s \in Stas, Elapse(s) PROVE WpaInv'
  BY <1>1, <1>10, <1>14 DEF Elapse, group, driver
<1>15. CASE UNCHANGED vars
  BY <1>1, <1>10, <1>15 DEF vars
<1> QED
  BY <1>3, <1>4, <1>5, <1>6, <1>7, <1>8, <1>9, <1>11, <1>12, <1>13, <1>14, <1>15 DEF Next

\* Throughout, the states, keys, replay counters and frames of the authenticator
\* and of every station fit together as WpaInv says.
THEOREM WpaCorrect == Spec => []WpaInv
  BY WpaInit, WpaStep, PTL DEF Spec

\* When the authenticator is done with a station, the port is open, the key in
\* the driver is the one the station has installed, and no timer is left.
THEOREM WpaKeysAgree == Spec => []KeysAgree
<1>1. WpaInv => KeysAgree
  BY DEF WpaInv, StaInv, Stage, KeysAgree
<1> QED
  BY <1>1, WpaCorrect, PTL

\* No two different MIC-protected frames to a station carry the same replay counter.
THEOREM WpaFreshReplay == Spec => []FreshReplay
<1>1. WpaInv => FreshReplay
  <2> SUFFICES ASSUME WpaInv, NEW m \in net, NEW n \in net,
                      m.kind \in {"M3", "G1"}, n.kind \in {"M3", "G1"},
                      m.sta = n.sta, m.replay = n.replay
               PROVE  m = n
    BY DEF FreshReplay
  <2>1. m.sta \in Stas
    BY Typed DEF WpaInv, Frame
  <2> QED
    BY <2>1 DEF WpaInv, StaInv, Fresh
<1> QED
  BY <1>1, WpaCorrect, PTL

\* During TKIP countermeasures no TKIP station has an entry.
THEOREM WpaCmKeepsTkipOut == Spec => []CmKeepsTkipOut
<1>1. WpaInv => CmKeepsTkipOut
  BY DEF WpaInv
<1> QED
  BY <1>1, WpaCorrect, PTL

=============================================================================
