------------------------------- MODULE WpaAuth -------------------------------
(***************************************************************************)
(* The WPA authenticator of nas: wpa.c with the station table of nas.c,    *)
(* for pre-shared keys.  nas is one thread around an event loop, so every  *)
(* handler is one action; what interleaves are the driver's events, EAPOL  *)
(* frames from the stations, the retransmission timers and the group       *)
(* rekeying timer.                                                         *)
(*                                                                         *)
(* A pairwise key is named by the authenticator's nonce it is derived from,*)
(* and a MIC is right when both ends derived it from the same one.  EAPOL  *)
(* frames may be lost, delayed, duplicated and reordered during an         *)
(* association: net only grows, and delivery leaves a frame in it.         *)
(***************************************************************************)
EXTENDS Integers, FiniteSets

CONSTANTS
    Stas,       \* stations; the table is large enough for them
    Modes,      \* what stations ask for: "WPA" (with TKIP), "WPA2" (with AES)
    WPA_RETRY,  \* retransmissions before the authenticator gives up (7)
    MaxNonce,   \* bound: handshakes started in one behaviour
    MaxGtk,     \* bound: group keys generated by rekeying or a link going down
    MaxCm,      \* bound: rounds of TKIP countermeasures
    LinkEvents  \* does the driver report link-down events?

ASSUME WpaAssumption ==
    /\ Modes \subseteq {"WPA", "WPA2"}
    /\ {WPA_RETRY, MaxNonce, MaxGtk, MaxCm} \subseteq Nat
    /\ LinkEvents \in BOOLEAN

VARIABLES
    sta,     \* nas->sta, see Entries
    gkc,     \* global_key_counter, the source of nonces
    gtk,     \* wpa->gtk, by number; 0 before the first
    plumbed, \* NAS_FLAG_GTK_PLUMBED
    cm,      \* MIC_countermeasures
    cms,     \* rounds of countermeasures so far
    key,     \* pairwise key the driver holds for a station, 0 if none
    authz,   \* stations the driver lets through
    peer,    \* the supplicant on each station (external)
    net,     \* EAPOL key frames of the current associations
    due      \* stations whose retransmission timer has run out since it was set

driver == <<key, authz>>
group == <<gtk, plumbed>>
vars == <<sta, gkc, gtk, plumbed, cm, cms, key, authz, peer, net, due>>

States == {"AUTHENTICATION2", "PTKSTART", "PTKINITNEGOTIATING", "PTKINITDONE",
           "REKEYNEGOTIATING", "SETKEYSDONE"}
Negotiating == {"PTKINITNEGOTIATING", "PTKINITDONE", "REKEYNEGOTIATING"}

\* td: the retransmission timer is set.  hndlr: retx_exceed_hndlr is set.
Entries == [used : BOOLEAN, mode : {"WPA", "WPA2"}, state : States, retry_state : States, td : BOOLEAN,
            hndlr : BOOLEAN, retries : 0..WPA_RETRY, replay : Nat,
            anonce : 0..MaxNonce, ptk : 0..MaxNonce]
Peers == [tptk : 0..MaxNonce, ptk : 0..MaxNonce, gtk : Nat, replay : Int]
Kinds == {"M1", "M2", "M2ie", "M3", "M4", "G1", "G2"}
Frames == [sta : Stas, kind : Kinds, replay : Nat, ptk : 0..MaxNonce, gtk : Nat]

Unused == [used |-> FALSE, mode |-> "WPA2", state |-> "AUTHENTICATION2",
           retry_state |-> "AUTHENTICATION2", td |-> FALSE, hndlr |-> FALSE,
           retries |-> 0, replay |-> 0, anonce |-> 0, ptk |-> 0]
Stranger == [tptk |-> 0, ptk |-> 0, gtk |-> 0, replay |-> -1]

TableOK ==
    /\ sta \in [Stas -> Entries]
    /\ gkc \in 0..MaxNonce
    /\ gtk \in Nat
    /\ plumbed \in BOOLEAN
    /\ cm \in BOOLEAN
    /\ cms \in 0..MaxCm
    /\ key \in [Stas -> 0..MaxNonce]
    /\ authz \in SUBSET Stas
    /\ peer \in [Stas -> Peers]
    /\ net \in SUBSET Frames

TypeOK == TableOK /\ due \in SUBSET Stas

Init ==
    /\ sta = [s \in Stas |-> Unused]
    /\ gkc = 0
    /\ gtk = 0
    /\ plumbed = FALSE
    /\ cm = FALSE
    /\ cms = 0
    /\ key = [s \in Stas |-> 0]
    /\ authz = {}
    /\ peer = [s \in Stas |-> Stranger]
    /\ net = {}
    /\ due = {}

-----------------------------------------------------------------------------
(* Helpers *)

\* The mode needs a group key handshake after the pairwise one.
Wpa(s) == sta[s].mode = "WPA"

NetWithout(S) == {m \in net : m.sta \notin S}

wpa_stop_retx(e) == [e EXCEPT !.td = FALSE, !.hndlr = FALSE]

\* The group key in the frame, sealed with the pairwise key: in every group
\* message, and in message 3 in WPA2 only.
key_data(s, e, g) ==
    IF \/ e.state = "REKEYNEGOTIATING"
       \/ e.state = "PTKINITNEGOTIATING" /\ ~Wpa(s)
    THEN g ELSE 0

\* The frame wpa_send_eapol builds for station s from entry e with group key g:
\* message 1 or 3 of the 4-way handshake or message 1 of the group handshake.
wpa_send_eapol(s, e, g) ==
    [sta |-> s,
     kind |-> CASE e.state = "PTKSTART" -> "M1"
                [] e.state = "PTKINITNEGOTIATING" -> "M3"
                [] e.state = "REKEYNEGOTIATING" -> "G1",
     replay |-> e.replay,
     ptk |-> IF e.state = "PTKSTART" THEN e.anonce ELSE e.ptk,
     gtk |-> key_data(s, e, g)]

\* The group key a frame is sent with: one is generated if none is plumbed.
wpa_gen_gtk(g) == g + 1
wpa_plumb_gtk == plumbed' = TRUE
GtkInUse == IF plumbed THEN gtk ELSE wpa_gen_gtk(gtk)
BringsNewGtk(m) == m.gtk \notin {0, gtk}

\* Send m; if it carries a group key generated for it, that key is now plumbed.
Send(m, others) ==
    /\ net' = others \cup {m}
    /\ IF BringsNewGtk(m) THEN gtk' = m.gtk /\ wpa_plumb_gtk
                          ELSE UNCHANGED group

\* cleanup_sta for the stations in S: deauthenticate, stop the timer, and give
\* the entry back.  The driver forgets the station and its key.
cleanup_sta(S) ==
    /\ sta' = [s \in Stas |-> IF s \in S THEN Unused ELSE sta[s]]
    /\ key' = [s \in Stas |-> IF s \in S THEN 0 ELSE key[s]]
    /\ authz' = authz \ S
    /\ peer' = [s \in Stas |-> IF s \in S THEN Stranger ELSE peer[s]]
    /\ net' = NetWithout(S)
    /\ due' = due \ S

-----------------------------------------------------------------------------
(* Faulty variants, each rejected by a property *)

cm_blocks_never(mode) == FALSE

incr_replay_omitted(e) == e

wpa_ptkinitdone_unplumbed(s, e) == key[s]

RetxGiveUp_kept(s) ==
    /\ sta[s].used /\ sta[s].td /\ s \in due /\ ~cm
    /\ sta[s].retries + 1 > WPA_RETRY
    /\ due' = due \ {s}
    /\ UNCHANGED <<sta, gkc, group, cm, cms, driver, peer, net>>

-----------------------------------------------------------------------------
(* Driver events *)

\* TKIP stations are turned away during countermeasures.
cm_blocks(mode) == cm /\ mode = "WPA"

wpa_incr_gkc(n) == n + 1

\* Set the interval timer for retransmission, for a full period.
arm(e) == [e EXCEPT !.td = TRUE]

\* Association: wpa_driver_assoc_msg on the entry lookup_sta finds or creates.
\* The driver starts the association unauthorised; a stale key is cleared.
Assoc(s, mode) ==
    /\ gkc < MaxNonce /\ ~cm_blocks(mode)
    /\ gkc' = wpa_incr_gkc(gkc)
    /\ LET e == [wpa_stop_retx(sta[s]) EXCEPT !.used = TRUE, !.mode = mode,
                    !.retries = 0, !.anonce = gkc + 1, !.state = "PTKSTART"]
           f == [e EXCEPT !.retry_state = "PTKSTART",
                          !.state = "PTKINITNEGOTIATING"] IN
         /\ Send(wpa_send_eapol(s, e, GtkInUse), NetWithout({s}))
         /\ sta' = [sta EXCEPT ![s] = arm(f)]
    /\ key' = [key EXCEPT ![s] = 0]
    /\ authz' = authz \ {s}
    /\ peer' = [peer EXCEPT ![s] = Stranger]
    /\ due' = due \ {s}
    /\ UNCHANGED <<cm, cms>>

\* A new association of a known station that is refused: a bad WPA IE, an
\* unsupported mode or cipher, or TKIP during countermeasures.
AssocRefused(s) ==
    /\ sta[s].used
    /\ cleanup_sta({s})
    /\ UNCHANGED <<gkc, group, cm, cms>>

\* DISASSOC_IND or DEAUTH_IND.
Disassoc(s) ==
    /\ sta[s].used
    /\ cleanup_sta({s})
    /\ UNCHANGED <<gkc, group, cm, cms>>

\* A link-down event makes the authenticator forget the group key.
LinkDown ==
    /\ LinkEvents /\ plumbed /\ gtk < MaxGtk
    /\ plumbed' = FALSE
    /\ UNCHANGED <<sta, gkc, gtk, cm, cms, driver, peer, net, due>>

\* wpa_mic_error, for the second TKIP MIC failure within the time limit: all
\* stations out, group keys cleared.  (An earlier failure is only counted; a
\* BSS without TKIP accepts no MIC failures.)
wpa_mic_error(s) ==
    /\ sta[s].used /\ "WPA" \in Modes
    /\ ~cm /\ cms < MaxCm
    /\ cm' = TRUE
    /\ cms' = cms + 1
    /\ cleanup_sta({q \in Stas : sta[q].used})
    /\ plumbed' = FALSE
    /\ UNCHANGED <<gkc, gtk>>

wpa_countermeasures_cb ==
    /\ cm
    /\ cm' = FALSE
    /\ UNCHANGED <<sta, gkc, group, cms, driver, peer, net, due>>

-----------------------------------------------------------------------------
(* EAPOL frames: process_wpa.  It also tosses a TKIP station it hears from      *)
(* during countermeasures; CmKeepsTkipOut says that there is none by then.     *)

\* A frame from a station the table knows, in the given state.
Receives(s, m, state) ==
    /\ m \in net /\ m.sta = s
    /\ sta[s].used /\ sta[s].state = state

mic_ok(e, m) == m.ptk = e.ptk

\* Does message 3, repeated in vain, fall through to the group key handshake?
falls_through(s) == Wpa(s)

incr_replay(e) == [e EXCEPT !.replay = e.replay + 1]

\* A pairwise key is named by the nonce it is made from.
wpa_calc_ptk(e) == [e EXCEPT !.ptk = e.anonce]

\* Message 2 with the expected replay counter and IE stops the timer, and the
\* key is derived from the nonces.
M2Taken(s, m) ==
    /\ Receives(s, m, "PTKINITNEGOTIATING")
    /\ m.kind = "M2" /\ m.replay = sta[s].replay

M2Entry(s) == wpa_calc_ptk(wpa_stop_retx(sta[s]))

\* If the MIC is right message 3 goes out.
RxM2(s, m) ==
    /\ M2Taken(s, m) /\ mic_ok(M2Entry(s), m)
    /\ LET f == [incr_replay(M2Entry(s)) EXCEPT !.retries = 0] IN
         /\ Send(wpa_send_eapol(s, f, GtkInUse), net)
         /\ sta' = [sta EXCEPT ![s] =
                     arm([f EXCEPT !.hndlr = falls_through(s),
                                   !.retry_state = "PTKINITNEGOTIATING",
                                   !.state = "PTKINITDONE"])]
    /\ due' = due \ {s}
    /\ UNCHANGED <<gkc, cm, cms, driver, peer>>

\* If not (a wrong passphrase) the timer is set again for a full period, and no
\* retry is counted.
RxM2BadMic(s, m) ==
    /\ M2Taken(s, m) /\ ~mic_ok(M2Entry(s), m)
    /\ sta' = [sta EXCEPT ![s] = arm(M2Entry(s))]
    /\ due' = due \ {s}
    /\ UNCHANGED <<gkc, group, cm, cms, driver, peer, net>>

\* A pairwise frame with the expected replay counter but without the IE of the
\* association: the station changed its IE, or this is a late message 4.
RxM2Mismatch(s, m) ==
    /\ Receives(s, m, "PTKINITNEGOTIATING")
    /\ m.kind \in {"M2ie", "M4"} /\ m.replay = sta[s].replay
    /\ cleanup_sta({s})
    /\ UNCHANGED <<gkc, group, cm, cms>>

\* The pairwise key in the driver after wpa_ptkinitdone2 has plumbed e's.
wpa_ptkinitdone_key(s, e) == e.ptk

\* wpa_ptkinitdone2: plumb the pairwise key; WPA2 is done, WPA goes on with the
\* group key handshake.
wpa_ptkinitdone2(s, td) ==
    LET e == wpa_stop_retx(sta[s])
        done == [e EXCEPT !.state = "SETKEYSDONE", !.retry_state = "SETKEYSDONE"]
        rekey == [incr_replay(e) EXCEPT !.state = "REKEYNEGOTIATING",
                     !.retry_state = "REKEYNEGOTIATING", !.retries = 0] IN
    /\ key' = [key EXCEPT ![s] = wpa_ptkinitdone_key(s, e)]
    /\ IF Wpa(s)
       THEN /\ Send(wpa_send_eapol(s, rekey, GtkInUse), net)
            /\ sta' = [sta EXCEPT ![s] = [arm(rekey) EXCEPT !.td = td]]
            /\ UNCHANGED authz
       ELSE /\ sta' = [sta EXCEPT ![s] = done]
            /\ authz' = authz \cup {s}
            /\ UNCHANGED <<net, group>>
    /\ due' = due \ {s}
    /\ UNCHANGED <<gkc, cm, cms, peer>>

\* Message 4.
M4Accepted(s, m) ==
    /\ Receives(s, m, "PTKINITDONE")
    /\ m.kind = "M4" /\ m.replay = sta[s].replay /\ mic_ok(sta[s], m)

RxM4(s, m) == M4Accepted(s, m) /\ wpa_ptkinitdone2(s, TRUE)

\* Message 4, but the driver has no room for another pairwise key.
RxM4NoRoom(s, m) ==
    /\ M4Accepted(s, m)
    /\ cleanup_sta({s})
    /\ UNCHANGED <<gkc, group, cm, cms>>

\* Message 2 of the group key handshake: the port opens.
RxG2(s, m) ==
    /\ Receives(s, m, "REKEYNEGOTIATING")
    /\ m.kind = "G2" /\ m.replay = sta[s].replay /\ mic_ok(sta[s], m)
    /\ sta' = [sta EXCEPT ![s] = [wpa_stop_retx(sta[s]) EXCEPT
                 !.state = "SETKEYSDONE", !.retry_state = "SETKEYSDONE"]]
    /\ authz' = authz \cup {s}
    /\ due' = due \ {s}
    /\ UNCHANGED <<gkc, group, cm, cms, key, peer, net>>

\* A key request of a station with keys: its MIC must be right.  (One that
\* reports a MIC failure is wpa_mic_error, one for the group key is
\* wpa_new_gtk_callback.)
wpa_setkeysdone(s) ==
    /\ sta[s].used /\ sta[s].state = "SETKEYSDONE"
    /\ peer[s].ptk = sta[s].ptk

\* A station asks for a new pairwise key: wpa_setkeysdone, wpa_verifystart and
\* wpa_ptkstart in one go.  The replay counter stays where it was.
RxPairwiseRequest(s) ==
    /\ wpa_setkeysdone(s)
    /\ gkc < MaxNonce
    /\ gkc' = wpa_incr_gkc(gkc)
    /\ LET e == [wpa_stop_retx(sta[s]) EXCEPT !.anonce = gkc + 1, !.retries = 0,
                    !.state = "PTKSTART", !.retry_state = "PTKSTART"] IN
         /\ Send(wpa_send_eapol(s, e, GtkInUse), net)
         /\ sta' = [sta EXCEPT ![s] = arm([e EXCEPT !.state = "PTKINITNEGOTIATING"])]
    /\ due' = due \ {s}
    /\ UNCHANGED <<cm, cms, driver, peer>>

\* wpa_new_gtk_callback, from the rekeying timer, a station's request or
\* nas_force_rekey: a new group key, sent to the stations that have keys
\* already (wpa_send_rekey_frame), then made primary.
wpa_new_gtk_callback ==
    LET keyed == {s \in Stas : sta[s].used /\ sta[s].state = "SETKEYSDONE"}
        rekey(s) == [incr_replay(wpa_stop_retx(sta[s])) EXCEPT !.retries = 0,
                       !.state = "REKEYNEGOTIATING",
                       !.retry_state = "REKEYNEGOTIATING"] IN
    /\ keyed # {} /\ gtk < MaxGtk
    /\ gtk' = wpa_gen_gtk(gtk)
    /\ wpa_plumb_gtk
    /\ sta' = [s \in Stas |-> IF s \in keyed THEN arm(rekey(s)) ELSE sta[s]]
    /\ net' = net \cup {wpa_send_eapol(s, rekey(s), wpa_gen_gtk(gtk)) : s \in keyed}
    /\ due' = due \ keyed
    /\ UNCHANGED <<gkc, cm, cms, driver, peer>>

-----------------------------------------------------------------------------
(* wpa_retransmission.  The timer is periodic; the SETKEYSDONE the callback also
   looks for is never met with the timer set (KeysAgree). *)

\* A full period has passed since the timer was set or last ran.
Elapse(s) ==
    /\ sta[s].used /\ sta[s].td /\ s \notin due
    /\ due' = due \cup {s}
    /\ UNCHANGED <<sta, gkc, group, cm, cms, driver, peer, net>>

Fires(s) == sta[s].used /\ sta[s].td /\ s \in due /\ ~cm

\* During countermeasures the callback returns without effect.
RetxIdle(s) ==
    /\ sta[s].used /\ sta[s].td /\ s \in due /\ cm
    /\ due' = due \ {s}
    /\ UNCHANGED <<sta, gkc, group, cm, cms, driver, peer, net>>

give_up(e) == e.retries + 1 > WPA_RETRY

\* Send the last message again under a new replay counter.  For a WPA station
\* nothing checks any more that the group key is plumbed.
RetxSend(s) ==
    /\ Fires(s) /\ ~give_up(sta[s])
    /\ LET e == [incr_replay(sta[s]) EXCEPT !.retries = sta[s].retries + 1]
           g == IF Wpa(s) THEN gtk ELSE GtkInUse IN
         /\ Send(wpa_send_eapol(s, [e EXCEPT !.state = e.retry_state], g), net)
         /\ sta' = [sta EXCEPT ![s] = e]
    /\ due' = due \ {s}
    /\ UNCHANGED <<gkc, cm, cms, driver, peer>>

\* Message 3 in WPA: the handler goes on to the group key handshake, and
\* wpa_stop_retx after it deletes the timer the handler has just set.
RetxFallThrough(s) ==
    /\ Fires(s) /\ give_up(sta[s]) /\ sta[s].hndlr
    /\ wpa_ptkinitdone2(s, FALSE)

\* The same, but the driver rejects the pairwise key.
RetxNoRoom(s) ==
    /\ Fires(s) /\ give_up(sta[s]) /\ sta[s].hndlr
    /\ cleanup_sta({s})
    /\ UNCHANGED <<gkc, group, cm, cms>>

\* Otherwise the station is thrown out.
RetxGiveUp(s) ==
    /\ Fires(s) /\ give_up(sta[s]) /\ ~sta[s].hndlr
    /\ cleanup_sta({s})
    /\ UNCHANGED <<gkc, group, cm, cms>>

Retx(s) ==
    \/ RetxIdle(s) \/ RetxSend(s)
    \/ RetxFallThrough(s) \/ RetxNoRoom(s) \/ RetxGiveUp(s)

-----------------------------------------------------------------------------
(* The supplicant on a station (external) *)

Reply(s, kind, m, p) ==
    /\ peer' = [peer EXCEPT ![s] = p]
    /\ net' = net \cup {[m EXCEPT !.kind = kind, !.gtk = 0]}
    /\ UNCHANGED <<sta, gkc, group, cm, cms, driver, due>>

Hears(s, m, kind) == m \in net /\ m.sta = s /\ m.kind = kind
                     /\ m.replay > peer[s].replay

\* The answer may carry another IE, or a MIC made with a wrong passphrase.
PeerM1(s, m) ==
    /\ Hears(s, m, "M1")
    /\ \/ \E kind \in {"M2", "M2ie"} :
            Reply(s, kind, m, [peer[s] EXCEPT !.tptk = m.ptk])
       \/ Reply(s, "M2", [m EXCEPT !.ptk = 0], [peer[s] EXCEPT !.tptk = 0])

PeerM3(s, m) ==
    /\ Hears(s, m, "M3") /\ m.ptk = peer[s].tptk
    /\ Reply(s, "M4", m,
             [peer[s] EXCEPT !.replay = m.replay, !.ptk = m.ptk,
                             !.gtk = IF Wpa(s) THEN peer[s].gtk ELSE m.gtk])

PeerG1(s, m) ==
    /\ Hears(s, m, "G1") /\ m.ptk = peer[s].ptk
    /\ Reply(s, "G2", m, [peer[s] EXCEPT !.replay = m.replay, !.gtk = m.gtk])

-----------------------------------------------------------------------------

Next ==
    \/ \E s \in Stas :
         \/ \E mode \in Modes : Assoc(s, mode)
         \/ AssocRefused(s) \/ Disassoc(s) \/ wpa_mic_error(s)
         \/ RxPairwiseRequest(s) \/ Elapse(s) \/ Retx(s)
    \/ \E s \in Stas, m \in net :
         \/ RxM2(s, m) \/ RxM2BadMic(s, m) \/ RxM2Mismatch(s, m)
         \/ RxM4(s, m) \/ RxM4NoRoom(s, m) \/ RxG2(s, m)
         \/ PeerM1(s, m) \/ PeerM3(s, m) \/ PeerG1(s, m)
    \/ LinkDown
    \/ wpa_new_gtk_callback
    \/ wpa_countermeasures_cb

Spec == Init /\ [][Next]_vars

\* A timer that stays set for a period runs out, and one that has run out and is
\* not set anew is served; nothing is assumed of the stations or of the frames.
FairSpec ==
    /\ Spec
    /\ \A s \in Stas : WF_vars(Elapse(s)) /\ WF_vars(Retx(s))
    /\ WF_vars(wpa_countermeasures_cb)

-----------------------------------------------------------------------------
(* Properties *)

\* When the authenticator is done with a station, its port is open and the key
\* in the driver is the one the station has installed, however messages 2 and 3
\* were lost, repeated or retransmitted on the way; and no retransmission timer
\* is left to end what has succeeded.
KeysAgree ==
    \A s \in Stas : sta[s].used /\ sta[s].state = "SETKEYSDONE"
        => /\ s \in authz
           /\ key[s] # 0 /\ key[s] = peer[s].ptk
           /\ ~sta[s].td

\* No two different MIC-protected frames to a station use the same replay
\* counter, so that the supplicant never drops the later one as a replay.
FreshReplay ==
    \A m, n \in net :
        /\ m.kind \in {"M3", "G1"} /\ n.kind \in {"M3", "G1"}
        /\ m.sta = n.sta /\ m.replay = n.replay
        => m = n

\* During countermeasures no TKIP station has an entry, so none can be granted
\* a key or an open port before they end.
CmKeepsTkipOut == cm => \A s \in Stas : ~(sta[s].used /\ Wpa(s))

\* "set a timeout for retransmission": a station the authenticator awaits an
\* answer from has its retransmission timer set, so that a lost frame is
\* repeated and a silent station is thrown out.
AwaitedIsTimed ==
    \A s \in Stas : sta[s].used /\ sta[s].state \in Negotiating => sta[s].td

\* Every WPA2 handshake ends: with keys set, or with the station out of the
\* table, or overtaken by an association in WPA.  (In WPA it may not: see
\* AwaitedIsTimed.)  The one exception is a station whose message 2 with a wrong
\* MIC keeps coming in again, each time before the period the last one started
\* is over: the timer is set anew and no retry is ever counted.
HandshakeEnds ==
    \A s \in Stas :
        \/ []<><<\E m \in net : RxM2BadMic(s, m)>>_vars
        \/ sta[s].used /\ ~Wpa(s) /\ sta[s].state \in Negotiating
             ~> ~sta[s].used \/ Wpa(s) \/ sta[s].state = "SETKEYSDONE"

\* "Make it primary after it's been sent to all known supplicants": a station
\* that is done has the group key in use.
GtkDelivered ==
    \A s \in Stas : sta[s].used /\ sta[s].state = "SETKEYSDONE" /\ plumbed
        => peer[s].gtk = gtk

=============================================================================
