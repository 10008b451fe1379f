----------------------------- MODULE NasRadius -----------------------------
(***************************************************************************)
(* nas as an 802.1X authenticator: the station table of nas.c, the PAE     *)
(* state of each station with its timers, the RADIUS requests nas.c and    *)
(* nas_radius.c keep for it, and the port the driver opens.  nas is one    *)
(* thread: each action is one frame, event, RADIUS answer or timer, handled *)
(* to the end.  RADIUS runs over UDP: an answer may be lost, late or       *)
(* repeated.  The 4-way handshake is WpaAuth's; here only its outcome is.  *)
(***************************************************************************)
EXTENDS Naturals, FiniteSets, FiniteSetsExt

CONSTANTS Stas,          \* station addresses
          Kinds,         \* how each may associate: with an IE of WPA2 or PSK, or NONE
          NasMode,       \* nas->mode, and WSEC_WEP_ENABLED(nas->wsec)
          Wep,
          NoSta,         \* none of them
          MaxSta,        \* MAX_SUPPLICANTS
          ReauthMax,     \* STA_REAUTH_MAX
          TxPeriod,      \* STA_TXPERIOD_MAX, STA_AUTHWHILE_MAX, STA_QUIETWHILE_MAX
          AuthWhile,
          QuietWhile,
          SsnTo,         \* nas->ssn_to
          MaxReq,        \* bound on the requests sent
          MaxClock       \* bound on the clock

ASSUME NasRadiusAssumption ==
    /\ Kinds \in [Stas -> SUBSET {"NONE", "WPA2", "PSK"}]
    /\ NasMode \subseteq {"RADIUS", "WPA2", "PSK"} /\ Wep \in BOOLEAN
    /\ NoSta \notin Stas /\ MaxSta \in Nat \ {0}
    /\ {TxPeriod, AuthWhile, QuietWhile, SsnTo} \subseteq Nat \ {0}
    /\ {ReauthMax, MaxReq, MaxClock} \subseteq Nat

VARIABLES sta,     \* nas->sta, indexed from 1
          clock,   \* time()
          sent,    \* requests sent to the server: place in the table, Request
                   \* Authenticator, and the station each was made for
          assoc,   \* the driver: stations it has as associated
          port     \* the driver: those it was told to authorise

vars == <<sta, clock, sent, assoc, port>>

NULL == 0
Places == 1..MaxSta

Blank == [used |-> FALSE, ea |-> NoSta, last |-> 0, state |-> "INITIALIZE", timer |-> 0,
          rxauths |-> 0, request |-> NULL, success |-> FALSE, ssnto |-> 0,
          mode |-> "NONE", preauth |-> FALSE,
          by |-> NoSta]      \* history: the station whose request was accepted

-----------------------------------------------------------------------------
(* The station table *)
found(ea) == {k \in Places : sta[k].used /\ sta[k].ea = ea}

\* the first of the least recently used that were not used in this second
victim == LET old == {k \in Places : sta[k].last < clock}
              lru == {k \in old : \A j \in old : sta[k].last <= sta[j].last}
          IN  IF lru = {} THEN NULL ELSE Min(lru)

\* Faulty: the station that makes room is not deauthenticated.
lookup_sta_silent(ea) ==
    LET free == {k \in Places : ~sta[k].used} IN
    [k |-> IF found(ea) # {} THEN Min(found(ea)) ELSE IF free # {} THEN Min(free) ELSE victim,
     out |-> {}]

\* lookup_sta: the place, NULL when there is none; out is the station tossed for it
lookup_sta(ea) ==
    LET free == {k \in Places : ~sta[k].used} IN
    IF found(ea) # {} THEN [k |-> Min(found(ea)), out |-> {}]
    ELSE IF free # {} THEN [k |-> Min(free), out |-> {}]
    ELSE IF victim # NULL THEN [k |-> victim, out |-> {sta[victim].ea}]
    ELSE [k |-> NULL, out |-> {}]

\* what the place holds after lookup_sta
entry(ea, k) == IF found(ea) # {} THEN [sta[k] EXCEPT !.last = clock]
                ELSE [Blank EXCEPT !.used = TRUE, !.ea = ea, !.last = clock,
                        !.mode = IF Wep /\ "RADIUS" \in NasMode THEN "RADIUS" ELSE "NONE"]

\* cleanup_sta: WPA2 stations that are authenticated stay, for their PMK
cleanup_sta(r) == IF r.mode = "WPA2" /\ r.state = "AUTHENTICATED" /\ r.ssnto > 0
                  THEN r ELSE Blank

-----------------------------------------------------------------------------
(* pae_state.  Each state uses one of the timers and sets it on entry, so one *)
(* field stands for the three.                                                *)
connecting(r) == [r EXCEPT !.state = "CONNECTING", !.success = FALSE, !.ssnto = 0,
                           !.rxauths = Min({@ + 1, ReauthMax + 1}),
                           !.timer = TxPeriod, !.by = NoSta]

pae_state(r, s) ==
    CASE s = "AUTHENTICATED"  -> [r EXCEPT !.state = s, !.rxauths = 0, !.timer = 0]
      [] s = "HELD"           -> [r EXCEPT !.state = s, !.timer = QuietWhile, !.by = NoSta]
      [] s = "ABORTING"       -> [r EXCEPT !.state = s, !.request = NULL]
      [] s = "DISCONNECTED"   -> connecting([r EXCEPT !.rxauths = 0])
      [] s = "CONNECTING"     -> connecting(r)
      [] s = "AUTHENTICATING" -> [r EXCEPT !.state = s, !.timer = AuthWhile, !.by = NoSta]

\* eapol_dispatch_ex, EAPOL_START
start(r) == pae_state(IF r.state = "AUTHENTICATING" THEN pae_state(r, "ABORTING") ELSE r,
                      "CONNECTING")

logoff(r) == pae_state(IF r.state \in {"CONNECTING", "AUTHENTICATED"} THEN r
                       ELSE pae_state(r, "ABORTING"), "DISCONNECTED")

\* the flag and, for preauthentication, the mode that eapol_dispatch_ex sets
marked(r, pre) == IF pre THEN [r EXCEPT !.preauth = TRUE, !.mode = "WPA2"]
                  ELSE [r EXCEPT !.preauth = FALSE]

\* eapol_dispatch_ex goes no further with a held station's frame, nor, but for
\* preauthentication, with one of a PSK station
ignored(r, pre) == r.state = "HELD" \/ (r.mode = "PSK" /\ ~pre)

\* an EAPOL_START that nas makes up in the name of the station
send_identity_req(r) == IF ignored(r, FALSE) THEN r ELSE start(marked(r, FALSE))

-----------------------------------------------------------------------------
Init == /\ sta = [k \in Places |-> Blank] /\ clock = 0 /\ sent = {}
        /\ assoc = {} /\ port = {}

\* the entry that a frame of station ea meets, and whether it is looked at
met(ea, pre) == marked(entry(ea, lookup_sta(ea).k), pre)
Dropped(ea, pre) == ignored(entry(ea, lookup_sta(ea).k), pre)

\* eapol_dispatch_ex: the frame turns the entry into r, unless it is ignored
eapol_dispatch(ea, pre, r) ==
    LET l == lookup_sta(ea) IN
    /\ l.k # NULL
    /\ sta' = [sta EXCEPT ![l.k] = IF Dropped(ea, pre) THEN entry(ea, l.k) ELSE r]
    /\ assoc' = assoc \ l.out

RxStart(ea, pre) == /\ eapol_dispatch(ea, pre, start(met(ea, pre)))
                    /\ port' = port \ lookup_sta(ea).out
                    /\ UNCHANGED <<clock, sent>>

RxLogoff(ea, pre) ==
    /\ eapol_dispatch(ea, pre, logoff(met(ea, pre)))
    /\ port' = (port \ lookup_sta(ea).out) \ (IF Dropped(ea, pre) THEN {} ELSE {ea})
    /\ UNCHANGED <<clock, sent>>

\* radius_forward for entry r: the request gets the place as its id; when it
\* cannot be sent (~ok) none is kept
radius_forward(ea, pre, r, ok) ==
    LET v == Cardinality(sent) + 1 IN
    /\ ok => v <= MaxReq
    /\ eapol_dispatch(ea, pre, [r EXCEPT !.request = IF ok THEN v ELSE NULL])
    /\ sent' = IF ok /\ ~Dropped(ea, pre)
               THEN sent \cup {[id |-> lookup_sta(ea).k, vector |-> v, for |-> ea]} ELSE sent

\* EAP identity with the expected id; while authenticating it is tossed
RxIdentity(ea, pre, ok) ==
    LET r == met(ea, pre) IN
    /\ \/ r.state # "AUTHENTICATING" /\ radius_forward(ea, pre, pae_state(r, "AUTHENTICATING"), ok)
       \/ r.state = "AUTHENTICATING" /\ eapol_dispatch(ea, pre, r) /\ UNCHANGED sent
    /\ port' = port \ lookup_sta(ea).out
    /\ UNCHANGED clock

\* any other EAP packet goes to the server
RxEap(ea, pre, ok) ==
    /\ radius_forward(ea, pre, met(ea, pre), ok)
    /\ port' = port \ lookup_sta(ea).out
    /\ UNCHANGED clock

\* identity with another id, EAPOL keys that are not WPA's, ASF alerts
RxIgnored(ea, pre) == /\ eapol_dispatch(ea, pre, met(ea, pre))
                      /\ port' = port \ lookup_sta(ea).out
                      /\ UNCHANGED <<clock, sent>>

\* a frame of a station for which there is no room
RxNoRoom(ea) == lookup_sta(ea).k = NULL /\ UNCHANGED vars

-----------------------------------------------------------------------------
(* Driver events, and what the handshake of WpaAuth reports.  A station that *)
(* associates, known or not, has its port closed by the driver.              *)

CheckNas == NasMode \cap {"WPA2", "PSK"} # {}

\* a station without a WPA IE is let in at once if there is no 802.1X for it
AtOnce == Wep /\ CheckNas /\ "RADIUS" \notin NasMode

\* WLC_E_ASSOC_IND without a WPA IE, when WEP is on
AssocWep(ea) ==
    LET l == lookup_sta(ea)
        e == entry(ea, l.k)
    IN  /\ Wep /\ "NONE" \in Kinds[ea] /\ l.k # NULL
        /\ sta' = [sta EXCEPT ![l.k] = IF CheckNas /\ ~AtOnce THEN [e EXCEPT !.mode = "RADIUS"] ELSE e]
        /\ assoc' = (assoc \ l.out) \cup {ea}
        /\ port' = (port \ (l.out \cup {ea})) \cup (IF AtOnce THEN {ea} ELSE {})
        /\ UNCHANGED <<clock, sent>>

\* What wpa_driver_assoc_msg makes of an IE: refused as it stands, or after the
\* entry has the mode: a message is not sent, or countermeasures deauthenticate
Outcomes == {"taken", "ill", "unsent", "tossed"}

\* WLC_E_ASSOC_IND with an IE of WPA2 or PSK, or without one when WEP is off.  With
\* PSK or a cached PMK the handshake starts, else the identity is asked for.
Assoc(ea, kind, pmkc, outcome) ==
    LET l == lookup_sta(ea)
        e == [entry(ea, l.k) EXCEPT !.mode = kind]
        r == CASE outcome = "ill" -> cleanup_sta(entry(ea, l.k))
               [] outcome \in {"unsent", "tossed"} -> cleanup_sta(e)
               [] kind = "PSK" \/ (pmkc /\ e.ssnto > 0) -> e
               [] OTHER -> send_identity_req(e)
    IN  /\ CheckNas /\ l.k # NULL /\ kind \in Kinds[ea]
        /\ kind \notin NasMode => outcome = "ill"
        /\ kind = "NONE" => ~Wep
        /\ sta' = [sta EXCEPT ![l.k] = r]
        /\ assoc' = IF outcome = "tossed" THEN assoc \ (l.out \cup {ea})
                    ELSE (assoc \ l.out) \cup {ea}
        /\ port' = port \ (l.out \cup {ea})
        /\ UNCHANGED <<clock, sent>>

\* nas has no room for the station that associates
AssocNoRoom(ea) == /\ lookup_sta(ea).k = NULL
                   /\ assoc' = assoc \cup {ea} /\ port' = port \ {ea}
                   /\ UNCHANGED <<sta, clock, sent>>

\* WLC_E_DISASSOC_IND, WLC_E_DEAUTH_IND
Disassoc(ea) ==
    /\ ea \in assoc
    /\ sta' = [k \in Places |-> IF k \in found(ea) THEN cleanup_sta([sta[k] EXCEPT !.last = clock])
                                ELSE sta[k]]
    /\ assoc' = assoc \ {ea} /\ port' = port \ {ea}
    /\ UNCHANGED <<clock, sent>>

authorize(S) == port \cup (S \cap assoc')

\* process_wpa gets a station's key frames in these states only
Handshaking(k) == /\ sta[k].used /\ sta[k].mode \in {"WPA2", "PSK"}
                  /\ sta[k].state \in {"AUTHENTICATED", "INITIALIZE"}

HandshakeDone(k) ==
    /\ Handshaking(k)
    /\ sta' = [sta EXCEPT ![k].last = clock] /\ assoc' = assoc
    /\ port' = authorize({sta[k].ea})
    /\ UNCHANGED <<clock, sent>>

\* a bad message; or no answer to the last retry, whatever the state, which ends
\* the session first
HandshakeFails(k, timedout) ==
    /\ sta[k].used /\ sta[k].mode \in {"WPA2", "PSK"} /\ (~timedout => Handshaking(k))
    /\ sta' = [sta EXCEPT ![k] = cleanup_sta(IF timedout THEN [@ EXCEPT !.ssnto = 0]
                                             ELSE [@ EXCEPT !.last = clock])]
    /\ assoc' = assoc \ {sta[k].ea} /\ port' = port \ {sta[k].ea}
    /\ UNCHANGED <<clock, sent>>

-----------------------------------------------------------------------------
(* RADIUS answers *)
Codes == {"ACCEPT", "REJECT", "CHALLENGE"}

\* Faulty: an answer is accepted for whatever request the place holds.
authentic_always(m, r) == TRUE

\* the Message-Authenticator is computed over the Request Authenticator of the
\* request the place holds now
authentic(m, r) == m.vector = r.request

\* Access-Accept of entry r; keys: it carries MPPE keys; ok: the driver takes the
\* unicast key, or process_wpa the faked request.  ssnto: the server's timeout.
accepted(r, m, keys, ok, ssnto) ==
    LET a == [pae_state(r, "AUTHENTICATED") EXCEPT !.ssnto = ssnto, !.by = m.for] IN
    IF ~keys THEN a
    ELSE IF a.mode = "WPA2" /\ a.preauth THEN [a EXCEPT !.preauth = FALSE]
    ELSE IF ok THEN a ELSE cleanup_sta(a)

\* radius_dispatch: the answer m.code to request m; eap: it holds an EAP success;
\* signed: it has a Message-Authenticator, as servers send with EAP
RadiusDispatch(m, code, eap, signed, keys, ok) ==
    LET k == m.id  r == [sta[k] EXCEPT !.success = @ \/ eap] IN
    /\ sta[k].used /\ sta[k].request # NULL
    /\ IF (signed /\ ~authentic(m, r)) \/ (~signed /\ code # "REJECT") THEN
            /\ sta' = [sta EXCEPT ![k] = [r EXCEPT !.request = NULL]]
            /\ UNCHANGED <<assoc, port>>
       ELSE CASE code = "ACCEPT" /\ ~r.success ->
                    /\ sta' = [sta EXCEPT ![k] = [pae_state(r, "HELD") EXCEPT !.request = NULL]]
                    /\ port' = port \ {r.ea} /\ UNCHANGED assoc
              [] code = "ACCEPT" /\ r.success ->
                    /\ sta' = [sta EXCEPT ![k] =
                                 [accepted(r, m, keys, ok, SsnTo) EXCEPT !.request = NULL]]
                    /\ assoc' = IF keys /\ ~ok /\ ~(r.mode = "WPA2" /\ r.preauth)
                                THEN assoc \ {r.ea} ELSE assoc
                    /\ port' = IF keys /\ r.mode # "WPA2" THEN authorize({r.ea}) \cap assoc'
                               ELSE port \cap assoc'
              [] code = "REJECT" ->
                    /\ sta' = [sta EXCEPT ![k] =
                                 [pae_state(r, "HELD") EXCEPT !.request = NULL, !.ssnto = 0]]
                    /\ port' = port \ {r.ea} /\ UNCHANGED assoc
              [] code = "CHALLENGE" ->
                    /\ sta' = [sta EXCEPT ![k] = [r EXCEPT !.request = NULL]]
                    /\ UNCHANGED <<assoc, port>>
    /\ UNCHANGED <<clock, sent>>

\* the place was tossed, or its request answered, aborted or replaced by nothing
RadiusBogus(m) == (~sta[m.id].used \/ sta[m.id].request = NULL) /\ UNCHANGED vars

-----------------------------------------------------------------------------
(* Timers *)

\* Faulty: the quiet period of a held station is not counted.
watched_held(r) ==
    CASE r.state = "AUTHENTICATED" /\ r.ssnto > 0 ->
            IF r.ssnto > 1 THEN [r EXCEPT !.ssnto = @ - 1]
            ELSE send_identity_req([r EXCEPT !.ssnto = 0, !.last = clock])
      [] r.state \in {"CONNECTING", "AUTHENTICATING"} /\ r.timer > 1 -> [r EXCEPT !.timer = @ - 1]
      [] r.state = "CONNECTING" /\ r.timer = 1 ->
            pae_state(r, IF r.rxauths > ReauthMax THEN "DISCONNECTED" ELSE "CONNECTING")
      [] r.state = "AUTHENTICATING" /\ r.timer = 1 -> pae_state(pae_state(r, "ABORTING"), "CONNECTING")
      [] OTHER -> r

\* one second of an entry
watched(r) ==
    CASE r.state = "AUTHENTICATED" /\ r.ssnto > 0 ->
            IF r.ssnto > 1 THEN [r EXCEPT !.ssnto = @ - 1]
            ELSE send_identity_req([r EXCEPT !.ssnto = 0, !.last = clock])
      [] r.state # "AUTHENTICATED" /\ r.timer > 1 -> [r EXCEPT !.timer = @ - 1]
      [] r.state = "HELD" /\ r.timer = 1 -> pae_state(r, "CONNECTING")
      [] r.state = "CONNECTING" /\ r.timer = 1 ->
            pae_state(r, IF r.rxauths > ReauthMax THEN "DISCONNECTED" ELSE "CONNECTING")
      [] r.state = "AUTHENTICATING" /\ r.timer = 1 -> pae_state(pae_state(r, "ABORTING"), "CONNECTING")
      [] OTHER -> r

nas_watchdog == /\ sta' = [k \in Places |-> IF sta[k].used THEN watched(sta[k]) ELSE sta[k]]
                /\ UNCHANGED <<clock, sent, assoc, port>>

Tick == /\ clock < MaxClock /\ clock' = clock + 1
        /\ UNCHANGED <<sta, sent, assoc, port>>

-----------------------------------------------------------------------------
Next == \/ nas_watchdog \/ Tick
        \/ \E ea \in Stas :
             \/ Disassoc(ea) \/ RxNoRoom(ea) \/ AssocNoRoom(ea) \/ AssocWep(ea)
             \/ \E pre \in BOOLEAN :
                  \/ RxStart(ea, pre) \/ RxLogoff(ea, pre) \/ RxIgnored(ea, pre)
                  \/ \E ok \in BOOLEAN : RxIdentity(ea, pre, ok) \/ RxEap(ea, pre, ok)
             \/ \E kind \in Kinds[ea], pmkc \in BOOLEAN, o \in Outcomes : Assoc(ea, kind, pmkc, o)
        \/ \E k \in Places : HandshakeDone(k) \/ \E t \in BOOLEAN : HandshakeFails(k, t)
        \/ \E m \in sent : \/ RadiusBogus(m)
                           \/ \E code \in Codes, eap, signed, keys, ok \in BOOLEAN :
                                 RadiusDispatch(m, code, eap, signed, keys, ok)

\* the watchdog is a periodic timer of the main loop's timer module
Spec == Init /\ [][Next]_vars /\ WF_vars(nas_watchdog)

-----------------------------------------------------------------------------
(* Properties *)

TypeOK == /\ sta \in [Places -> [used : BOOLEAN, ea : Stas \cup {NoSta}, last : 0..MaxClock,
                         state : {"INITIALIZE", "CONNECTING", "AUTHENTICATING", "HELD", "AUTHENTICATED"},
                         timer : Nat, rxauths : 0..ReauthMax + 1, request : 0..MaxReq,
                         success : BOOLEAN, ssnto : 0..SsnTo, mode : {"NONE", "RADIUS", "WPA2", "PSK"},
                         preauth : BOOLEAN, by : Stas \cup {NoSta}]]
          /\ clock \in 0..MaxClock /\ assoc \subseteq Stas /\ port \subseteq assoc
          /\ sent \subseteq [id : Places, vector : 1..MaxReq, for : Stas]

\* The id of a RADIUS request is only a place in the table (radius_forward), and
\* places change hands (lookup_sta).  However late an answer comes, a station is
\* authenticated (radius_dispatch) by the server's answer to a request of its own.
AcceptedIsOwn == \A k \in Places : sta[k].state = "AUTHENTICATED" => sta[k].by = sta[k].ea

\* The driver keeps a port open only for a station that nas has in its table: one
\* that 802.1X let in and has not rejected since, one in or past a handshake, or,
\* where nas needs no 802.1X of it (wpa_driver_assoc_msg), one without an IE.  An
\* entry that is tossed, evicted or held closes the port (toss_sta, radius_dispatch).
PortTracked == \A ea \in port : \E k \in found(ea) :
                  \/ sta[k].state \in {"CONNECTING", "AUTHENTICATING", "AUTHENTICATED"}
                  \/ sta[k].state = "INITIALIZE" /\ sta[k].mode \in {"WPA2", "PSK"}
                  \/ AtOnce /\ "NONE" \in Kinds[ea]

\* A rejected station, whose frames are all ignored, and one whose authentication
\* gets no answer come out of that state by themselves (nas_watchdog).
WaitsEnd == \A k \in Places : /\ sta[k].state = "HELD" ~> sta[k].state # "HELD"
                              /\ sta[k].state = "AUTHENTICATING" ~> sta[k].state # "AUTHENTICATING"
=============================================================================
