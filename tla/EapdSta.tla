------------------------------ MODULE EapdSta ------------------------------
(***************************************************************************)
(* The stations of eapd: a bounded, hashed table that says which daemon is *)
(* talking to a station, and the dispatch of EAPOL frames and events by    *)
(* it.  eapd is one thread around select(): each action is one message on  *)
(* one socket, handled to the end.  A bssid is identified with the         *)
(* interface it belongs to.                                                *)
(***************************************************************************)
EXTENDS Naturals, FiniteSets, FiniteSetsExt

CONSTANTS Ifs,        \* wireless interfaces eapd listens on
          Psta,       \* the proxy-station interfaces among them
          EapolIfs,   \* those in nas->ifnames or wps->ifnames
          AppsUp,     \* the daemons with an appSocket
          Stas,       \* station addresses
          Hash,       \* EAPD_PAE_HASH: [address -> chain]
          MaxSta,     \* EAPD_WKSP_MAX_SUPPLICANTS
          MaxClock    \* bound on the clock

ASSUME EapdStaAssumption ==
    /\ Psta \subseteq Ifs /\ EapolIfs \subseteq Ifs
    /\ AppsUp \subseteq {"wps", "nas", "ses"}
    /\ MaxSta \in Nat \ {0} /\ MaxClock \in Nat

VARIABLES tab,        \* nwksp->sta and nwksp->sta_hashed
          clock,      \* time()
          sent,       \* who was sent something in the last step
          sess        \* history: where a station in a WPS session gave the
                      \* identity that wps was sent

vars == <<tab, clock, sent, sess>>

NULL == 0
CONSTANT NoIf          \* no interface, no station

-----------------------------------------------------------------------------
(* The station table.  An entry that is not used is blank: its old contents *)
(* are never read.  A hash chain is the set of the entries linked in it: an *)
(* address has one entry at most, so a search does not depend on the order. *)
Blank == [used |-> FALSE, ea |-> NoIf, ifname |-> NoIf, pae |-> "INITIALIZE",
          mode |-> "UNKNOW", last |-> 0]
EmptyTab == [sta |-> [k \in 1..MaxSta |-> Blank],
             hashed |-> [h \in {Hash[a] : a \in Stas} |-> {}]]

found(t, ea) == {k \in t.hashed[Hash[ea]] : t.sta[k].ea = ea}

sta_remove(t, k) ==
    [sta    |-> [t.sta EXCEPT ![k] = Blank],
     hashed |-> [t.hashed EXCEPT ![Hash[t.sta[k].ea]] = @ \ {k}]]

\* Faulty: the newest of the old entries makes room.
place_newest(t) ==
    LET free == {k \in 1..MaxSta : ~t.sta[k].used}
        old  == {k \in 1..MaxSta : t.sta[k].last < clock}
        mru  == {k \in old : \A j \in old : t.sta[k].last >= t.sta[j].last}
    IN  IF free # {} THEN Min(free) ELSE IF mru # {} THEN Min(mru) ELSE NULL

\* the place for a new entry: the first free one, else the first of the oldest
\* that are older than this second, else none
place(t) ==
    LET free == {k \in 1..MaxSta : ~t.sta[k].used}
        old  == {k \in 1..MaxSta : t.sta[k].last < clock}
        lru  == {k \in old : \A j \in old : t.sta[k].last <= t.sta[j].last}
    IN  IF free # {} THEN Min(free) ELSE IF lru # {} THEN Min(lru) ELSE NULL

enter(t, ea, i) ==
    LET k == place(t)
        u == IF k # NULL /\ t.sta[k].used THEN sta_remove(t, k) ELSE t
    IN  IF k = NULL THEN [t |-> t, k |-> NULL]
        ELSE [t |-> [sta    |-> [u.sta EXCEPT ![k] = [Blank EXCEPT
                                   !.used = TRUE, !.ea = ea, !.ifname = i, !.last = clock]],
                     hashed |-> [u.hashed EXCEPT ![Hash[ea]] = @ \cup {k}]],
              k |-> k]

\* Faulty: a station that comes in through another interface is not noticed.
moved_unnoticed(s, i) == FALSE

\* found again through another interface: the station starts afresh, except
\* that proxy stations keep their state
moved(s, i) == s.ifname \notin Psta /\ i \notin Psta /\ s.ifname # i

\* sta_lookup(EAPD_SEARCH_ENTER) of a station heard on interface i
sta_lookup(t, ea, i) ==
    LET k == Min(found(t, ea)) IN
    IF found(t, ea) = {} THEN enter(t, ea, i)
    ELSE [t |-> [t EXCEPT !.sta[k] =
                    IF moved(@, i)
                    THEN [@ EXCEPT !.ifname = i, !.pae = "INITIALIZE",
                                   !.mode = "UNKNOW", !.last = clock]
                    ELSE [@ EXCEPT !.last = clock]],
          k |-> k]

\* sta_lookup(EAPD_SEARCH_ONLY), without a bssid
search(t, ea) ==
    IF found(t, ea) = {} THEN [t |-> t, k |-> NULL]
    ELSE [t |-> [t EXCEPT !.sta[Min(found(t, ea))].last = clock],
          k |-> Min(found(t, ea))]

-----------------------------------------------------------------------------
(* Dispatch *)
sendup(a) == IF a \in AppsUp THEN {a} ELSE {}
nas_app_sendup == sendup("nas")
wps_app_monitor_sendup == sendup("wps")
ses_app_sendup == sendup("ses")

WpsSession(s) == s.pae = "IDENTITY" /\ s.mode \in {"WPS", "WPS_ENR"}

\* the history of the stations in a WPS session
kept == [a \in Stas |-> IF \E k \in found(tab', a) : WpsSession(tab'.sta[k])
                        THEN sess[a] ELSE NoIf]

\* what eapd_eapol_dispatch and nas_app_handle_event begin with
Lookup(i, ea) == sta_lookup(tab, ea, i)

\* expanded EAP frames and failures of a station in a WPS session
RxWpsSession(i, ea, code) ==
    LET r == Lookup(i, ea)  s == r.t.sta[r.k]  up == wps_app_monitor_sendup IN
    /\ r.k # NULL /\ WpsSession(s)
    /\ CASE code \in {"REQUEST", "FAILURE"} ->
              IF s.mode = "WPS_ENR"
              THEN /\ tab' = IF code = "FAILURE" THEN sta_remove(r.t, r.k) ELSE r.t
                   /\ sent' = up
              ELSE tab' = r.t /\ sent' = {}
         [] code = "RESPONSE" -> /\ tab' = r.t
                                 /\ sent' = IF s.mode = "WPS" THEN up ELSE {}
    /\ sess' = kept /\ UNCHANGED clock

set_sta(r, mode, pae) == [r.t EXCEPT !.sta[r.k] = [@ EXCEPT !.mode = mode, !.pae = pae]]

\* an expanded frame with Broadcom's SMI id, outside a WPS session
RxSes(i, ea) ==
    LET r == Lookup(i, ea)  s == r.t.sta[r.k] IN
    /\ r.k # NULL /\ ~WpsSession(s)
    /\ tab' = set_sta(r, "SES", "IDENTITY")
    /\ sent' = ses_app_sendup
    /\ sess' = kept /\ UNCHANGED clock

\* EAP identity: wsc is eapd_get_method
RxIdentity(i, ea, wsc) ==
    LET r == Lookup(i, ea)  s == r.t.sta[r.k]
        to == IF wsc \/ s.mode = "WPS_ENR" THEN "wps" ELSE "nas" IN
    /\ r.k # NULL
    /\ tab' = [set_sta(r, IF wsc THEN "WPS" ELSE IF to = "wps" THEN "WPS_ENR" ELSE "NAS",
                       "IDENTITY") EXCEPT !.sta[r.k].ifname = i]
    /\ sent' = IF to = "wps" THEN wps_app_monitor_sendup ELSE nas_app_sendup
    /\ sess' = IF to = "wps" THEN [kept EXCEPT ![ea] = i] ELSE kept
    /\ UNCHANGED clock

\* other EAP types, and expanded ones outside a session, are nas's
RxOtherEap(i, ea, expanded) ==
    LET r == Lookup(i, ea)  s == r.t.sta[r.k] IN
    /\ r.k # NULL
    /\ expanded => ~WpsSession(s)
    /\ tab' = set_sta(r, "UNKNOW", s.pae)
    /\ sent' = nas_app_sendup
    /\ sess' = kept /\ UNCHANGED clock

valid_eapol_start(i) == i \in EapolIfs

\* EAPOL-Start: ask for the identity, unless the station uses a pre-shared key
RxStart(i, ea) ==
    LET r == Lookup(i, ea)  s == r.t.sta[r.k]
        ask == valid_eapol_start(i) /\ s.mode # "NAS_PSK"
        t == [r.t EXCEPT !.sta[r.k].ifname = i] IN
    /\ r.k # NULL
    /\ tab' = IF ask THEN [t EXCEPT !.sta[r.k].mode = "UNKNOW"] ELSE t
    /\ sent' = IF ask THEN {"air"} ELSE {}
    /\ sess' = kept /\ UNCHANGED clock

RxLogoff(i, ea) ==
    LET r == Lookup(i, ea)  m == r.t.sta[r.k].mode IN
    /\ r.k # NULL
    /\ tab' = r.t
    /\ sent' = CASE m \in {"WPS", "WPS_ENR"} -> wps_app_monitor_sendup
                 [] m \in {"NAS", "NAS_PSK"} -> nas_app_sendup
                 [] OTHER -> {}
    /\ sess' = kept /\ UNCHANGED clock

\* EAPOL-Key and unknown types
RxKey(i, ea) ==
    LET r == Lookup(i, ea) IN
    /\ r.k # NULL
    /\ tab' = r.t /\ sent' = nas_app_sendup
    /\ sess' = kept /\ UNCHANGED clock

\* an EAP packet without a type, as a failure outside a session
RxShort(i, ea) ==
    LET r == Lookup(i, ea) IN
    /\ r.k # NULL /\ ~WpsSession(r.t.sta[r.k])
    /\ tab' = r.t /\ sent' = {}
    /\ sess' = kept /\ UNCHANGED clock

\* the table is full of entries used in this second: the frame is dropped
RxDropped(i, ea) ==
    /\ Lookup(i, ea).k = NULL
    /\ sent' = {} /\ UNCHANGED <<tab, clock, sess>>

\* what eapd looks for in the IEs of an association request
IEs == {"wps", "psk", "other"}
nas_app_find_wpsie(ie) == ie = "wps"
nas_app_parse_ie(ie) == ie = "psk"

\* an association event: stations in the course of WPS are kept from nas
RxAssoc(i, ea, ie) ==
    LET r == Lookup(i, ea)
        mode == IF nas_app_find_wpsie(ie) THEN "UNKNOW"
                ELSE IF nas_app_parse_ie(ie) THEN "NAS_PSK" ELSE r.t.sta[r.k].mode
    IN  /\ r.k # NULL
        /\ tab' = set_sta(r, mode, r.t.sta[r.k].pae)
        /\ sent' = IF nas_app_find_wpsie(ie) THEN {} ELSE nas_app_sendup
        /\ sess' = kept /\ UNCHANGED clock

\* disassociation and deauthentication
RxDisassoc(i, ea) ==
    LET r == Lookup(i, ea) IN
    /\ r.k # NULL
    /\ tab' = set_sta(r, "UNKNOW", r.t.sta[r.k].pae)
    /\ sent' = nas_app_sendup
    /\ sess' = kept /\ UNCHANGED clock

\* events that concern no station: link changes and MIC errors for nas, probe
\* requests for wps
NoStation(to) == sent' = to /\ UNCHANGED <<tab, clock, sess>>
nas_app_handle_event == NoStation(nas_app_sendup)
wps_app_handle_event == NoStation(wps_app_monitor_sendup)
RxEvent == nas_app_handle_event \/ wps_app_handle_event

\* a frame from a daemon: an EAP success or failure ends what eapd knows of the
\* station
AppSend(ea, result) ==
    LET r == search(tab, ea) IN
    /\ tab' = IF result /\ r.k # NULL THEN sta_remove(r.t, r.k) ELSE r.t
    /\ sent' = {"air"}
    /\ sess' = kept /\ UNCHANGED clock

\* the EAPOL-Start of wps as an enrollee: the entry is made anew
WpsStart(i, ea) ==
    LET r == search(tab, ea)
        e == sta_lookup(IF r.k # NULL THEN sta_remove(r.t, r.k) ELSE r.t, ea, i)
    IN  /\ "wps" \in AppsUp
        /\ tab' = IF e.k = NULL THEN e.t ELSE set_sta(e, "WPS_ENR", "INITIALIZE")
        /\ sent' = {"air"}
        /\ sess' = [kept EXCEPT ![ea] = NoIf] /\ UNCHANGED clock

Tick == clock < MaxClock /\ clock' = clock + 1 /\ sent' = {} /\ UNCHANGED <<tab, sess>>

Init == tab = EmptyTab /\ clock = 0 /\ sent = {} /\ sess = [a \in Stas |-> NoIf]

Rx(i, ea) ==
    \/ \E c \in {"REQUEST", "RESPONSE", "FAILURE"} : RxWpsSession(i, ea, c)
    \/ \E b \in BOOLEAN : RxIdentity(i, ea, b) \/ RxOtherEap(i, ea, b)
    \/ RxSes(i, ea) \/ RxStart(i, ea) \/ RxLogoff(i, ea) \/ RxKey(i, ea)
    \/ RxShort(i, ea) \/ RxDropped(i, ea)
    \/ RxDisassoc(i, ea)
    \/ \E ie \in IEs : RxAssoc(i, ea, ie)

Next == \/ Tick
        \/ \E i \in Ifs, ea \in Stas : Rx(i, ea) \/ WpsStart(i, ea)
        \/ \E ea \in Stas, b \in BOOLEAN : AppSend(ea, b)
        \/ RxEvent

Spec == Init /\ [][Next]_vars

-----------------------------------------------------------------------------
(* Properties *)

\* A WPS session (eapd_eapol_dispatch, sta_lookup) belongs to the interface on
\* which the station gave its identity: after the station has been heard on
\* another one, frames are no longer taken for the old session.
SessionStaysPut ==
    \A k \in 1..MaxSta : LET s == tab.sta[k] IN
        (s.used /\ WpsSession(s) /\ {s.ifname, sess[s.ea]} \cap Psta = {})
            => sess[s.ea] = s.ifname

\* The table as StaCache sees it: the addresses of its entries, each with the
\* second of its last use.
used == {k \in 1..MaxSta : tab.sta[k].used}
Cache == INSTANCE StaCache WITH
             cache <- [a \in {tab.sta[k].ea : k \in used} |->
                          tab.sta[CHOOSE k \in used : tab.sta[k].ea = a].last],
             now <- clock

\* The station table, with its hash chains, implements the bounded cache of
\* StaCache (sta_lookup, sta_remove).  Who makes room is decided by age alone,
\* which is what the code does and not what its comment says: see AgeOutSparesWps.
ImplementsCache == Cache!Spec

\* "Didn't find one unused, so age out LRU not wps entry": the entry sta_lookup
\* gives to another station is not that of a station in the course of WPS.
AgeOutSparesWps ==
    [][\A k \in used : tab.sta[k].mode \in {"WPS", "WPS_ENR"} /\ tab'.sta[k].used
           => tab'.sta[k].ea = tab.sta[k].ea]_vars
=============================================================================
