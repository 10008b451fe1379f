------------------------------- MODULE Wlconf -------------------------------
(***************************************************************************)
(* wlconf, the program that brings a wl radio into service: it reads the   *)
(* radio's nvram variables and turns them into a long series of driver     *)
(* ioctls, none of whose failures stops it.  The four commands (up, start, *)
(* down, security) are processes that the router's scripts run one after   *)
(* the other on one radio; between them nvram may change, the driver keeps *)
(* what it was last told.                                                  *)
(*                                                                         *)
(* The driver's parameters are the function par over <<name, bss>>, bss    *)
(* being Radio for those of the whole radio.  Every part of wlconf() that  *)
(* only copies nvram into the driver is the partial function of the        *)
(* parameters it sets; those it sets unconditionally from one variable     *)
(* each are one parameter per part.  nv.rest is the value of every variable *)
(* without a field of its own, nv.options the set of those nvram has.      *)
(* refused is the set of parameters whose last ioctl failed and which      *)
(* therefore hold something older.                                         *)
(***************************************************************************)
EXTENDS Chanspec

CONSTANTS Configs,     \* the nvram contents, with the card they meet
          NewCore,     \* corerev >= 40
          HwChains,    \* hw_txchain, hw_rxchain
          Chosen,      \* the chanspecs a channel scan may end with
          Refusable,   \* bound: the names of the parameters whose ioctl may fail,
          MaxRefused,  \* and how many may in all
          MaxUps,      \* bound: how often "up" is run
          MAX_BSS_UP_RETRIES,
          NotSet       \* what the driver has at boot

VARIABLES nv,        \* the nvram variables of the radio
          par,       \* the driver's parameters
          link,      \* the driver's up/down state
          bss,       \* which BSS configurations are enabled
          refused,   \* parameters whose last ioctl failed
          nrefused,  \* how many ioctls have failed
          ups,       \* how often "up" was run
          conf,      \* the nvram of the last completed "up", none before one
          pc,        \* the part of the running command
          at,        \* the loop index: BSS and attempt
          bandtype,  \* wlconf's own idea of the band
          plus80,    \* how many 80+80 strings the process has compared
          chanspec   \* wlconf's local chanspec

locals == <<bandtype, plus80, chanspec>>
vars == <<nv, par, link, bss, refused, nrefused, ups, conf, pc, at, bandtype, plus80, chanspec>>

Radio == -1
BssIdx == 0 .. 1      \* the primary and one virtual interface
NoConf == [mode |-> "none"]

ParNames == {"ap", "apsta", "wet", "infra", "mac_spoof", "roam", "mpc", "psta", "psta_mrpt",
             "wet_tunnel", "mbss", "country", "leddc", "radio", "band", "mimo_preamble", "reg",
             "radar", "dfs", "nmode", "bw_cap", "chanspec", "chains", "gmode", "gmode_override",
             "nmode_override", "protection_control", "vlan_mode", "wme", "wme_ac", "wme_tx_params", "ampdu", "amsdu",
             "ampdu_retry", "rateset", "rates", "nrate", "periods", "bcn_rotate", "frameburst",
             "stbc_tx", "stbc_rx", "rifs", "ba", "nar", "nar_limits", "txbf", "txbf_timer", "atf",
             "atf_us", "taf", "taf_rule", "ebos_enable", "ebos", "percal", "cal_period", "antdiv",
             "antsel", "radarthrs", "pspretend", "chanim", "bcm_dcs", "obss_coex",
             "pref_chanspec", "cs_scan_timer", "chanim_mode", "staprio", "wds", "trf_mgmt",
             "sup_wpa"}
BssParNames == {"ssid", "cur_etheraddr", "dwds", "preauth", "bss_maxassoc", "isolation",
                "mcast_regen", "vndr_ie", "wme_bss_disable", "mode_reqd", "wsec", "join_pref", "wpa_auth",
                "eap_restrict", "wep_keys", "auth", "macmode"}
Params == (ParNames \X {Radio}) \cup (BssParNames \X BssIdx)

\* A chanspec variable that nvram has not got.
NoText == [g |-> 0, ch |-> 0, tail |-> "none", pair |-> <<0, 0>>]
Is8080(s) == s.tail = "/80+80"

\* What wlconf reads of every configuration to tell what the radio is to be.  It
\* knows three widths; a channel is a number of at most MAXCHANNEL, 0 for none.
\* The list of preferred channels has at most eight strings, one more than are
\* taken, and one of them at most is for 80+80 MHz: two such strings in a process.
NvKeys == {"mode", "vif", "infra", "phy", "nmode", "sec", "coex", "bw", "channel", "ctlsb", "chanspec"}
ASSUME WlconfAssumption ==
    /\ \A c \in Configs :
          /\ NvKeys \subseteq DOMAIN c
          /\ c.mode # NoConf.mode
          /\ c.bw \in {20, 40, 80}
          /\ c.channel \in 0 .. MAXCHANNEL
          /\ Len(c.dfs_pref) <= 8
          /\ Cardinality({i \in DOMAIN c.dfs_pref : Is8080(c.dfs_pref[i])}) <= 1
    /\ NotSet \notin BOOLEAN

\* A function of one argument, and one function completed by another: as in the
\* module TLC, whose operators the provers do not know.
p :> v == [q \in {p} |-> v]
f @@ g == [p \in DOMAIN f \cup DOMAIN g |-> IF p \in DOMAIN f THEN f[p] ELSE g[p]]

\* A partial function that sets one parameter of the radio, or one of each BSS.
R(n, v) == <<n, Radio>> :> v
B(n, S, f(_)) == [p \in {n} \X S |-> f(p[2])]
When(c, f) == IF c THEN f ELSE [p \in {} |-> NotSet]

\* Options that every "up" copies, and those it copies when nvram has the
\* variable: without it the driver keeps what it had.
Copied(S) == [p \in S \X {Radio} |-> nv.rest]
Optional(S) == Copied(S \cap nv.options)

(***************************************************************************)
(* What nvram asks for.                                                    *)
(***************************************************************************)
\* wlconf_get_bsscfgs: the primary and the parsable names in wlX_vifs.
bsscfgs == IF nv.vif THEN {0, 1} ELSE {0}

ap == nv.mode = "ap"
apsta == nv.mode = "apsta" \/ (nv.mode \in {"sta", "psr", "wet"} /\ nv.vif)
sta == (nv.mode = "sta" /\ ~ nv.vif) \/ nv.mode = "mac_spoof"
wet == nv.mode = "wet" /\ ~ apsta
wds == nv.mode = "wds"
psta == nv.mode = "psta"
psr == nv.mode = "psr"
IsN == nv.phy \in {"n", "v"}    \* WLCONF_PHYTYPE_11N
nmode == IsN /\ nv.nmode

\* The BSSs that are access points.
ap_bsss == IF ap THEN bsscfgs ELSE IF apsta THEN bsscfgs \ {0} ELSE {}

Wlan == "ap" \in nv.caps    \* wl_ap_build

ssid_params ==
    When(Wlan, R("mbss", nv.mode # "psr") @@ B("ssid", bsscfgs, LAMBDA i : nv.ssid))

\* The virtual addresses; a repeater's first virtual interface takes the primary's.
vif_params ==
    IF psr THEN <<"cur_etheraddr", 1>> :> "primary"
    ELSE B("cur_etheraddr", bsscfgs \ {0}, LAMBDA i : "local")

mode_params ==
    R("apsta", apsta) @@ R("ap", ap \/ apsta \/ wds) @@ R("wet", nv.mode = "wet")
    @@ When(nv.mode = "mac_spoof", R("mac_spoof", TRUE))
    @@ When(sta \/ nv.mode = "wet" \/ apsta \/ psta \/ psr, R("roam", "never"))
    @@ R("infra", IF wet \/ sta \/ psta \/ psr THEN nv.infra ELSE TRUE)
    @@ B("dwds", bsscfgs, LAMBDA i : (ap \/ sta \/ psta \/ psr \/ (apsta /\ ~ wet)) /\ nv.dwds)
    @@ When(~ wet /\ ~ sta, R("mpc", FALSE))

psta_params ==
    (CASE psta -> R("psta", "proxy")
       [] psr -> R("psta", "repeater") @@ R("psta_mrpt", nv.mrpt)
       [] OTHER -> R("psta", "disabled"))
    @@ When((ap \/ apsta) /\ "wet_tunnel" \in nv.caps, R("wet_tunnel", nv.wet_tunnel))

wlconf_set_preauth == B("preauth", ap_bsss, LAMBDA i : nv.preauth)

\* The IE that is there is deleted before the new one is added; nothing deletes it
\* when no capability is left to announce.
wlconf_set_brcm_syscap_ie ==
    When((ap \/ apsta) /\ "wet_tunnel" \in nv.caps /\ nv.wet_tunnel,
         B("vndr_ie", bsscfgs, LAMBDA i : "wet_tunnel"))

perbss_params ==
    wlconf_set_preauth @@ wlconf_set_brcm_syscap_ie
    @@ When(nv.maxassoc > 0, B("bss_maxassoc", ap_bsss, LAMBDA i : nv.maxassoc))
    @@ B("isolation", bsscfgs, LAMBDA i : nv.isolate)
    @@ When(wet \/ psta \/ psr, B("mcast_regen", bsscfgs, LAMBDA i : nv.mcast))

\* A country that nvram does not name is the driver's, which nvram then gets.
radio_params ==
    When(nv.country # "unset", R("country", nv.country)) @@ Optional({"leddc"})
    @@ R("radio", nv.radio)

\* Chips that need a preamble mode of their own.
chip_params == Optional({"mimo_preamble"})

\* The preferred channels after a radar hit, 0 for a string that is not read; too
\* many of them and none is set.
compared(n) == Cardinality({i \in 1 .. n : Is8080(nv.dfs_pref[i])})
wlconf_dfs_pref_chan_options ==
    When(Len(nv.dfs_pref) <= 7,
         R("dfs", [i \in DOMAIN nv.dfs_pref |-> wf_chspec_aton(nv.dfs_pref[i], compared(i - 1))]))

\* reg_mode "h" turns radar detection on; any other word changes nothing.
reg_params ==
    CASE nv.reg = "off" -> R("reg", "off") @@ R("radar", FALSE)
      [] nv.reg = "h" -> R("reg", "off") @@ R("radar", TRUE) @@ wlconf_dfs_pref_chan_options
      [] nv.reg = "d" -> R("reg", "d") @@ R("radar", FALSE)
      [] OTHER -> When(FALSE, <<>>)

\* wlconf_bw_cap.
nbw == IF ~ nmode THEN 20 ELSE nv.bw

bw_params == When(IsN, R("nmode", nmode) @@ R("bw_cap", nbw))

\* The upper side band taken for the lower one.
manual_chanspec_lower(band, channel, bw, ctlsb) ==
    [band |-> band, bw |-> bw, sb |-> IF ctlsb = "upper" THEN 1 ELSE 0,
     ch |-> CASE bw = 80 -> channel + 6 [] bw = 40 -> channel + 2 [] OTHER -> channel]

\* The centre channel and control side band for a channel number, a width and
\* the nctrlsb variable.  The fields are or'ed together: a centre below 0 has wrapped
\* round and sets every bit above the channel's eight, the reserved width among them.
manual_chanspec(band, channel, bw, ctlsb) ==
    LET spec(sb, ch) == IF ch >= 0 THEN [band |-> band, bw |-> bw, sb |-> sb, ch |-> ch]
                        ELSE [band |-> 5, bw |-> 0, sb |-> 7, ch |-> ch % 256]
    IN  CASE bw = 80 /\ ctlsb = "lu" -> spec(1, channel + 6 - 4)
          [] bw = 80 /\ ctlsb = "ul" -> spec(2, channel + 6 - 8)
          [] bw = 80 /\ ctlsb = "uu" -> spec(3, channel + 6 - 12)
          [] bw = 80 /\ ctlsb \notin {"lu", "ul", "uu"} -> spec(0, channel + 6)
          [] bw = 40 /\ ctlsb = "lower" -> spec(0, channel + 2)
          [] bw = 40 /\ ctlsb = "upper" -> spec(1, channel - 2)
          [] OTHER -> spec(0, channel)

\* The chanspec that wlconf sets: nvram's own, else one made from the channel.
\* A phy without N takes the channel number itself, and wlconf's chanspec stays 0.
read_chanspec == wf_chspec_aton(nv.chanspec, plus80)
new_chanspec ==
    IF read_chanspec # None THEN read_chanspec
    ELSE IF nv.channel = 0 THEN None
    ELSE manual_chanspec(bandtype, nv.channel, IF IsN THEN nbw ELSE 20, nv.ctlsb)

chan_params == When(new_chanspec # None, R("chanspec", new_chanspec))

\* As many chains as the hardware has when nvram does not say, and nvram gets them.
chain_params == When(IsN, R("chains", IF nv.chains = 0 THEN HwChains ELSE nv.chains))

\* One control algorithm for both kinds of protection: the last one set stays.
protection_params ==
    When(bandtype = 2, R("gmode", nv.gmode) @@ R("gmode_override", nv.protection))
    @@ When(IsN, R("nmode_override", nv.nprotection))
    @@ When(IsN \/ bandtype = 2,
            R("protection_control", IF IsN THEN nv.nprotection ELSE nv.protection))
    @@ Copied({"vlan_mode"})

\* Aggregation.  An option is valid when the driver has the capability and nvram a
\* word for it.
ampdu_valid == "ampdu" \in nv.caps /\ nv.ampdu # "absent"
amsdu_valid == "amsdutx" \in nv.caps /\ nv.amsdu # "absent"
ampdu_on == ampdu_valid /\ nv.ampdu = "on"
amsdu_on == amsdu_valid /\ nv.amsdu = "on" /\ ~ (ap /\ nv.devicemode)

\* AMSDU is not turned off for AMPDU.
wlconf_ampdu_amsdu_set_both ==
    IF nmode
    THEN When(amsdu_valid /\ ~ amsdu_on, R("amsdu", FALSE))
         @@ When(amsdu_on /\ NewCore, R("amsdu", TRUE))
         @@ When(amsdu_on /\ ~ NewCore /\ ~ ampdu_on, R("ampdu", FALSE) @@ R("amsdu", TRUE))
         @@ When(ampdu_valid, R("ampdu", ampdu_on))
    ELSE R("amsdu", FALSE) @@ R("ampdu", FALSE)

wlconf_ampdu_amsdu_set ==
    IF nmode
    THEN When(amsdu_valid /\ ~ amsdu_on, R("amsdu", FALSE))
         @@ When(amsdu_on /\ NewCore, R("amsdu", TRUE))
         @@ When(amsdu_on /\ ~ NewCore /\ ~ ampdu_on, R("ampdu", FALSE) @@ R("amsdu", TRUE))
         @@ When(ampdu_valid /\ ampdu_on, R("amsdu", FALSE) @@ R("ampdu", TRUE))
         @@ When(ampdu_valid /\ ~ ampdu_on, R("ampdu", FALSE))
    ELSE R("amsdu", FALSE) @@ R("ampdu", FALSE)

wlconf_set_ampdu_retry_limit == When(nmode /\ ampdu_valid, Copied({"ampdu_retry"}))

\* The queue parameters, left as they are while WME is off.
wlconf_set_wme == When(nv.wme, Copied({"wme_ac", "wme_tx_params"}))

aggr_params ==
    wlconf_ampdu_amsdu_set @@ wlconf_set_ampdu_retry_limit @@ R("wme", nv.wme) @@ wlconf_set_wme
    @@ B("wme_bss_disable", bsscfgs, LAMBDA i : nv.wme_off)
    @@ B("mode_reqd", bsscfgs, LAMBDA i : nv.rest)

\* The rates; Bluetooth pre-emption takes the slow ones out.  An MCS of 32 is
\* only for 40 MHz, and only an MCS sets nrate.
mcs_refused == nv.mcs = 32 /\ nbw = 20
rate_params ==
    R("rateset", nv.btc)
    @@ R("rates", IF IsN /\ nv.mcs = -1 THEN "auto"
                  ELSE IF nv.btc /\ nv.rate = "slow" THEN "fixed" ELSE nv.rate)
    @@ When(nmode /\ nv.mcs >= 0 /\ ~ mcs_refused, R("nrate", nv.mcs))

period_params == Copied({"periods", "bcn_rotate"})

\* Frame bursts, STBC, RIFS and block acknowledgement.
burst_params ==
    R("frameburst", nv.frameburst /\ ~ nv.btc) @@ Optional({"ba"})
    @@ When(IsN, Copied({"stbc_rx"}) @@ Optional({"stbc_tx", "rifs"}))

\* Non-aggregated regulation is for the 2.4 GHz band unless nvram says otherwise.
nar == IF "nar" \in nv.options THEN nv.nar ELSE bandtype = 2
nar_params == R("nar", nar) @@ When(nar, Optional({"nar_limits"}))

wlconf_set_txbf == When(NewCore, Optional({"txbf"}))

\* Airtime fairness; traffic-aware scheduling only at 5 GHz.
airtime_params ==
    Copied({"atf"}) @@ Optional({"atf_us", "taf_rule"})
    @@ R("taf", "taf" \in nv.options /\ bandtype = 5)

misc_params == burst_params @@ nar_params @@ wlconf_set_txbf @@ airtime_params

\* Automatic calibration is 0 on a new core and the driver's default on an old one.
cal_params ==
    Optional({"percal"})
    @@ When("cal_period" \in nv.options /\ (NewCore \/ nv.rest # "auto"),
            R("cal_period", IF nv.rest = "auto" THEN "0" ELSE nv.rest))

ebos_params == Copied({"ebos_enable"}) @@ Optional({"ebos"}) @@ cal_params

wlconf_set_antsel == Optional({"antsel"})

wlconf_set_radarthrs == When(nv.reg = "h", Copied({"radarthrs"}))

antsel_params == Copied({"antdiv"}) @@ wlconf_set_antsel @@ wlconf_set_radarthrs

pspretend_params == R("pspretend", IF ap THEN nv.rest ELSE "0")

chanim_params == Optional({"chanim", "bcm_dcs"})

obss_coex == IsN /\ nv.coex /\ (sta \/ ((ap \/ apsta) /\ nbw = 40 /\ bandtype = 2))

wlconf_set_txbf_timer == When(NewCore, Optional({"txbf_timer"}))

coex_params == When(IsN, R("obss_coex", obss_coex)) @@ wlconf_set_txbf_timer

\* wlconf_security_options for one BSS, from the variables of cfg.  With both
\* PSK kinds a station gets a join preference list instead of wpa_auth.
wlconf_set_wsec(cfg) ==
    (IF cfg.akm # {} THEN {cfg.crypto} ELSE {}) \cup (IF cfg.wep THEN {"wep"} ELSE {})

need_join_pref(cfg, station) == station /\ cfg.akm = {"psk", "psk2"}

\* The four keys, the one nvram names as the primary.
wlconf_set_wep_key(cfg, i) == When(cfg.wep, <<"wep_keys", i>> :> "keys")

wlconf_security_options(cfg, i, id_supp, station) ==
    <<"wsec", i>> :> wlconf_set_wsec(cfg)
    @@ (IF need_join_pref(cfg, station) THEN <<"join_pref", i>> :> cfg.akm
        ELSE <<"wpa_auth", i>> :> cfg.akm)
    @@ <<"eap_restrict", i>> :> (cfg.akm # {} \/ cfg.radius)
    @@ wlconf_set_wep_key(cfg, i)
    @@ When(id_supp /\ cfg.akm \cap {"psk", "psk2"} # {}, R("sup_wpa", TRUE))
    @@ <<"auth", i>> :> cfg.auth

\* The security of the primary only.
security_params_first ==
    wlconf_security_options(nv.sec[0], 0, nv.mode = "mac_spoof", ~ ap /\ ~ wds)

\* Every BSS of the list; a virtual one has the mode "ap" of its own.
security_params ==
    wlconf_security_options(nv.sec[0], 0, nv.mode = "mac_spoof", ~ ap /\ ~ wds)
    @@ When(nv.vif, wlconf_security_options(nv.sec[1], 1, nv.mode = "mac_spoof", FALSE))

mac_params == B("macmode", bsscfgs, LAMBDA i : nv.macmode)

wds_params == When(ap \/ apsta \/ wds, R("wds", nv.rest))

\* wlconf_start counts the proxy modes as stations.
trf_params == When((ap \/ apsta \/ sta \/ psta \/ psr) /\ "traffic-mgmt" \in nv.caps, R("trf_mgmt", nv.rest))

(***************************************************************************)
(* The parts of "up" that only set parameters, in order, with the part     *)
(* that follows each.                                                      *)
(***************************************************************************)
PartSets(part) ==
    CASE part = "ssid" -> ssid_params         [] part = "vif" -> vif_params
      [] part = "mode" -> mode_params         [] part = "psta" -> psta_params
      [] part = "perbss" -> perbss_params     [] part = "radio" -> radio_params
      [] part = "reg" -> chip_params @@ reg_params           [] part = "bw" -> bw_params
      [] part = "chain" -> chain_params
      [] part = "protection" -> protection_params
      [] part = "aggr" -> aggr_params
      [] part = "period" -> period_params     [] part = "misc" -> misc_params
      [] part = "ebos" -> ebos_params         [] part = "antsel" -> antsel_params
      [] part = "pspretend" -> pspretend_params @@ chanim_params
      [] part = "coex" -> coex_params         [] part = "security" -> security_params
      [] part = "mac" -> mac_params           [] part = "wds" -> wds_params
      [] part = "trf" -> trf_params

Follows ==
    [ssid |-> "vif", vif |-> "mode", mode |-> "psta", psta |-> "perbss", perbss |-> "radio",
     radio |-> "band", reg |-> "bw", bw |-> "chan", chain |-> "protection",
     protection |-> "aggr", aggr |-> "rate", period |-> "misc", misc |-> "up",
     ebos |-> "antsel", antsel |-> "pspretend", pspretend |-> "coex", coex |-> "acs",
     security |-> "mac", mac |-> "done", wds |-> "start", trf |-> "idle"]

\* The parameters a set of ioctls leaves, and the ones it could not change.
Set(f, no) ==
    /\ par' = [p \in Params |-> IF p \in DOMAIN f \ no THEN f[p] ELSE par[p]]
    /\ refused' = (refused \ DOMAIN f) \cup no
    /\ nrefused' = nrefused + Cardinality(no)

\* At most one ioctl of a part is refused, while the bound lasts.
MayRefuse(S) ==
    {{}} \cup (IF nrefused < MaxRefused THEN {{p} : p \in {q \in S : q[1] \in Refusable}} ELSE {})

\* What a part writes back into nvram.
Saved(part) ==
    CASE part = "radio" /\ nv.country = "unset" -> [nv EXCEPT !.country = par[<<"country", Radio>>]]
      [] part = "bw" /\ ~ IsN -> [nv EXCEPT !.nmode = FALSE]
      [] part = "chain" /\ IsN /\ nv.chains = 0 -> [nv EXCEPT !.chains = HwChains]
      [] OTHER -> nv

Apply ==
    /\ pc \in DOMAIN Follows
    /\ LET f == PartSets(pc) IN \E no \in MayRefuse(DOMAIN f) : Set(f, no)
    /\ pc' = Follows[pc]
    /\ nv' = Saved(pc)
    /\ at' = [bss |-> 0, try |-> 0]
    /\ plus80' = IF pc = "reg" /\ nv.reg = "h" THEN plus80 + compared(Len(nv.dfs_pref)) ELSE plus80
    /\ UNCHANGED <<link, bss, conf, bandtype, chanspec, ups>>

\* Channel and rate have a fallback.  A legacy phy that refuses the channel
\* keeps its own, which nvram then gets; so does a rate that neither band takes.
SetChannel ==
    /\ pc = "chan"
    /\ \E no \in MayRefuse(DOMAIN chan_params) :
         /\ Set(chan_params, no)
         /\ nv' = IF no # {} /\ ~ IsN /\ read_chanspec = None
                  THEN [nv EXCEPT !.channel = par[<<"chanspec", Radio>>].ch] ELSE nv
    /\ chanspec' = IF IsN \/ read_chanspec # None THEN new_chanspec ELSE None
    /\ plus80' = IF Is8080(nv.chanspec) THEN plus80 + 1 ELSE plus80
    /\ pc' = "chain"
    /\ UNCHANGED <<link, bss, conf, at, bandtype, ups>>

SetRate ==
    /\ pc = "rate"
    /\ LET mcs == [nv EXCEPT !.mcs = IF nmode /\ mcs_refused THEN -1 ELSE @]
       IN  \/ Set(rate_params, {}) /\ nv' = mcs
           \/ /\ nrefused < MaxRefused
              /\ Set(R("rates", "auto") @@ rate_params, {})
              /\ nv' = [mcs EXCEPT !.rate = "auto"]
    /\ pc' = "period"
    /\ UNCHANGED <<link, bss, conf, at, locals, ups>>

\* The band: nvram's for an N phy, else the phy's; then, if the card has not got
\* it, the first phy's; then the first of the driver's list, read back.
first_band == IF nv.phy = "a" THEN 5 ELSE 2
wanted_band == IF IsN THEN nv.nband ELSE first_band

SetBand ==
    /\ pc = "band"
    /\ LET tries == <<wanted_band, first_band, CHOOSE b \in nv.bands : TRUE>>
           k == CHOOSE k \in 1 .. 3 : tries[k] \in nv.bands
                                     /\ \A j \in 1 .. k - 1 : tries[j] \notin nv.bands
       IN  /\ bandtype' = tries[k]
           /\ par' = [par EXCEPT ![<<"band", Radio>>] = tries[k]]
    /\ pc' = "reg"
    /\ UNCHANGED <<nv, link, bss, refused, nrefused, conf, at, plus80, chanspec, ups>>

\* WLC_DOWN, and the BSS configurations in S disabled.
LinkPar == <<"link", Radio>>
BssPar(i) == <<"bss", i>>

DownPars(S) == {LinkPar} \cup {BssPar(i) : i \in S}
TakeDown(S) ==
    \E no \in MayRefuse(DownPars(S)) :
        /\ link' = (link /\ LinkPar \in no)
        /\ bss' = [i \in BssIdx |-> bss[i] /\ (i \in S => BssPar(i) \in no)]
        /\ nrefused' = nrefused + Cardinality(no)
        /\ refused' = (refused \ DownPars(S)) \cup no

Down ==
    /\ pc = "down"
    /\ TakeDown(BssIdx)
    /\ pc' = "list"
    /\ UNCHANGED <<nv, par, conf, at, locals, ups>>

\* The list of BSS configurations; without memory "up" ends here, radio down.
GetList ==
    /\ pc = "list"
    /\ pc' \in {"ssid", "idle"}
    /\ UNCHANGED <<nv, par, link, bss, refused, nrefused, conf, at, locals, ups>>

LinkUp ==
    /\ pc = "up"
    /\ \E no \in MayRefuse({LinkPar}) :
         /\ link' = (LinkPar \notin no)
         /\ refused' = (refused \ {LinkPar}) \cup no
         /\ nrefused' = nrefused + Cardinality(no)
    /\ pc' = "ebos"
    /\ UNCHANGED <<nv, par, bss, conf, at, locals, ups>>

\* Automatic channel selection, when wlconf knows of no control channel.
known_channel == IF chanspec = None THEN 0 ELSE wf_chspec_ctlchan(chanspec)
Scans == (ap \/ apsta) /\ (obss_coex \/ known_channel = 0)

\* A scan that fails, or has no answer after 100 polls, leaves the channel.
wlconf_auto_chanspec == Chosen \cup {None}

\* The stations' priorities.
wlconf_process_sta_config_entry == Copied({"staprio"})

AutoChannel ==
    /\ pc = "acs"
    /\ IF Scans
       THEN \E c \in wlconf_auto_chanspec :
              Set(When(IsN, R("pref_chanspec", IF known_channel = 0 THEN None
                                               ELSE par[<<"chanspec", Radio>>]))
                  @@ When(c # None, R("chanspec", c))
                  @@ R("cs_scan_timer", known_channel = 0) @@ Copied({"chanim_mode"})
                  @@ wlconf_process_sta_config_entry, {})
       ELSE Set(When(ap \/ apsta, R("cs_scan_timer", FALSE) @@ Copied({"chanim_mode"})
                                 @@ wlconf_process_sta_config_entry), {})
    /\ pc' = "security"
    /\ UNCHANGED <<nv, link, bss, conf, at, locals, ups>>

UpDone ==
    /\ pc = "done"
    /\ pc' = "idle"
    /\ conf' = nv
    /\ plus80' = 0 /\ chanspec' = None    \* the process ends
    /\ UNCHANGED <<nv, par, link, bss, refused, nrefused, at, bandtype, ups>>

(***************************************************************************)
(* The commands.                                                           *)
(***************************************************************************)
\* The administrator, or a script, writes nvram between two commands; the card
\* stays in its slot.
SetNvram ==
    /\ pc = "idle"
    /\ nv' \in {c \in Configs : c.phy = nv.phy /\ c.bands = nv.bands /\ c.caps = nv.caps}
    /\ UNCHANGED <<par, link, bss, refused, nrefused, conf, pc, at, locals, ups>>

\* A virtual interface, and a probe or a "cap" that fails, end a command at
\* once; such calls change nothing and are not steps here.
wlconf ==
    /\ pc = "idle"
    /\ ups < MaxUps
    /\ pc' = "down"
    /\ ups' = ups + 1
    /\ conf' = NoConf
    /\ UNCHANGED <<nv, par, link, bss, refused, nrefused, at, locals>>

wlconf_start ==
    /\ pc = "idle"
    /\ pc' = "wds"
    /\ UNCHANGED <<nv, par, link, bss, refused, nrefused, conf, at, locals, ups>>

\* One attempt at one BSS.  The driver may be busy; only APSTA mode tries again.
\* A driver without AP support joins the primary's SSID every time.
StartBss ==
    /\ pc = "start"
    /\ LET i == IF Wlan THEN at.bss ELSE 0
           last == at.bss = (IF nv.vif THEN 1 ELSE 0)
           next == /\ at' = [bss |-> IF last THEN 0 ELSE at.bss + 1, try |-> 0]
                   /\ pc' = IF last THEN "trf" ELSE "start"
       IN  IF ~ (ap \/ apsta \/ sta \/ wet \/ psta \/ psr)
           THEN next /\ UNCHANGED <<bss, refused>>
           ELSE \/ /\ bss' = [bss EXCEPT ![i] = nv.enabled \/ ~ Wlan]
                   /\ refused' = refused \ {BssPar(i)}
                   /\ next
                \/ /\ refused' = refused \cup {BssPar(i)}
                   /\ IF apsta /\ at.try + 1 < MAX_BSS_UP_RETRIES
                      THEN at' = [at EXCEPT !.try = @ + 1] /\ UNCHANGED pc
                      ELSE next
                   /\ UNCHANGED bss
    /\ UNCHANGED <<nv, par, link, nrefused, conf, locals, ups>>

wlconf_wds_clear == R("wds", "none")

\* A driver without AP support loses its SSID and its link if it is up.
wlconf_down ==
    /\ pc = "idle"
    /\ \/ Wlan /\ TakeDown(BssIdx)
       \/ ~ Wlan /\ link /\ TakeDown({0})
       \/ ~ Wlan /\ ~ link /\ UNCHANGED <<link, bss, refused, nrefused>>
    /\ par' = wlconf_wds_clear @@ par
    /\ UNCHANGED <<nv, conf, pc, at, locals, ups>>

\* wlconf <proxied interface> security: the primary's variables, applied to an
\* interface the driver has just made for a proxied station.
wlconf_security ==
    /\ pc = "idle" /\ (psta \/ psr) /\ 1 \notin bsscfgs
    /\ conf = nv    \* the driver makes such interfaces once it is up in that mode
    /\ LET f == wlconf_security_options(nv.sec[0], 1, FALSE, TRUE)
       IN  \E no \in MayRefuse(DOMAIN f) : Set(f, no)
    /\ UNCHANGED <<nv, link, bss, conf, pc, at, locals, ups>>

Init ==
    /\ nv \in Configs
    /\ par = [p \in Params |->
                CASE p = <<"chanspec", Radio>> -> [band |-> 2, bw |-> 20, sb |-> 0, ch |-> 1]
                  [] p = <<"band", Radio>> -> 2
                  [] p = <<"country", Radio>> -> "ALL"
                  [] OTHER -> NotSet]
    /\ link = FALSE
    /\ bss = [i \in BssIdx |-> FALSE]
    /\ refused = {}
    /\ nrefused = 0
    /\ ups = 0
    /\ conf = NoConf
    /\ pc = "idle"
    /\ at = [bss |-> 0, try |-> 0]
    /\ bandtype = 2
    /\ plus80 = 0
    /\ chanspec = None

Step == \/ Apply \/ SetChannel \/ SetRate \/ SetBand \/ Down \/ GetList \/ LinkUp
        \/ AutoChannel \/ UpDone \/ StartBss
Next == Step \/ SetNvram \/ wlconf \/ wlconf_start \/ wlconf_down \/ wlconf_security

\* A command that runs goes on running.
Spec == Init /\ [][Next]_vars /\ WF_vars(Step)

(***************************************************************************)
(* Properties.                                                             *)
(***************************************************************************)
Refused(p) == p \in refused

\* Nothing is claimed of a parameter whose ioctl the driver refused.
IsSet(p, v) == par[p] = v \/ Refused(p)

\* A BSS that is on the air, while nvram still says what the last "up" read, has
\* the ciphers and the EAP restriction of its own nvram variables, and if it is an
\* access point their key management, whatever configurations the radio went through
\* before.  A primary that is no access point may have a join preference list in
\* place of wpa_auth; a virtual BSS has the mode "ap".
BssSecured ==
    \A i \in bsscfgs : bss[i] /\ link /\ conf = nv =>
        /\ IsSet(<<"wsec", i>>, wlconf_set_wsec(nv.sec[i]))
        /\ IsSet(<<"eap_restrict", i>>, nv.sec[i].akm # {} \/ nv.sec[i].radius)
        /\ (i = 0 => ap) => IsSet(<<"wpa_auth", i>>, nv.sec[i].akm)

\* wlconf_ampdu_amsdu_set: on a core older than 40 AMPDU and AMSDU are never both
\* on, in whatever order configurations with and without the variables follow and
\* although a variable that nvram has not got leaves the driver's setting.
AggregationExclusive ==
    ~ NewCore /\ pc = "idle" /\ refused \cap {<<"ampdu", Radio>>, <<"amsdu", Radio>>} = {} =>
        ~ (par[<<"ampdu", Radio>>] = TRUE /\ par[<<"amsdu", Radio>>] = TRUE)

\* A legal chanspec of the driver's band that has nvram's channel, width and side
\* band: the reference for what wlconf makes of the three.
SideWord(c) ==
    CASE c.bw = 40 -> <<"lower", "upper">>[c.sb + 1]
      [] c.bw = 80 -> <<"ll", "lu", "ul", "uu">>[c.sb + 1]
      [] OTHER -> nv.ctlsb
NamedByNvram(c) ==
    /\ c.band = par[<<"band", Radio>>] /\ c.bw = nbw
    /\ wf_chspec_valid(c) /\ wf_chspec_ctlchan(c) = nv.channel /\ nv.ctlsb = SideWord(c)

\* An access point with an N phy, a channel in nvram and no chanspec; only
\* coexistence may move it.
OwnChannel == (ap \/ apsta) /\ IsN /\ ~ obss_coex /\ nv.chanspec = NoText /\ nv.channel # 0

\* Such an access point, with a side band word of its width, ends "up" on the chanspec
\* that nvram describes, if there is a legal one, and never on a legal chanspec of
\* another channel, band, width or side band, for the channels at the edges too.
ChannelKept ==
    /\ pc = "done" /\ OwnChannel /\ ~ Refused(<<"chanspec", Radio>>)
    /\ nbw = 40 => nv.ctlsb \in {"lower", "upper"}
    /\ nbw = 80 => nv.ctlsb \in {"ll", "lu", "ul", "uu"}
    => LET c == par[<<"chanspec", Radio>>]
       IN  /\ wf_chspec_valid(c) => NamedByNvram(c)
           /\ \A d \in [band : {2, 5}, bw : {nbw}, sb : 0 .. 3, ch : 1 .. MAXCHANNEL] :
                 NamedByNvram(d) => c = d

\* "Adjust the channel to be center channel", whatever nctrlsb says: a legal chanspec
\* that is set has nvram's channel as its control channel.
ChannelCentred ==
    pc = "done" /\ OwnChannel /\ ~ Refused(<<"chanspec", Radio>>) =>
        LET c == par[<<"chanspec", Radio>>]
        IN  wf_chspec_valid(c) => wf_chspec_ctlchan(c) = nv.channel

\* "Use chanspec to set the channel": a chanspec variable that wf_chspec_aton can
\* convert is what the radio gets, whichever strings were converted before it.
ChanspecUsed ==
    LET c == wf_chspec_aton(nv.chanspec, 0)
    IN  pc = "done" /\ ~ obss_coex /\ ~ Refused(<<"chanspec", Radio>>) /\ c # None =>
            par[<<"chanspec", Radio>>] = c

\* A radio that "up" has configured for another mode does not spoof its address any
\* more (nothing sets mac_spoof back).
SpoofForgotten ==
    pc = "idle" /\ conf = nv /\ nv.mode # "mac_spoof" => par[<<"mac_spoof", Radio>>] # TRUE

\* wf_chspec_aton undoes wf_chspec_ntoa when the chanspec variable is read, whatever
\* the preferred channels were: for every legal chanspec, an 80+80 one if it is the
\* first of the process.  A string that is read names its control channel, except
\* for a side band letter that puts the centre at channel 0 ("1u"), which wlconf
\* takes although it is not legal; a legal one is what wf_channel2chspec makes, and
\* its frequency leads back to it.
ChanBits == [band : {2}, bw : {20, 40}, sb : 0 .. 1, ch : 1 .. 14]
            \cup [band : {5}, bw : {20, 40, 80, 160}, sb : 0 .. 7, ch : 34 .. 165]
            \cup [band : {5}, bw : {8080}, sb : 0 .. 7, ch : (1 .. 6) \X (1 .. 6)]
ChanNumbers == (1 .. 14) \cup {36, 40, 44, 48, 100, 144, 149, 161, 165}
ChanText == [g : {0, 2, 5}, ch : ChanNumbers,
             tail : {"end", "u", "l", "/20", "/40", "/40u", "/80", "/160"}, pair : {<<0, 0>>}]
            \cup [g : {0, 5}, ch : ChanNumbers, tail : {"/80+80"}, pair : {42, 58, 155} \X {42, 106, 155}]
ChspecRoundTrip ==
    pc = "chan" /\ ups = 1 /\ refused = {} =>
        /\ \A c \in ChanBits : wf_chspec_valid(c) =>
              /\ wf_chspec_aton(wf_chspec_ntoa(c), plus80) = IF c.bw = 8080 /\ plus80 # 0 THEN None ELSE c
              /\ wf_chspec_ctlchan(wf_chspec_ctlchspec(c)) = wf_chspec_ctlchan(c)
              /\ c.bw = 80 => wf_chspec_ctlchan(wf_chspec_primary40_chspec(c)) = wf_chspec_ctlchan(c)
        /\ \A s \in ChanText : LET c == wf_chspec_aton(s, plus80) IN
              c # None =>
                /\ \/ c.bw = 40 /\ c.ch = 0
                   \/ wf_chspec_ctlchan(c) = s.ch
                /\ wf_chspec_valid(c) =>
                      /\ c.band = 5 /\ c.bw # 8080 /\ s.ch > 14 => c = wf_channel2chspec(s.ch, c.bw)
                      /\ LET f == IF c.band = 2 THEN CHAN_FACTOR_2_4_G ELSE CHAN_FACTOR_5_G
                         IN  wf_mhz2channel(wf_channel2mhz(s.ch, f), 0) = s.ch
=============================================================================
