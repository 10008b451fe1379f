---------------------------- MODULE WlconfProofs ----------------------------
(***************************************************************************)
(* Proofs about Wlconf, for any configurations, cards and any choice of    *)
(* ioctls that the driver may refuse: after "up" every BSS has the         *)
(* security, and the radio the channel, of the configuration that "up"     *)
(* read, whatever was there before; on an old core AMPDU and AMSDU are     *)
(* never both on; and chanspecs survive being written and read.            *)
(*                                                                         *)
(* The first two are not inductive: they speak of the end of "up".         *)
(* ConfInv says what the security part has set (Secure of nvram), that the *)
(* later parts write none of it, and that it stays so for the              *)
(* configuration of the last "up" (conf) while nvram already says          *)
(* something else; and it holds AggregationExclusive in the middle of a    *)
(* command too.  ChanInv says that wlconf's band is the driver's and that  *)
(* the chanspec, once set, is the one made of nvram's channel.  The last   *)
(* is the arithmetic of bcmwifi_channels.c, by cases on the width, for     *)
(* every number of 80+80 strings that the process has read.                *)
(***************************************************************************)
EXTENDS Wlconf, TLAPS

-----------------------------------------------------------------------------
(* What a configuration c asks for *)

Ap(c)    == c.mode = "ap"
Nmode(c) == c.phy \in {"n", "v"} /\ c.nmode
Bsss(c)  == IF c.vif THEN {0, 1} ELSE {0}

Secure(c) ==
    \A i \in Bsss(c) :
        /\ IsSet(<<"wsec", i>>, wlconf_set_wsec(c.sec[i]))
        /\ IsSet(<<"eap_restrict", i>>, c.sec[i].akm # {} \/ c.sec[i].radius)
        /\ (i = 0 => Ap(c)) => IsSet(<<"wpa_auth", i>>, c.sec[i].akm)

-----------------------------------------------------------------------------
(* The parts of "up", by what has been set before them *)

BeforeChan == {"down", "list", "ssid", "vif", "mode", "psta", "perbss", "radio", "band", "reg", "bw", "chan"}
BeforeSec  == {"chain", "protection", "aggr", "rate", "period", "misc", "up", "ebos", "antsel", "pspretend",
               "coex", "acs", "security"}
AfterSec   == {"mac", "done"}
UpParts    == BeforeChan \cup BeforeSec \cup AfterSec
Others     == {"idle", "wds", "start", "trf"}

NvInv ==
    /\ NvKeys \subseteq DOMAIN nv
    /\ nv.mode # NoConf.mode
    /\ DOMAIN par = Params
    /\ pc \in UpParts \cup Others

\* What the running "up" has set.
UpInv ==
    /\ pc \in UpParts => conf = NoConf
    /\ pc \in AfterSec => Secure(nv)

\* What the last one has left.
LastInv == conf # NoConf => Secure(conf)

\* AggregationExclusive holds in the middle of a command too.
AggrInv ==
    ~ NewCore /\ refused \cap {<<"ampdu", Radio>>, <<"amsdu", Radio>>} = {} =>
        ~ (par[<<"ampdu", Radio>>] = TRUE /\ par[<<"amsdu", Radio>>] = TRUE)

ConfInv == NvInv /\ UpInv /\ LastInv /\ AggrInv

-----------------------------------------------------------------------------
(* Which names a partial function of parameters writes *)

AggrNames == {"ampdu", "amsdu"}
SecNames  == {"wsec", "eap_restrict", "wpa_auth"}
ChanNames == {"band", "chanspec"}
Core      == AggrNames \cup SecNames
Kept      == Core \cup ChanNames

Spares(f, S) == \A p \in DOMAIN f : p[1] \notin S

\* Spares of two functions, of one that sets one parameter, and of the optional ones.
LEMMA SparesOver ==
    ASSUME NEW S, NEW f, NEW g, Spares(f, S), Spares(g, S) PROVE Spares(f @@ g, S)
  BY DEF Spares, @@

\* One parameter of the radio.
LEMMA SparesR == ASSUME NEW S, NEW n, NEW v, n \notin S PROVE Spares(R(n, v), S)
  BY DEF Spares, R, :>

\* One parameter of a BSS.
LEMMA SparesPoint == ASSUME NEW S, NEW n, NEW i, NEW v, n \notin S PROVE Spares(<<n, i>> :> v, S)
  BY DEF Spares, :>

\* A part that may be left out.
LEMMA SparesWhen == ASSUME NEW S, NEW c, NEW f, Spares(f, S) PROVE Spares(When(c, f), S)
  BY DEF Spares, When

\* The parameters that are copied from nvram.
LEMMA SparesCopied == ASSUME NEW S, NEW T, T \cap S = {} PROVE Spares(Copied(T), S) /\ Spares(Optional(T), S)
  BY DEF Spares, Copied, Optional

\* The security of a BSS is three parameters that no part but this one writes.
LEMMA SecuritySpares ==
    ASSUME NEW cfg, NEW i, NEW id, NEW st
    PROVE  Spares(wlconf_security_options(cfg, i, id, st), Kept \ SecNames)
<1>1. \A v : /\ Spares(<<"wsec", i>> :> v, Kept \ SecNames) /\ Spares(<<"join_pref", i>> :> v, Kept \ SecNames)
            /\ Spares(<<"wpa_auth", i>> :> v, Kept \ SecNames) /\ Spares(<<"auth", i>> :> v, Kept \ SecNames)
            /\ Spares(<<"eap_restrict", i>> :> v, Kept \ SecNames)
            /\ Spares(<<"wep_keys", i>> :> v, Kept \ SecNames)
  BY DEF Spares, :>, Kept, Core, AggrNames, SecNames, ChanNames
<1>2. \A v : Spares(R("sup_wpa", v), Kept \ SecNames)
  BY SparesR DEF Kept, Core, AggrNames, SecNames, ChanNames
<1> QED
  BY <1>1, <1>2, SparesOver, SparesWhen DEF wlconf_security_options, wlconf_set_wep_key

\* Each part writes the parameters that are its own, and no part before or after
\* writes them again.
LEMMA PartSpares ==
    ASSUME pc \in DOMAIN Follows
    PROVE  /\ pc # "aggr" => Spares(PartSets(pc), AggrNames)
           /\ pc # "security" => Spares(PartSets(pc), SecNames)
           /\ Spares(PartSets(pc), ChanNames)
<1> USE SparesOver, SparesR, SparesWhen, SparesCopied DEF Kept, Core, AggrNames, SecNames, ChanNames
<1>1. /\ Spares(B("ssid", bsscfgs, LAMBDA i : nv.ssid), Kept)
      /\ Spares(B("dwds", bsscfgs, LAMBDA i : (ap \/ sta \/ psta \/ psr \/ (apsta /\ ~ wet)) /\ nv.dwds), Kept)
      /\ Spares(B("preauth", ap_bsss, LAMBDA i : nv.preauth), Kept)
      /\ Spares(B("vndr_ie", bsscfgs, LAMBDA i : "wet_tunnel"), Kept)
      /\ Spares(B("bss_maxassoc", ap_bsss, LAMBDA i : nv.maxassoc), Kept)
      /\ Spares(B("isolation", bsscfgs, LAMBDA i : nv.isolate), Kept)
      /\ Spares(B("mcast_regen", bsscfgs, LAMBDA i : nv.mcast), Kept)
      /\ Spares(B("wme_bss_disable", bsscfgs, LAMBDA i : nv.wme_off), Kept)
      /\ Spares(B("mode_reqd", bsscfgs, LAMBDA i : nv.rest), Kept)
  BY DEF B, Spares
<1>2. Spares(ssid_params, Kept)
  <2>1. \A v : Spares(R("mbss", v), Kept)
    OBVIOUS
  <2> QED
    BY <1>1, <2>1 DEF ssid_params
<1>3. Spares(vif_params, Kept) /\ Spares(mac_params, Kept)
  BY DEF vif_params, mac_params, B, :>, Spares
<1>4. Spares(perbss_params, Kept)
  BY <1>1 DEF perbss_params, wlconf_set_preauth, wlconf_set_brcm_syscap_ie
<1>5. Spares(radio_params, Kept) /\ Spares(chip_params, Kept) /\ Spares(bw_params, Kept)
  BY DEF radio_params, chip_params, bw_params
<1>6. Spares(reg_params, Kept)
  <2>1. \/ reg_params = R("reg", "off") @@ R("radar", FALSE)
        \/ reg_params = R("reg", "off") @@ R("radar", TRUE) @@ wlconf_dfs_pref_chan_options
        \/ reg_params = R("reg", "d") @@ R("radar", FALSE)
        \/ reg_params = When(FALSE, <<>>)
    BY DEF reg_params
  <2>2. Spares(When(FALSE, <<>>), Kept)
    BY DEF When, Spares
  <2>3. \A v : Spares(R("reg", v), Kept) /\ Spares(R("radar", v), Kept)
    OBVIOUS
  <2>4. Spares(wlconf_dfs_pref_chan_options, Kept)
    BY DEF wlconf_dfs_pref_chan_options
  <2> HIDE DEF Kept, Core, AggrNames, SecNames, ChanNames
  <2> QED
    BY <2>1, <2>2, <2>3, <2>4
<1>7. Spares(chain_params, Kept) /\ Spares(protection_params, Kept) /\ Spares(period_params, Kept)
  BY DEF chain_params, protection_params, period_params
<1>8. Spares(misc_params, Kept)
  BY DEF misc_params, burst_params, nar_params, wlconf_set_txbf, airtime_params
<1>9. Spares(ebos_params, Kept) /\ Spares(antsel_params, Kept)
  BY DEF ebos_params, cal_params, antsel_params, wlconf_set_antsel, wlconf_set_radarthrs
<1>10. Spares(pspretend_params, Kept) /\ Spares(chanim_params, Kept) /\ Spares(coex_params, Kept)
  BY DEF pspretend_params, chanim_params, coex_params, wlconf_set_txbf_timer
<1>11. Spares(wds_params, Kept) /\ Spares(trf_params, Kept)
  BY DEF wds_params, trf_params
<1>12. \A f : Spares(f, Kept) => Spares(f, Kept \ AggrNames) /\ Spares(f, Kept \ SecNames)
  BY DEF Spares
<1>13. Spares(mode_params, Kept)
  <2>1. \A v : /\ Spares(R("ap", v), Kept) /\ Spares(R("apsta", v), Kept) /\ Spares(R("wet", v), Kept)
               /\ Spares(R("infra", v), Kept) /\ Spares(R("mac_spoof", v), Kept) /\ Spares(R("roam", v), Kept)
               /\ Spares(R("mpc", v), Kept)
    OBVIOUS
  <2> HIDE DEF Kept, Core, AggrNames, SecNames, ChanNames
  <2> QED
    BY <2>1, <1>1 DEF mode_params
<1>14. Spares(psta_params, Kept)
  <2>1. CASE psta
    BY <2>1 DEF psta_params
  <2>2. CASE ~ psta /\ psr
    BY <2>2 DEF psta_params
  <2>3. CASE ~ psta /\ ~ psr
    BY <2>3 DEF psta_params
  <2> QED
    BY <2>1, <2>2, <2>3
<1>15. Spares(aggr_params, Kept \ AggrNames)
  <2>1. /\ Spares(B("wme_bss_disable", bsscfgs, LAMBDA i : nv.wme_off), Kept \ AggrNames)
        /\ Spares(B("mode_reqd", bsscfgs, LAMBDA i : nv.rest), Kept \ AggrNames)
    BY <1>1, <1>12
  <2>2. \A v : Spares(R("ampdu", v), Kept \ AggrNames) /\ Spares(R("amsdu", v), Kept \ AggrNames)
               /\ Spares(R("wme", v), Kept \ AggrNames)
    OBVIOUS
  <2>3. Spares(Copied({"ampdu_retry"}), Kept \ AggrNames)
        /\ Spares(Copied({"wme_ac", "wme_tx_params"}), Kept \ AggrNames)
    OBVIOUS
  <2> HIDE DEF Kept, Core, AggrNames, SecNames, ChanNames
  <2>4. Spares(wlconf_ampdu_amsdu_set, Kept \ AggrNames)
    BY <2>2 DEF wlconf_ampdu_amsdu_set
  <2>5. Spares(wlconf_set_ampdu_retry_limit, Kept \ AggrNames) /\ Spares(wlconf_set_wme, Kept \ AggrNames)
    BY <2>3 DEF wlconf_set_ampdu_retry_limit, wlconf_set_wme
  <2> QED
    BY <2>1, <2>2, <2>4, <2>5 DEF aggr_params
<1>16. Spares(security_params, Kept \ SecNames)
  <2>1. \A st : /\ Spares(wlconf_security_options(nv.sec[0], 0, nv.mode = "mac_spoof", st), Kept \ SecNames)
               /\ Spares(wlconf_security_options(nv.sec[1], 1, nv.mode = "mac_spoof", st), Kept \ SecNames)
    BY SecuritySpares, Zenon
  <2> HIDE DEF Kept, Core, AggrNames, SecNames, ChanNames
  <2> QED
    BY <2>1 DEF security_params
<1>17. \A f : /\ Spares(f, Kept) => Spares(f, AggrNames) /\ Spares(f, SecNames) /\ Spares(f, ChanNames)
              /\ Spares(f, Kept \ AggrNames) => Spares(f, SecNames) /\ Spares(f, ChanNames)
              /\ Spares(f, Kept \ SecNames) => Spares(f, AggrNames) /\ Spares(f, ChanNames)
  BY DEF Spares
<1> HIDE DEF Kept, Core, AggrNames, SecNames, ChanNames
<1>18. pc \notin {"aggr", "security"} => Spares(PartSets(pc), Kept)
  BY <1>2, <1>3, <1>4, <1>5, <1>6, <1>7, <1>8, <1>9, <1>10, <1>11, <1>13, <1>14 DEF PartSets, Follows
<1>19. /\ pc = "aggr" => Spares(PartSets(pc), Kept \ AggrNames)
       /\ pc = "security" => Spares(PartSets(pc), Kept \ SecNames)
  BY <1>15, <1>16 DEF PartSets
<1> QED
  BY <1>17, <1>18, <1>19
-----------------------------------------------------------------------------
(* What a part leaves *)

\* The parameters with a name in S, and whether they were refused, stay.
Same(S) == \A p \in Params : p[1] \in S => par'[p] = par[p] /\ (p \in refused' <=> p \in refused)

\* Setting f leaves alone what f spares.
LEMMA SetSame ==
    ASSUME NEW f, NEW no \in MayRefuse(DOMAIN f), NEW S, Spares(f, S), Set(f, no)
    PROVE  Same(S) /\ DOMAIN par' = Params
<1>1. no \subseteq DOMAIN f
  BY DEF MayRefuse
<1> QED
  BY <1>1 DEF Set, Same, Spares

\* A parameter that is in the function has its value, or was refused.
LEMMA SetDoes ==
    ASSUME NEW f, NEW no, Set(f, no), NEW p \in Params, p \in DOMAIN f
    PROVE  par'[p] = f[p] \/ p \in refused'
  BY DEF Set

\* f sets p to v.
Gives(f, p, v) == p \in DOMAIN f /\ f[p] = v

\* What one parameter is given.
LEMMA GivesR == ASSUME NEW n, NEW v PROVE Gives(R(n, v), <<n, Radio>>, v)
  BY DEF Gives, R, :>

\* The left of two functions wins.
LEMMA GivesLeft == ASSUME NEW f, NEW g, NEW p, NEW v, Gives(f, p, v) PROVE Gives(f @@ g, p, v)
  BY DEF Gives, @@

\* The right one counts where the left has nothing.
LEMMA GivesRight ==
    ASSUME NEW f, NEW g, NEW n, NEW i, NEW v, Gives(g, <<n, i>>, v), Spares(f, {n})
    PROVE  Gives(f @@ g, <<n, i>>, v)
  BY DEF Gives, @@, Spares

\* A part that may be left out is there or empty.
LEMMA WhenCases ==
    ASSUME NEW c, NEW f
    PROVE  /\ c => When(c, f) = f
           /\ ~ c => DOMAIN When(c, f) = {} /\ \A S : Spares(When(c, f), S)
  BY DEF When, Spares

\* An old core is never told to do both: one of the two is turned off, or neither
\* is touched.
LEMMA AggrParams ==
    \/ NewCore
    \/ Gives(aggr_params, <<"ampdu", Radio>>, FALSE)
    \/ Gives(aggr_params, <<"amsdu", Radio>>, FALSE)
    \/ \A n \in AggrNames : <<n, Radio>> \notin DOMAIN aggr_params
<1> DEFINE g1 == wlconf_ampdu_amsdu_set @@ wlconf_set_ampdu_retry_limit
           g2 == g1 @@ R("wme", nv.wme)
           g3 == g2 @@ wlconf_set_wme
           g4 == g3 @@ B("wme_bss_disable", bsscfgs, LAMBDA i : nv.wme_off)
<1>1. aggr_params = g4 @@ B("mode_reqd", bsscfgs, LAMBDA i : nv.rest)
  BY DEF aggr_params
<1>2. /\ Gives(R("ampdu", FALSE), <<"ampdu", Radio>>, FALSE) /\ Gives(R("amsdu", FALSE), <<"amsdu", Radio>>, FALSE)
  BY GivesR, Zenon
<1>3. \A v : Spares(R("amsdu", v), {"ampdu"})
  BY SparesR
<1>4. ~ nmode => /\ Gives(wlconf_ampdu_amsdu_set, <<"ampdu", Radio>>, FALSE)
                 /\ Gives(wlconf_ampdu_amsdu_set, <<"amsdu", Radio>>, FALSE)
  <2>1. ~ nmode => wlconf_ampdu_amsdu_set = R("amsdu", FALSE) @@ R("ampdu", FALSE)
    BY DEF wlconf_ampdu_amsdu_set
  <2> QED
    BY <2>1, <1>2, <1>3, GivesLeft, GivesRight, Zenon
<1>5. \/ NewCore
      \/ Gives(wlconf_ampdu_amsdu_set, <<"ampdu", Radio>>, FALSE)
      \/ Gives(wlconf_ampdu_amsdu_set, <<"amsdu", Radio>>, FALSE)
      \/ Spares(wlconf_ampdu_amsdu_set, AggrNames)
  <2> SUFFICES ASSUME ~ NewCore, nmode
               PROVE  \/ Gives(wlconf_ampdu_amsdu_set, <<"ampdu", Radio>>, FALSE)
                      \/ Gives(wlconf_ampdu_amsdu_set, <<"amsdu", Radio>>, FALSE)
                      \/ Spares(wlconf_ampdu_amsdu_set, AggrNames)
    BY <1>4
  <2> DEFINE b == R("ampdu", FALSE) @@ R("amsdu", TRUE)
             h == R("amsdu", FALSE) @@ R("ampdu", TRUE)
             k1 == When(amsdu_valid /\ ~ amsdu_on, R("amsdu", FALSE))
             k2 == k1 @@ When(amsdu_on /\ NewCore, R("amsdu", TRUE))
             k3 == k2 @@ When(amsdu_on /\ ~ NewCore /\ ~ ampdu_on, b)
             k4 == k3 @@ When(ampdu_valid /\ ampdu_on, h)
             k5 == k4 @@ When(ampdu_valid /\ ~ ampdu_on, R("ampdu", FALSE))
  <2>1. wlconf_ampdu_amsdu_set = k5
    BY DEF wlconf_ampdu_amsdu_set
  <2>2. Gives(b, <<"ampdu", Radio>>, FALSE) /\ Gives(h, <<"amsdu", Radio>>, FALSE)
    BY <1>2, GivesLeft, Zenon
  <2>3. Spares(k2, {"ampdu"})
    BY <1>3, SparesOver, SparesWhen, Zenon
  <2> HIDE DEF b, h
  <2>4. (amsdu_on => amsdu_valid) /\ (ampdu_on => ampdu_valid)
    BY DEF amsdu_on, ampdu_on
  <2>5. CASE amsdu_valid /\ ~ amsdu_on
    <3>1. Gives(k1, <<"amsdu", Radio>>, FALSE)
      BY <2>5, <1>2, WhenCases, Zenon
    <3>2. Gives(k5, <<"amsdu", Radio>>, FALSE)
      BY <3>1, GivesLeft, Zenon
    <3> QED
      BY <2>1, <3>2, Zenon
  <2>6. CASE amsdu_on /\ ~ ampdu_on
    <3>1. Gives(k3, <<"ampdu", Radio>>, FALSE)
      <4>1. When(amsdu_on /\ ~ NewCore /\ ~ ampdu_on, b) = b
        BY <2>6, WhenCases, Zenon
      <4> QED
        BY <4>1, <2>2, <2>3, GivesRight, Zenon
    <3>2. Gives(k5, <<"ampdu", Radio>>, FALSE)
      BY <3>1, GivesLeft, Zenon
    <3> QED
      BY <2>1, <3>2, Zenon
  <2>7. CASE ampdu_on /\ ~ (amsdu_valid /\ ~ amsdu_on)
    <3>1. Spares(k3, {"amsdu"})
      <4>1. Spares(k1, {"amsdu"}) /\ Spares(When(amsdu_on /\ NewCore, R("amsdu", TRUE)), {"amsdu"})
            /\ Spares(When(amsdu_on /\ ~ NewCore /\ ~ ampdu_on, b), {"amsdu"})
        BY <2>7, WhenCases, Zenon
      <4> QED
        BY <4>1, SparesOver, Zenon
    <3>2. Gives(k4, <<"amsdu", Radio>>, FALSE)
      <4>1. When(ampdu_valid /\ ampdu_on, h) = h
        BY <2>4, <2>7, WhenCases, Zenon
      <4> QED
        BY <4>1, <2>2, <3>1, GivesRight, Zenon
    <3>3. Gives(k5, <<"amsdu", Radio>>, FALSE)
      BY <3>2, GivesLeft, Zenon
    <3> QED
      BY <2>1, <3>3, Zenon
  <2>8. CASE ~ amsdu_valid /\ ampdu_valid /\ ~ ampdu_on
    <3>1. Spares(k4, {"ampdu"})
      <4>1. Spares(When(amsdu_on /\ ~ NewCore /\ ~ ampdu_on, b), {"ampdu"})
            /\ Spares(When(ampdu_valid /\ ampdu_on, h), {"ampdu"})
        BY <2>4, <2>8, WhenCases, Zenon
      <4> QED
        BY <4>1, <2>3, SparesOver, Zenon
    <3>2. When(ampdu_valid /\ ~ ampdu_on, R("ampdu", FALSE)) = R("ampdu", FALSE)
      BY <2>8, WhenCases, Zenon
    <3> QED
      BY <2>1, <3>1, <3>2, <1>2, GivesRight, Zenon
  <2>9. CASE ~ amsdu_valid /\ ~ ampdu_valid
    <3>1. /\ Spares(k1, AggrNames) /\ Spares(When(amsdu_on /\ NewCore, R("amsdu", TRUE)), AggrNames)
          /\ Spares(When(amsdu_on /\ ~ NewCore /\ ~ ampdu_on, b), AggrNames)
          /\ Spares(When(ampdu_valid /\ ampdu_on, h), AggrNames)
          /\ Spares(When(ampdu_valid /\ ~ ampdu_on, R("ampdu", FALSE)), AggrNames)
      BY <2>4, <2>9, WhenCases, Zenon
    <3> QED
      BY <2>1, <3>1, SparesOver, Zenon
  <2> QED
    BY <2>4, <2>5, <2>6, <2>7, <2>8, <2>9, Zenon
<1>6. /\ Spares(wlconf_set_ampdu_retry_limit, AggrNames) /\ Spares(R("wme", nv.wme), AggrNames)
      /\ Spares(wlconf_set_wme, AggrNames)
  BY SparesWhen, SparesCopied, SparesR DEF AggrNames, wlconf_set_ampdu_retry_limit, wlconf_set_wme
<1>7. /\ Spares(B("wme_bss_disable", bsscfgs, LAMBDA i : nv.wme_off), AggrNames)
      /\ Spares(B("mode_reqd", bsscfgs, LAMBDA i : nv.rest), AggrNames)
  BY DEF B, Spares, AggrNames
<1>8. ASSUME NEW n, Gives(wlconf_ampdu_amsdu_set, <<n, Radio>>, FALSE) PROVE Gives(aggr_params, <<n, Radio>>, FALSE)
  BY <1>1, <1>8, GivesLeft, Zenon
<1>9. Spares(wlconf_ampdu_amsdu_set, AggrNames) => Spares(aggr_params, AggrNames)
  BY <1>1, <1>6, <1>7, SparesOver, Zenon
<1>10. Spares(aggr_params, AggrNames) => \A n \in AggrNames : <<n, Radio>> \notin DOMAIN aggr_params
  BY DEF Spares
<1> QED
  BY <1>5, <1>8, <1>9, <1>10, Zenon

\* wlconf_security_options sets all that Secure is about, for its BSS and for no other.
LEMMA SecurityOptions ==
    ASSUME NEW cfg, NEW i, NEW id, NEW st
    PROVE  /\ Gives(wlconf_security_options(cfg, i, id, st), <<"wsec", i>>, wlconf_set_wsec(cfg))
           /\ Gives(wlconf_security_options(cfg, i, id, st), <<"eap_restrict", i>>, cfg.akm # {} \/ cfg.radius)
           /\ ~ st => Gives(wlconf_security_options(cfg, i, id, st), <<"wpa_auth", i>>, cfg.akm)
           /\ \A p \in DOMAIN wlconf_security_options(cfg, i, id, st) : p[2] \in {i, Radio}
<1> DEFINE e == cfg.akm # {} \/ cfg.radius
           a == <<"wsec", i>> :> wlconf_set_wsec(cfg)
           j == IF need_join_pref(cfg, st) THEN <<"join_pref", i>> :> cfg.akm ELSE <<"wpa_auth", i>> :> cfg.akm
           o1 == a @@ j
           o2 == o1 @@ (<<"eap_restrict", i>> :> e)
           o3 == o2 @@ wlconf_set_wep_key(cfg, i)
           k  == When(id /\ cfg.akm \cap {"psk", "psk2"} # {}, R("sup_wpa", TRUE))
           o4 == o3 @@ k
           o5 == o4 @@ (<<"auth", i>> :> cfg.auth)
<1>1. wlconf_security_options(cfg, i, id, st) = o5
  BY DEF wlconf_security_options
<1>2. \A p, v : Gives(p :> v, p, v) /\ DOMAIN (p :> v) = {p}
  BY DEF Gives, :>
<1>3. Gives(o5, <<"wsec", i>>, wlconf_set_wsec(cfg))
  BY <1>2, GivesLeft, Zenon
<1>4. Gives(o5, <<"eap_restrict", i>>, e)
  <2>0. j = <<"join_pref", i>> :> cfg.akm \/ j = <<"wpa_auth", i>> :> cfg.akm
    OBVIOUS
  <2>1. Spares(a, {"eap_restrict"}) /\ Spares(j, {"eap_restrict"})
    <3>1. \A v : /\ Spares(<<"join_pref", i>> :> v, {"eap_restrict"}) /\ Spares(<<"wpa_auth", i>> :> v, {"eap_restrict"})
                 /\ Spares(<<"wsec", i>> :> v, {"eap_restrict"})
      BY DEF Spares, :>
    <3> HIDE DEF j
    <3> QED
      BY <2>0, <3>1, Zenon
  <2> HIDE DEF a, j
  <2>2. Spares(o1, {"eap_restrict"})
    BY <2>1, SparesOver
  <2>3. Gives(o2, <<"eap_restrict", i>>, e)
    BY <2>2, <1>2, GivesRight, Zenon
  <2> QED
    BY <2>3, GivesLeft, Zenon
<1>5. ~ st => Gives(o5, <<"wpa_auth", i>>, cfg.akm)
  <2> SUFFICES ASSUME ~ st PROVE Gives(o5, <<"wpa_auth", i>>, cfg.akm)
    OBVIOUS
  <2>1. Spares(a, {"wpa_auth"})
    BY SparesPoint
  <2>2. j = <<"wpa_auth", i>> :> cfg.akm
    BY DEF need_join_pref
  <2>3. Gives(j, <<"wpa_auth", i>>, cfg.akm)
    BY <2>2, <1>2, Zenon
  <2> HIDE DEF a, j
  <2>4. Gives(o1, <<"wpa_auth", i>>, cfg.akm)
    BY <2>1, <2>3, GivesRight, Zenon
  <2> QED
    BY <2>4, GivesLeft, Zenon
<1>6. \A p \in DOMAIN o5 : p[2] \in {i, Radio}
  <2>1. DOMAIN o5 = DOMAIN a \cup DOMAIN j \cup {<<"eap_restrict", i>>} \cup DOMAIN wlconf_set_wep_key(cfg, i)
                    \cup DOMAIN k \cup {<<"auth", i>>}
    <3>1. \A f, g : DOMAIN (f @@ g) = DOMAIN f \cup DOMAIN g
      BY DEF @@
    <3>2. DOMAIN (<<"eap_restrict", i>> :> e) = {<<"eap_restrict", i>>} /\ DOMAIN (<<"auth", i>> :> cfg.auth) = {<<"auth", i>>}
      BY <1>2, Zenon
    <3> HIDE DEF a, j, k, e
    <3>3. /\ DOMAIN o1 = DOMAIN a \cup DOMAIN j
          /\ DOMAIN o2 = DOMAIN o1 \cup {<<"eap_restrict", i>>}
          /\ DOMAIN o3 = DOMAIN o2 \cup DOMAIN wlconf_set_wep_key(cfg, i)
          /\ DOMAIN o4 = DOMAIN o3 \cup DOMAIN k
          /\ DOMAIN o5 = DOMAIN o4 \cup {<<"auth", i>>}
      BY <3>1, <3>2, Zenon
    <3> QED
      BY <3>3, Zenon
  <2>2. DOMAIN a = {<<"wsec", i>>} /\ DOMAIN j \subseteq {<<"join_pref", i>>, <<"wpa_auth", i>>}
    BY <1>2
  <2>3. DOMAIN k \subseteq {<<"sup_wpa", Radio>>} /\ DOMAIN wlconf_set_wep_key(cfg, i) \subseteq {<<"wep_keys", i>>}
    BY DEF wlconf_set_wep_key, When, R, :>
  <2> HIDE DEF a, j, k, o5
  <2> QED
    BY <2>1, <2>2, <2>3
<1> HIDE DEF o5
<1> QED
  BY <1>1, <1>3, <1>4, <1>5, <1>6

\* The security part does so for every BSS.
LEMMA SecurityParams ==
    ASSUME NEW i \in bsscfgs
    PROVE  /\ Gives(security_params, <<"wsec", i>>, wlconf_set_wsec(nv.sec[i]))
           /\ Gives(security_params, <<"eap_restrict", i>>, nv.sec[i].akm # {} \/ nv.sec[i].radius)
           /\ (i = 0 => ap) => Gives(security_params, <<"wpa_auth", i>>, nv.sec[i].akm)
<1> DEFINE s0 == wlconf_security_options(nv.sec[0], 0, nv.mode = "mac_spoof", ~ ap /\ ~ wds)
           s1 == wlconf_security_options(nv.sec[1], 1, nv.mode = "mac_spoof", FALSE)
<1>1. security_params = s0 @@ When(nv.vif, s1)
  BY DEF security_params
<1>2. CASE i = 0
  <2>1. /\ Gives(s0, <<"wsec", 0>>, wlconf_set_wsec(nv.sec[0]))
        /\ Gives(s0, <<"eap_restrict", 0>>, nv.sec[0].akm # {} \/ nv.sec[0].radius)
        /\ ap => Gives(s0, <<"wpa_auth", 0>>, nv.sec[0].akm)
    BY SecurityOptions, Zenon
  <2> HIDE DEF s0, s1
  <2> QED
    BY <1>1, <1>2, <2>1, GivesLeft, Zenon
<1>3. CASE i = 1
  <2>1. /\ Gives(s1, <<"wsec", 1>>, wlconf_set_wsec(nv.sec[1]))
        /\ Gives(s1, <<"eap_restrict", 1>>, nv.sec[1].akm # {} \/ nv.sec[1].radius)
        /\ Gives(s1, <<"wpa_auth", 1>>, nv.sec[1].akm)
    BY SecurityOptions, Zenon
  <2>2. nv.vif
    BY <1>3 DEF bsscfgs
  <2>3. \A p \in DOMAIN s0 : p[2] \in {0, Radio}
    BY SecurityOptions, Zenon
  <2> HIDE DEF s0, s1
  <2>4. \A n : <<n, 1>> \notin DOMAIN s0
    BY <2>3 DEF Radio
  <2>5. When(nv.vif, s1) = s1
    BY <2>2, WhenCases, Zenon
  <2>6. \A n, v : Gives(s1, <<n, 1>>, v) => Gives(s0 @@ s1, <<n, 1>>, v)
    BY <2>4 DEF Gives, @@
  <2> QED
    BY <1>1, <1>3, <2>1, <2>5, <2>6, Zenon
<1> QED
  BY <1>2, <1>3 DEF bsscfgs
-----------------------------------------------------------------------------
(* What has been set stays set *)

\* A command may write nvram, but nothing that these parameters come from.
NvSame ==
    /\ nv'.mode = nv.mode /\ nv'.vif = nv.vif /\ nv'.sec = nv.sec
    /\ NvKeys \subseteq DOMAIN nv'

\* The parameters that the invariants speak of are parameters.
LEMMA KeptNames ==
    /\ \A n \in AggrNames : <<n, Radio>> \in Params
    /\ \A n \in SecNames, i \in BssIdx : <<n, i>> \in Params
    /\ \A c : Bsss(c) \subseteq BssIdx
  BY DEF AggrNames, SecNames, Params, ParNames, BssParNames, BssIdx, Bsss

\* The aggregation holds while its parameters stay.
LEMMA AggrStays == ASSUME Same(AggrNames), AggrInv PROVE AggrInv'
<1>1. \A n \in AggrNames : /\ par'[<<n, Radio>>] = par[<<n, Radio>>]
                           /\ <<n, Radio>> \in refused' <=> <<n, Radio>> \in refused
  BY KeptNames DEF Same
<1> QED
  BY <1>1 DEF AggrNames, AggrInv

\* So does the security, while what it is read from stays.
LEMMA SecureStays ==
    ASSUME Same(SecNames)
    PROVE  /\ NvSame /\ Secure(nv) => Secure(nv)'
           /\ UNCHANGED conf /\ Secure(conf) => Secure(conf)'
<1>1. \A n \in SecNames, i \in BssIdx : /\ par'[<<n, i>>] = par[<<n, i>>]
                                        /\ <<n, i>> \in refused' <=> <<n, i>> \in refused
  BY KeptNames DEF Same
<1>2. UNCHANGED conf /\ Secure(conf) => Secure(conf)'
  <2> SUFFICES ASSUME conf' = conf, Secure(conf), NEW i \in Bsss(conf)
               PROVE  /\ IsSet(<<"wsec", i>>, wlconf_set_wsec(conf.sec[i]))'
                      /\ IsSet(<<"eap_restrict", i>>, conf.sec[i].akm # {} \/ conf.sec[i].radius)'
                      /\ (i = 0 => Ap(conf)) => IsSet(<<"wpa_auth", i>>, conf.sec[i].akm)'
    BY DEF Secure, Bsss, Ap
  <2>1. i \in BssIdx
    BY KeptNames
  <2>2. \A n \in SecNames : /\ par'[<<n, i>>] = par[<<n, i>>]
                            /\ <<n, i>> \in refused' <=> <<n, i>> \in refused
    BY <2>1, <1>1
  <2>3. /\ IsSet(<<"wsec", i>>, wlconf_set_wsec(conf.sec[i]))
        /\ IsSet(<<"eap_restrict", i>>, conf.sec[i].akm # {} \/ conf.sec[i].radius)
        /\ (i = 0 => Ap(conf)) => IsSet(<<"wpa_auth", i>>, conf.sec[i].akm)
    BY DEF Secure
  <2>4. wlconf_set_wsec(conf.sec[i])' = wlconf_set_wsec(conf.sec[i])
    BY DEF wlconf_set_wsec
  <2> QED
    BY <2>2, <2>3, <2>4 DEF SecNames, IsSet, Refused
<1>3. NvSame /\ Secure(nv) => Secure(nv)'
  <2> SUFFICES ASSUME NvSame, Secure(nv), NEW i \in Bsss(nv)
               PROVE  /\ IsSet(<<"wsec", i>>, wlconf_set_wsec(nv.sec[i]))'
                      /\ IsSet(<<"eap_restrict", i>>, nv.sec[i].akm # {} \/ nv.sec[i].radius)'
                      /\ (i = 0 => Ap(nv)) => IsSet(<<"wpa_auth", i>>, nv.sec[i].akm)'
    BY DEF Secure, Bsss, Ap, NvSame
  <2>1. i \in BssIdx
    BY KeptNames
  <2>2. \A n \in SecNames : /\ par'[<<n, i>>] = par[<<n, i>>]
                            /\ <<n, i>> \in refused' <=> <<n, i>> \in refused
    BY <2>1, <1>1
  <2>3. /\ IsSet(<<"wsec", i>>, wlconf_set_wsec(nv.sec[i]))
        /\ IsSet(<<"eap_restrict", i>>, nv.sec[i].akm # {} \/ nv.sec[i].radius)
        /\ (i = 0 => Ap(nv)) => IsSet(<<"wpa_auth", i>>, nv.sec[i].akm)
    BY DEF Secure
  <2>4. wlconf_set_wsec(nv.sec[i])' = wlconf_set_wsec(nv.sec[i]) /\ nv'.sec[i] = nv.sec[i]
    BY DEF wlconf_set_wsec, NvSame
  <2> QED
    BY <2>2, <2>3, <2>4 DEF SecNames, IsSet, Refused
<1> QED
  BY <1>2, <1>3

\* The commands' parts between which nothing of it is written.
LEMMA AllStay ==
    ASSUME LastInv, AggrInv, UNCHANGED conf, Same(Core)
    PROVE  LastInv' /\ AggrInv'
<1>1. Same(AggrNames) /\ Same(SecNames)
  BY DEF Same, Core
<1> QED
  BY <1>1, AggrStays, SecureStays DEF LastInv, NoConf
-----------------------------------------------------------------------------
(* The steps *)

\* What is written back into nvram decides nothing of this.
LEMMA SavedSame ==
    ASSUME NvInv, nv' = Saved(pc)
    PROVE  NvSame /\ (Nmode(nv) <=> Nmode(nv)') /\ nv'.mode # NoConf.mode
<1>1. \/ nv' = [nv EXCEPT !.country = par[<<"country", Radio>>]]
      \/ ~ IsN /\ nv' = [nv EXCEPT !.nmode = FALSE]
      \/ nv' = [nv EXCEPT !.chains = HwChains]
      \/ nv' = nv
  BY DEF Saved
<1>2. CASE nv' = [nv EXCEPT !.country = par[<<"country", Radio>>]]
  BY <1>2 DEF NvInv, NvSame, Nmode
<1>3. CASE ~ IsN /\ nv' = [nv EXCEPT !.nmode = FALSE]
  BY <1>3 DEF NvInv, NvSame, Nmode, IsN
<1>4. CASE nv' = [nv EXCEPT !.chains = HwChains]
  BY <1>4 DEF NvInv, NvSame, Nmode
<1>5. CASE nv' = nv
  BY <1>5 DEF NvInv, NvSame, Nmode
<1> QED
  BY <1>1, <1>2, <1>3, <1>4, <1>5

\* A part of "up" that only sets parameters sets its own and spares the others'.
LEMMA ApplyKeeps ==
    ASSUME ConfInv, Apply
    PROVE  ConfInv'
<1> DEFINE f == PartSets(pc)
<1> PICK no \in MayRefuse(DOMAIN f) : Set(f, no)
  BY DEF Apply
<1> HIDE DEF f
<1>1. pc \in DOMAIN Follows /\ pc' = Follows[pc] /\ nv' = Saved(pc) /\ UNCHANGED conf
  BY DEF Apply
<1>2. NvSame /\ (Nmode(nv) <=> Nmode(nv)') /\ nv'.mode # NoConf.mode
  BY <1>1, SavedSame DEF ConfInv
<1>3. /\ pc # "aggr" => Spares(f, AggrNames)
      /\ pc # "security" => Spares(f, SecNames)
  BY <1>1, PartSpares DEF f
<1>4. /\ pc # "aggr" => Same(AggrNames)
      /\ pc # "security" => Same(SecNames)
      /\ DOMAIN par' = Params
  <2>1. Spares(f, {})
    BY DEF Spares
  <2>2. \A S : Spares(f, S) => Same(S) /\ DOMAIN par' = Params
    BY SetSame
  <2> QED
    BY <1>3, <2>1, <2>2, Zenon
<1>5. \A p \in Params : \A v : Gives(f, p, v) => par'[p] = v \/ p \in refused'
  BY SetDoes DEF Gives
<1>6. pc' \in UpParts \cup Others
  BY <1>1 DEF Follows, UpParts, BeforeChan, BeforeSec, AfterSec, Others
<1>7. NvInv'
  BY <1>2, <1>4, <1>6 DEF NvInv, NvSame
<1>10. pc = "aggr" => AggrInv'
  <2> SUFFICES ASSUME pc = "aggr" PROVE AggrInv'
    OBVIOUS
  <2>1. f = aggr_params
    BY DEF f, PartSets
  <2>2. \A n \in AggrNames : <<n, Radio>> \in Params
    BY KeptNames
  <2>6. \/ NewCore
        \/ par'[<<"ampdu", Radio>>] = FALSE \/ <<"ampdu", Radio>> \in refused'
        \/ par'[<<"amsdu", Radio>>] = FALSE \/ <<"amsdu", Radio>> \in refused'
        \/ \A n \in AggrNames : <<n, Radio>> \notin DOMAIN f
    <3>1. <<"ampdu", Radio>> \in Params /\ <<"amsdu", Radio>> \in Params
      BY <2>2 DEF AggrNames
    <3> QED
      BY <2>1, <3>1, <1>5, AggrParams, Zenon
  <2>7. ASSUME \A n \in AggrNames : <<n, Radio>> \notin DOMAIN f PROVE AggrInv'
    <3>1. no \subseteq DOMAIN f
      BY DEF MayRefuse
    <3>2. \A n \in AggrNames : /\ par'[<<n, Radio>>] = par[<<n, Radio>>]
                               /\ <<n, Radio>> \in refused' <=> <<n, Radio>> \in refused
      BY <2>2, <2>7, <3>1 DEF Set
    <3> QED
      BY <3>2 DEF AggrNames, AggrInv, ConfInv
  <2> QED
    BY <2>6, <2>7 DEF AggrInv
<1>11. pc = "security" => Secure(nv)'
  <2> SUFFICES ASSUME pc = "security", NEW i \in bsscfgs
               PROVE  /\ IsSet(<<"wsec", i>>, wlconf_set_wsec(nv.sec[i]))'
                      /\ IsSet(<<"eap_restrict", i>>, nv.sec[i].akm # {} \/ nv.sec[i].radius)'
                      /\ (i = 0 => ap) => IsSet(<<"wpa_auth", i>>, nv.sec[i].akm)'
    BY <1>2 DEF Secure, NvSame, Bsss, bsscfgs, Ap, ap
  <2>1. f = security_params
    BY DEF f, PartSets
  <2>2. nv' = nv
    BY <1>1 DEF Saved
  <2>3. <<"wsec", i>> \in Params /\ <<"eap_restrict", i>> \in Params /\ <<"wpa_auth", i>> \in Params
    BY KeptNames DEF SecNames, bsscfgs, BssIdx
  <2>4. /\ par'[<<"wsec", i>>] = wlconf_set_wsec(nv.sec[i]) \/ <<"wsec", i>> \in refused'
        /\ \/ par'[<<"eap_restrict", i>>] = (nv.sec[i].akm # {} \/ nv.sec[i].radius)
           \/ <<"eap_restrict", i>> \in refused'
        /\ (i = 0 => ap) => par'[<<"wpa_auth", i>>] = nv.sec[i].akm \/ <<"wpa_auth", i>> \in refused'
    BY <2>1, <2>3, <1>5, SecurityParams, Zenon
  <2>5. wlconf_set_wsec(nv.sec[i])' = wlconf_set_wsec(nv.sec[i])
    BY <2>2 DEF wlconf_set_wsec
  <2> QED
    BY <2>2, <2>4, <2>5 DEF IsSet, Refused
<1>12. UpInv'
  <2>1. pc' \in UpParts => pc \in UpParts
    BY <1>1 DEF Follows, UpParts, BeforeChan, BeforeSec, AfterSec
  <2>2. pc' \in AfterSec => pc = "security" \/ (pc # "security" /\ pc \in AfterSec)
    BY <1>1 DEF Follows, AfterSec
  <2>3. pc' \in UpParts => conf' = NoConf
    BY <2>1, <1>1 DEF ConfInv, UpInv
  <2>4. pc' \in AfterSec => Secure(nv)'
    BY <2>2, <1>2, <1>4, <1>11, SecureStays DEF ConfInv, UpInv
  <2> QED
    BY <2>3, <2>4 DEF UpInv, NoConf, UpParts, BeforeChan, BeforeSec, AfterSec
<1>13. LastInv'
  <2>1. CASE pc \in UpParts
    BY <2>1, <1>1 DEF ConfInv, UpInv, LastInv, NoConf
  <2>2. CASE pc \notin UpParts
    <3>1. pc # "security"
      BY <2>2 DEF UpParts, BeforeSec
    <3> QED
      BY <3>1, <1>1, <1>4, SecureStays DEF ConfInv, LastInv, NoConf
  <2> QED
    BY <2>1, <2>2
<1>14. AggrInv'
  BY <1>4, <1>10, AggrStays DEF ConfInv
<1> QED
  BY <1>7, <1>12, <1>13, <1>14 DEF ConfInv
\* A step that writes none of these parameters and goes on to a part that has no
\* more behind it.
LEMMA QuietKeeps ==
    ASSUME ConfInv, Same(Core), DOMAIN par' = Params, UNCHANGED conf,
           NvSame, Nmode(nv) <=> Nmode(nv)', nv'.mode # NoConf.mode,
           pc' \in UpParts \cup Others,
           pc' \in UpParts => pc \in UpParts, pc' \in AfterSec => pc \in AfterSec
    PROVE  ConfInv'
<1>1. Same(AggrNames) /\ Same(SecNames)
  BY DEF Same, Core
<1>2. NvInv'
  BY DEF NvInv, NvSame
<1>3. LastInv' /\ AggrInv'
  BY AllStay DEF ConfInv
<1>4. UpInv'
  <2>1. pc' \in UpParts => conf' = NoConf
    BY DEF ConfInv, UpInv
  <2>2. pc' \in AfterSec => Secure(nv)'
    BY <1>1, SecureStays DEF ConfInv, UpInv
  <2> QED
    BY <2>1, <2>2 DEF UpInv, NoConf, UpParts, BeforeChan, BeforeSec, AfterSec
<1> QED
  BY <1>2, <1>3, <1>4 DEF ConfInv

\* Nothing else of a step than its parameters and its place is needed then.
LEMMA NvUnchanged ==
    ASSUME ConfInv, UNCHANGED nv
    PROVE  NvSame /\ (Nmode(nv) <=> Nmode(nv)') /\ nv'.mode # NoConf.mode
  BY DEF ConfInv, NvInv, NvSame, Nmode

\* A step that sets nothing.
LEMMA ParUnchanged ==
    ASSUME ConfInv, UNCHANGED par,
           \A p \in Params : p[1] \in Core => (p \in refused' <=> p \in refused)
    PROVE  Same(Core) /\ DOMAIN par' = Params
  BY DEF Same, ConfInv, NvInv

\* SetChannel writes no parameter of ConfInv,
LEMMA ChannelKeeps == ASSUME ConfInv, SetChannel PROVE ConfInv'
<1> PICK no \in MayRefuse(DOMAIN chan_params) :
            /\ Set(chan_params, no)
            /\ nv' = IF no # {} /\ ~ IsN /\ read_chanspec = None
                     THEN [nv EXCEPT !.channel = par[<<"chanspec", Radio>>].ch] ELSE nv
  BY DEF SetChannel
<1>1. Spares(chan_params, Core)
  BY SparesR, SparesWhen DEF chan_params, Core, AggrNames, SecNames
<1>2. Same(Core) /\ DOMAIN par' = Params
  BY <1>1, SetSame
<1>3. NvSame /\ (Nmode(nv) <=> Nmode(nv)') /\ nv'.mode # NoConf.mode
  <2>1. nv' = nv \/ nv' = [nv EXCEPT !.channel = par[<<"chanspec", Radio>>].ch]
    OBVIOUS
  <2>2. CASE nv' = nv
    BY <2>2, NvUnchanged
  <2>3. CASE nv' = [nv EXCEPT !.channel = par[<<"chanspec", Radio>>].ch]
    BY <2>3 DEF ConfInv, NvInv, NvSame, Nmode
  <2> QED
    BY <2>1, <2>2, <2>3
<1>4. pc = "chan" /\ pc' = "chain" /\ UNCHANGED conf
  BY DEF SetChannel
<1> QED
  BY <1>2, <1>3, <1>4, QuietKeeps DEF UpParts, BeforeChan, BeforeSec, AfterSec

\* neither does SetRate,
LEMMA RateKeeps == ASSUME ConfInv, SetRate PROVE ConfInv'
<1> DEFINE g == R("rates", "auto") @@ rate_params
<1>1. \/ Set(rate_params, {}) /\ nv' = [nv EXCEPT !.mcs = IF nmode /\ mcs_refused THEN -1 ELSE @]
      \/ Set(g, {}) /\ nv' = [[nv EXCEPT !.mcs = IF nmode /\ mcs_refused THEN -1 ELSE @] EXCEPT !.rate = "auto"]
  BY DEF SetRate
<1>2. Spares(rate_params, Core)
  BY SparesR, SparesWhen, SparesOver DEF rate_params, Core, AggrNames, SecNames
<1>3. Spares(g, Core)
  BY <1>2, SparesR, SparesOver DEF Core, AggrNames, SecNames
<1>4. Same(Core) /\ DOMAIN par' = Params
  <2>1. {} \in MayRefuse(DOMAIN rate_params) /\ {} \in MayRefuse(DOMAIN g)
    BY DEF MayRefuse
  <2> HIDE DEF g
  <2> QED
    BY <1>1, <1>2, <1>3, <2>1, SetSame
<1>5. NvSame /\ (Nmode(nv) <=> Nmode(nv)') /\ nv'.mode # NoConf.mode
  <2> DEFINE y == [nv EXCEPT !.mcs = IF nmode /\ mcs_refused THEN -1 ELSE @]
  <2>1. /\ y.mode = nv.mode /\ y.vif = nv.vif /\ y.sec = nv.sec
        /\ y.phy = nv.phy /\ y.nmode = nv.nmode /\ DOMAIN y = DOMAIN nv
    BY DEF ConfInv, NvInv
  <2>2. nv' = y \/ nv' = [y EXCEPT !.rate = "auto"]
    BY <1>1
  <2> HIDE DEF y
  <2>3. /\ nv'.mode = y.mode /\ nv'.vif = y.vif /\ nv'.sec = y.sec
        /\ nv'.phy = y.phy /\ nv'.nmode = y.nmode /\ DOMAIN nv' = DOMAIN y
    BY <2>1, <2>2 DEF ConfInv, NvInv, NvKeys
  <2> QED
    BY <2>1, <2>3 DEF ConfInv, NvInv, NvSame, Nmode
<1>6. pc = "rate" /\ pc' = "period" /\ UNCHANGED conf
  BY DEF SetRate
<1> QED
  BY <1>4, <1>5, <1>6, QuietKeeps DEF UpParts, BeforeChan, BeforeSec, AfterSec

\* The link and the BSSs are no parameters: what was refused of those stays.
LEMMA LinkRefuses ==
    ASSUME NEW p \in Params,
           \/ Down \/ GetList \/ LinkUp \/ StartBss \/ SetBand
           \/ wlconf \/ wlconf_start \/ wlconf_down \/ UpDone
    PROVE  p \in refused' <=> p \in refused
<1>1. p # LinkPar /\ \A i : p # BssPar(i)
  BY DEF LinkPar, BssPar, Params, ParNames, BssParNames
<1>2. ASSUME NEW S, TakeDown(S) PROVE p \in refused' <=> p \in refused
  <2>1. PICK no \in MayRefuse(DownPars(S)) : refused' = (refused \ DownPars(S)) \cup no
    BY <1>2 DEF TakeDown
  <2>2. p \notin DownPars(S)
    BY <1>1 DEF DownPars
  <2>3. p \notin no
    BY <2>2 DEF MayRefuse
  <2> QED
    BY <2>1, <2>2, <2>3
<1>3. ASSUME NEW no \in MayRefuse({LinkPar}) PROVE p \notin no
  BY <1>1, <1>3 DEF MayRefuse
<1>4. CASE Down \/ wlconf_down
  <2>1. (\E S : TakeDown(S)) \/ UNCHANGED refused
    BY <1>4 DEF Down, wlconf_down
  <2> QED
    BY <2>1, <1>2
<1>5. CASE LinkUp
  BY <1>5, <1>1, <1>3 DEF LinkUp
<1>6. CASE StartBss
  <2>1. PICK i : refused' \in {refused, refused \ {BssPar(i)}, refused \cup {BssPar(i)}}
    BY <1>6 DEF StartBss
  <2> QED
    BY <2>1, <1>1
<1>7. CASE SetBand \/ GetList \/ wlconf \/ wlconf_start \/ UpDone
  BY <1>7 DEF SetBand, GetList, wlconf, wlconf_start, UpDone
<1> QED
  BY <1>4, <1>5, <1>6, <1>7

\* The band, and bringing the link and the BSSs down and up, are other parameters.
LEMMA LinkKeeps ==
    ASSUME ConfInv, SetBand \/ Down \/ GetList \/ LinkUp \/ StartBss \/ wlconf_start
    PROVE  ConfInv'
<1>1. UNCHANGED <<nv, conf>>
  BY DEF SetBand, Down, GetList, LinkUp, StartBss, wlconf_start
<1>2. \A p \in Params : p[1] \in Core => (p \in refused' <=> p \in refused)
  BY LinkRefuses
<1>3. Same(Core) /\ DOMAIN par' = Params
  <2>1. CASE SetBand
    <3>1. PICK b : par' = [par EXCEPT ![<<"band", Radio>>] = b]
      BY <2>1 DEF SetBand
    <3>2. \A p \in Params : p[1] \in Core => p # <<"band", Radio>>
      BY DEF Core, AggrNames, SecNames
    <3> QED
      BY <3>1, <3>2, <1>2 DEF Same, ConfInv, NvInv
  <2>2. CASE Down \/ GetList \/ LinkUp \/ StartBss \/ wlconf_start
    <3>1. UNCHANGED par
      BY <2>2 DEF Down, GetList, LinkUp, StartBss, wlconf_start
    <3> QED
      BY <3>1, <1>2, ParUnchanged
  <2> QED
    BY <2>1, <2>2
<1>4. \/ pc = "band" /\ pc' = "reg"
      \/ pc = "down" /\ pc' = "list"
      \/ pc = "list" /\ pc' \in {"ssid", "idle"}
      \/ pc = "up" /\ pc' = "ebos"
      \/ pc = "start" /\ pc' \in {"start", "trf"}
      \/ pc = "idle" /\ pc' = "wds"
  <2>1. StartBss => pc = "start" /\ pc' \in {"start", "trf"}
    BY DEF StartBss
  <2>2. SetBand => pc = "band" /\ pc' = "reg"
    BY DEF SetBand
  <2>3. (Down => pc = "down" /\ pc' = "list") /\ (GetList => pc = "list" /\ pc' \in {"ssid", "idle"})
    BY DEF Down, GetList
  <2>4. (LinkUp => pc = "up" /\ pc' = "ebos") /\ (wlconf_start => pc = "idle" /\ pc' = "wds")
    BY DEF LinkUp, wlconf_start
  <2> QED
    BY <2>1, <2>2, <2>3, <2>4
<1>5. /\ pc' \in UpParts \cup Others
      /\ pc' \in UpParts => pc \in UpParts
      /\ pc' \in AfterSec => pc \in AfterSec
  BY <1>4 DEF UpParts, BeforeChan, BeforeSec, AfterSec, Others
<1> QED
  BY <1>1, <1>3, <1>5, NvUnchanged, QuietKeeps

\* nor AutoChannel,
LEMMA AutoChannelKeeps == ASSUME ConfInv, AutoChannel PROVE ConfInv'
<1>1. PICK f : Set(f, {}) /\ Spares(f, Core)
  <2> DEFINE q == R("pref_chanspec", IF known_channel = 0 THEN None ELSE par[<<"chanspec", Radio>>])
             s(c) == When(IsN, q) @@ When(c # None, R("chanspec", c)) @@ R("cs_scan_timer", known_channel = 0)
                     @@ Copied({"chanim_mode"}) @@ wlconf_process_sta_config_entry
             t == When(ap \/ apsta, R("cs_scan_timer", FALSE) @@ Copied({"chanim_mode"})
                                     @@ wlconf_process_sta_config_entry)
  <2>1. (\E c : Set(s(c), {})) \/ Set(t, {})
    BY DEF AutoChannel
  <2>2. /\ \A v : Spares(R("pref_chanspec", v), Core) /\ Spares(R("chanspec", v), Core) /\ Spares(R("cs_scan_timer", v), Core)
        /\ Spares(Copied({"chanim_mode"}), Core) /\ Spares(Copied({"staprio"}), Core)
    BY SparesR, SparesCopied DEF Core, AggrNames, SecNames
  <2>3. Spares(wlconf_process_sta_config_entry, Core)
    BY <2>2 DEF wlconf_process_sta_config_entry
  <2>4. Spares(t, Core) /\ \A c : Spares(s(c), Core)
    BY <2>2, <2>3, SparesWhen, SparesOver, Zenon
  <2> HIDE DEF s, t
  <2> QED
    BY <2>1, <2>4
<1>2. {} \in MayRefuse(DOMAIN f)
  BY DEF MayRefuse
<1>3. Same(Core) /\ DOMAIN par' = Params
  BY <1>1, <1>2, SetSame
<1>4. pc = "acs" /\ pc' = "security" /\ UNCHANGED <<conf, nv>>
  BY DEF AutoChannel
<1> QED
  BY <1>3, <1>4, NvUnchanged, QuietKeeps DEF UpParts, BeforeChan, BeforeSec, AfterSec

\* The end of "up": what it has set is what nvram said.
LEMMA UpDoneKeeps == ASSUME ConfInv, UpDone PROVE ConfInv'
<1>1. pc = "done" /\ pc' = "idle" /\ conf' = nv /\ UNCHANGED <<nv, par, refused>>
  BY DEF UpDone
<1>2. Same(AggrNames) /\ Same(SecNames)
  BY <1>1 DEF Same
<1>3. Secure(nv)' /\ AggrInv'
  BY <1>1, <1>2, NvUnchanged, AggrStays, SecureStays DEF ConfInv, UpInv, AfterSec
<1>4. LastInv'
  <2>1. conf' = nv'
    BY <1>1
  <2> QED
    BY <2>1, <1>3 DEF LastInv, Secure, Ap, Bsss, NoConf
<1>5. NvInv' /\ UpInv'
  BY <1>1 DEF ConfInv, NvInv, UpInv, NoConf, UpParts, BeforeChan, BeforeSec, AfterSec, Others
<1> QED
  BY <1>3, <1>4, <1>5 DEF ConfInv

\* nvram changes only between commands, and conf stays what the driver was told.
LEMMA SetNvramKeeps == ASSUME ConfInv, SetNvram PROVE ConfInv'
<1>1. pc = "idle" /\ pc' = "idle" /\ nv' \in Configs /\ UNCHANGED <<par, refused, conf>>
  BY DEF SetNvram
<1>2. Same(Core)
  BY <1>1 DEF Same
<1>3. NvInv' /\ UpInv'
  BY <1>1, WlconfAssumption DEF ConfInv, NvInv, UpInv, UpParts, BeforeChan, BeforeSec, AfterSec, Others
<1> QED
  BY <1>1, <1>2, <1>3, AllStay DEF ConfInv

\* A new "up" makes no promise until it is done.
LEMMA WlconfKeeps == ASSUME ConfInv, wlconf PROVE ConfInv'
<1>1. pc' = "down" /\ conf' = NoConf /\ UNCHANGED <<nv, par, refused>>
  BY DEF wlconf
<1>2. AggrInv'
  BY <1>1 DEF ConfInv, AggrInv
<1>3. NvInv' /\ UpInv'
  BY <1>1 DEF ConfInv, NvInv, UpInv, NoConf, UpParts, BeforeChan, BeforeSec, AfterSec
<1>4. LastInv'
  BY <1>1 DEF LastInv, NoConf
<1> QED
  BY <1>2, <1>3, <1>4 DEF ConfInv

\* nor wlconf_down.
LEMMA DownKeeps == ASSUME ConfInv, wlconf_down PROVE ConfInv'
<1>1. pc = "idle" /\ pc' = "idle" /\ UNCHANGED <<nv, conf>>
  BY DEF wlconf_down
<1>2. \A p \in Params : p[1] \in Core => (p \in refused' <=> p \in refused)
  BY LinkRefuses
<1>3. Same(Core) /\ DOMAIN par' = Params
  <2>1. par' = wlconf_wds_clear @@ par
    BY DEF wlconf_down
  <2>2. <<"wds", Radio>> \in Params /\ DOMAIN wlconf_wds_clear = {<<"wds", Radio>>}
    BY DEF wlconf_wds_clear, R, :>, Params, ParNames
  <2>3. \A p \in Params : p[1] \in Core => p # <<"wds", Radio>>
    BY DEF Core, AggrNames, SecNames
  <2> QED
    BY <2>1, <2>2, <2>3, <1>2 DEF Same, @@, ConfInv, NvInv
<1> QED
  BY <1>1, <1>3, NvUnchanged, QuietKeeps DEF UpParts, BeforeChan, BeforeSec, AfterSec, Others

\* The interface of a proxied station is no BSS of the configuration.
LEMMA SecurityKeeps == ASSUME ConfInv, wlconf_security PROVE ConfInv'
<1> DEFINE f == wlconf_security_options(nv.sec[0], 1, FALSE, TRUE)
<1> PICK no \in MayRefuse(DOMAIN f) : Set(f, no)
  BY DEF wlconf_security
<1>1. pc = "idle" /\ pc' = "idle" /\ conf = nv /\ 1 \notin bsscfgs /\ UNCHANGED <<nv, conf>>
  BY DEF wlconf_security
<1>2. Spares(f, Kept \ SecNames)
  BY SecuritySpares
<1>3. \A p \in DOMAIN f : p[2] \in {1, Radio}
  BY SecurityOptions, Zenon
<1> HIDE DEF f
<1>4. Same(Kept \ SecNames) /\ DOMAIN par' = Params
  BY <1>2, SetSame
<1>5. Same(AggrNames)
  BY <1>4 DEF Same, Kept, Core, AggrNames, SecNames, ChanNames
<1>6. NvInv' /\ UpInv'
  BY <1>1, <1>4 DEF ConfInv, NvInv, UpInv, UpParts, BeforeChan, BeforeSec, AfterSec, Others
<1>7. conf # NoConf => Secure(conf)'
  <2>1. Bsss(conf) = {0}
    BY <1>1 DEF bsscfgs, Bsss
  <2>2. no \subseteq DOMAIN f
    BY DEF MayRefuse
  <2>3. \A n \in SecNames : <<n, 0>> \in Params /\ <<n, 0>> \notin DOMAIN f
    <3>1. 0 \notin {1, Radio} /\ 0 \in BssIdx
      BY DEF Radio, BssIdx
    <3> QED
      BY <1>3, <3>1, KeptNames
  <2>4. \A n \in SecNames : /\ par'[<<n, 0>>] = par[<<n, 0>>]
                            /\ <<n, 0>> \in refused' <=> <<n, 0>> \in refused
    BY <2>2, <2>3 DEF Set
  <2>5. wlconf_set_wsec(conf.sec[0])' = wlconf_set_wsec(conf.sec[0])
    BY <1>1 DEF wlconf_set_wsec
  <2> SUFFICES ASSUME conf # NoConf
               PROVE  /\ IsSet(<<"wsec", 0>>, wlconf_set_wsec(conf.sec[0]))'
                      /\ IsSet(<<"eap_restrict", 0>>, conf.sec[0].akm # {} \/ conf.sec[0].radius)'
                      /\ Ap(conf) => IsSet(<<"wpa_auth", 0>>, conf.sec[0].akm)'
    BY <1>1, <2>1 DEF Secure, Bsss, Ap
  <2>6. /\ IsSet(<<"wsec", 0>>, wlconf_set_wsec(conf.sec[0]))
        /\ IsSet(<<"eap_restrict", 0>>, conf.sec[0].akm # {} \/ conf.sec[0].radius)
        /\ Ap(conf) => IsSet(<<"wpa_auth", 0>>, conf.sec[0].akm)
    BY <2>1 DEF ConfInv, LastInv, Secure
  <2> QED
    BY <1>1, <2>4, <2>5, <2>6 DEF SecNames, IsSet, Refused
<1>8. LastInv' /\ AggrInv'
  BY <1>1, <1>5, <1>7, AggrStays DEF ConfInv, LastInv, NoConf
<1> QED
  BY <1>6, <1>8 DEF ConfInv

\* At boot nothing has been configured.
LEMMA ConfInit == Init => ConfInv
<1> SUFFICES ASSUME Init PROVE ConfInv
  OBVIOUS
<1>1. NvInv /\ UpInv /\ LastInv
  BY WlconfAssumption DEF Init, NvInv, UpInv, LastInv, UpParts, BeforeChan, BeforeSec, AfterSec, Others
<1>2. AggrInv
  <2>1. <<"ampdu", Radio>> \in Params
    BY KeptNames DEF AggrNames
  <2>2. par[<<"ampdu", Radio>>] = NotSet
    BY <2>1 DEF Init
  <2> QED
    BY <2>2, WlconfAssumption DEF AggrInv
<1> QED
  BY <1>1, <1>2 DEF ConfInv

\* Every step preserves ConfInv.
LEMMA ConfStep == ConfInv /\ [Next]_vars => ConfInv'
<1> SUFFICES ASSUME ConfInv, [Next]_vars PROVE ConfInv'
  OBVIOUS
<1>1. CASE UNCHANGED vars
  <2>1. UNCHANGED <<nv, conf, pc, par, refused>>
    BY <1>1 DEF vars
  <2> QED
    BY <2>1, NvUnchanged, ParUnchanged, QuietKeeps DEF ConfInv, NvInv
<1> QED
  BY <1>1, ApplyKeeps, ChannelKeeps, RateKeeps, LinkKeeps, AutoChannelKeeps, UpDoneKeeps, SetNvramKeeps,
     WlconfKeeps, DownKeeps, SecurityKeeps DEF Next, Step

-----------------------------------------------------------------------------
(* Theorems *)

\* ConfInv holds at every step of every command of wlconf.
THEOREM ConfCorrect == Spec => []ConfInv
<1>1. Init => ConfInv
  BY ConfInit
<1>2. ConfInv /\ [Next]_vars => ConfInv'
  BY ConfStep
<1> QED
  BY <1>1, <1>2, PTL DEF Spec

\* A BSS that is on the air has the ciphers, key management and EAP restriction
\* of its nvram variables (wlconf_security_options for every BSS of the list).
THEOREM WlconfBssSecured == Spec => []BssSecured
<1>1. ConfInv => BssSecured
  <2> SUFFICES ASSUME ConfInv, NEW i \in bsscfgs, conf = nv
               PROVE  /\ IsSet(<<"wsec", i>>, wlconf_set_wsec(nv.sec[i]))
                      /\ IsSet(<<"eap_restrict", i>>, nv.sec[i].akm # {} \/ nv.sec[i].radius)
                      /\ (i = 0 => ap) => IsSet(<<"wpa_auth", i>>, nv.sec[i].akm)
    BY DEF BssSecured
  <2>1. conf # NoConf
    BY DEF ConfInv, NvInv
  <2>2. Secure(nv)
    BY <2>1 DEF ConfInv, LastInv
  <2> QED
    BY <2>2 DEF Secure, Bsss, bsscfgs, Ap, ap
<1> QED
  BY <1>1, ConfCorrect, PTL

\* On a core older than 40 AMPDU and AMSDU are never both on, although a variable
\* that nvram has not got leaves what an earlier "up" set (wlconf_ampdu_amsdu_set).
THEOREM WlconfAggregationExclusive == Spec => []AggregationExclusive
<1>1. ConfInv => AggregationExclusive
  BY DEF ConfInv, AggrInv, AggregationExclusive
<1> QED
  BY <1>1, ConfCorrect, PTL
-----------------------------------------------------------------------------
(* Chanspecs: the arithmetic of bcmwifi_channels.c, for every legal value *)

\* A chanspec of its fields.
Chsp(band, bw, sb, ch) == [band |-> band, bw |-> bw, sb |-> sb, ch |-> ch]

\* The wide channels: from centre to lower edge, and how many 20 MHz channels.
Widths == {40, 80, 160}
Edge(bw) == CASE bw = 40 -> 2 [] bw = 80 -> 6 [] bw = 160 -> 14
Bands(bw) == CASE bw = 40 -> 2 [] bw = 80 -> 4 [] bw = 160 -> 8

\* The widths, in channel numbers and in 20 MHz channels.
LEMMA WidthFacts ==
    ASSUME NEW bw \in Widths
    PROVE  /\ center_chan_to_edge(bw) = Edge(bw) /\ bw \div 20 = Bands(bw)
           /\ Edge(bw) \in {2, 6, 14} /\ Bands(bw) \in {2, 4, 8}
           /\ 2 * Edge(bw) = 4 * (Bands(bw) - 1)
<1>1. CASE bw = 40
  BY <1>1 DEF center_chan_to_edge, Edge, Bands
<1>2. CASE bw = 80
  BY <1>2 DEF center_chan_to_edge, Edge, Bands
<1>3. CASE bw = 160
  BY <1>3 DEF center_chan_to_edge, Edge, Bands
<1> QED
  BY <1>1, <1>2, <1>3 DEF Widths

\* The control channel of a side band; no sum here leaves 8 bits.
LEMMA CtlChan ==
    ASSUME NEW bw \in Widths, NEW x \in 1 .. MAXCHANNEL, x > Edge(bw), NEW sb \in 0 .. Bands(bw) - 1
    PROVE  channel_low_edge(x, bw) = x - Edge(bw) /\ channel_to_ctl_chan(x, bw, sb) = x - Edge(bw) + 4 * sb
<1> DEFINE e == Edge(bw)
           n == Bands(bw)
<1>1. center_chan_to_edge(bw) = e /\ e \in {2, 6, 14} /\ n \in {2, 4, 8} /\ 2 * e = 4 * (n - 1)
  BY WidthFacts
<1>2. x \in 1 .. 224 /\ x > e /\ sb \in 0 .. n - 1
  BY DEF MAXCHANNEL
<1> HIDE DEF e, n
<1>3. (x - e) \in 1 .. 224 /\ (x - e + 4 * sb) \in 1 .. 240
  BY <1>1, <1>2
<1>4. (x - e) % 256 = x - e /\ (x - e + 4 * sb) % 256 = x - e + 4 * sb
  BY <1>3
<1>5. channel_low_edge(x, bw) = x - e
  BY <1>1, <1>4 DEF channel_low_edge, uint8
<1>6. channel_to_ctl_chan(x, bw, sb) = x - e + 4 * sb
  BY <1>4, <1>5 DEF channel_to_ctl_chan, uint8
<1> QED
  BY <1>5, <1>6 DEF e

\* channel_to_sb inverts channel_to_ctl_chan.
LEMMA SideBand ==
    ASSUME NEW bw \in Widths, NEW x \in 1 .. MAXCHANNEL, x > Edge(bw), NEW ctl \in Int
    PROVE  /\ channel_to_sb(x, ctl, bw) \in -1 .. Bands(bw) - 1
           /\ channel_to_sb(x, ctl, bw) >= 0 => ctl = x - Edge(bw) + 4 * channel_to_sb(x, ctl, bw)
           /\ \A k \in 0 .. Bands(bw) - 1 : ctl = x - Edge(bw) + 4 * k => channel_to_sb(x, ctl, bw) = k
<1> DEFINE e == Edge(bw)
           n == Bands(bw)
           off == ctl - (x - e)
<1>1. e \in {2, 6, 14} /\ n \in {2, 4, 8} /\ bw \div 20 = n
  BY WidthFacts
<1>2. channel_low_edge(x, bw) = x - e
  BY <1>1, CtlChan
<1>3. channel_to_sb(x, ctl, bw) = IF off % 4 = 0 /\ off >= 0 /\ off \div 4 < n THEN off \div 4 ELSE -1
  BY <1>1, <1>2 DEF channel_to_sb
<1>4. x \in Int /\ off \in Int
  BY <1>1
<1> HIDE DEF e, n
<1>5. off % 4 = 0 => off = 4 * (off \div 4)
  <2> HIDE DEF off
  <2> QED
    BY <1>4
<1>6. \A k \in 0 .. n - 1 : ctl = x - e + 4 * k => off % 4 = 0 /\ off \div 4 = k /\ off >= 0
  <2> TAKE k \in 0 .. n - 1
  <2> HAVE ctl = x - e + 4 * k
  <2>1. off = 4 * k /\ k \in Nat
    BY <1>1, <1>4
  <2> HIDE DEF off
  <2> QED
    BY <2>1
<1>7. off \div 4 \in Int /\ (off >= 0 => off \div 4 >= 0)
  <2> HIDE DEF off
  <2> QED
    BY <1>4
<1>8. channel_to_sb(x, ctl, bw) \in -1 .. n - 1
  <2> HIDE DEF off
  <2> QED
    BY <1>1, <1>3, <1>7
<1>9. channel_to_sb(x, ctl, bw) >= 0 => ctl = x - e + 4 * channel_to_sb(x, ctl, bw)
  <2> SUFFICES ASSUME channel_to_sb(x, ctl, bw) >= 0 PROVE ctl = x - e + 4 * channel_to_sb(x, ctl, bw)
    OBVIOUS
  <2>1. off % 4 = 0 /\ channel_to_sb(x, ctl, bw) = off \div 4
    BY <1>3
  <2>2. off = 4 * channel_to_sb(x, ctl, bw)
    BY <2>1, <1>5
  <2> QED
    BY <2>2, <1>1, <1>4, <1>8
<1>10. \A k \in 0 .. n - 1 : ctl = x - e + 4 * k => channel_to_sb(x, ctl, bw) = k
  <2> HIDE DEF off
  <2> QED
    BY <1>1, <1>3, <1>6
<1> QED
  BY <1>8, <1>9, <1>10 DEF e, n

\* The centres of the 5 GHz band, and their lower edges, lie above the 2.4 GHz one.
LEMMA Centres ==
    ASSUME NEW bw \in Widths, NEW i \in DOMAIN wf_5g_chans(bw)
    PROVE  /\ wf_5g_chans(bw)[i] \in 34 .. 165
           /\ wf_5g_chans(bw)[i] - Edge(bw) > CH_MAX_2G_CHANNEL + 2
<1>1. CASE bw = 40
  BY <1>1 DEF wf_5g_chans, wf_5g_40m_chans, Edge, CH_MAX_2G_CHANNEL
<1>2. CASE bw = 80
  BY <1>2 DEF wf_5g_chans, wf_5g_80m_chans, Edge, CH_MAX_2G_CHANNEL
<1>3. CASE bw = 160
  BY <1>3 DEF wf_5g_chans, wf_5g_160m_chans, Edge, CH_MAX_2G_CHANNEL
<1> QED
  BY <1>1, <1>2, <1>3 DEF Widths

\* The centres of a width lie too far apart to share a control channel.
LEMMA CentresApart ==
    ASSUME NEW bw \in Widths, NEW i \in DOMAIN wf_5g_chans(bw), NEW j \in DOMAIN wf_5g_chans(bw), i < j
    PROVE  wf_5g_chans(bw)[j] - wf_5g_chans(bw)[i] > 2 * Edge(bw)
<1>1. CASE bw = 40
  BY <1>1 DEF wf_5g_chans, wf_5g_40m_chans, Edge
<1>2. CASE bw = 80
  BY <1>2 DEF wf_5g_chans, wf_5g_80m_chans, Edge
<1>3. CASE bw = 160
  BY <1>3 DEF wf_5g_chans, wf_5g_160m_chans, Edge
<1> QED
  BY <1>1, <1>2, <1>3 DEF Widths

\* The table of a width is a sequence.
LEMMA CentreIndex ==
    ASSUME NEW bw \in Widths
    PROVE  \E m \in Nat : DOMAIN wf_5g_chans(bw) = 1 .. m
<1>1. CASE bw = 40
  <2>1. DOMAIN wf_5g_chans(bw) = 1 .. 12
    BY <1>1 DEF wf_5g_chans, wf_5g_40m_chans
  <2> QED
    BY <2>1
<1>2. CASE bw = 80
  <2>1. DOMAIN wf_5g_chans(bw) = 1 .. 6
    BY <1>2 DEF wf_5g_chans, wf_5g_80m_chans
  <2> QED
    BY <2>1
<1>3. CASE bw = 160
  <2>1. DOMAIN wf_5g_chans(bw) = 1 .. 2
    BY <1>3 DEF wf_5g_chans, wf_5g_160m_chans
  <2> QED
    BY <2>1
<1> QED
  BY <1>1, <1>2, <1>3 DEF Widths

\* So the first centre of a width that has a control channel is the only one.
LEMMA OnlyCentre ==
    ASSUME NEW bw \in Widths, NEW ctl \in Int, NEW i \in DOMAIN wf_5g_chans(bw),
           channel_to_sb(wf_5g_chans(bw)[i], ctl, bw) >= 0
    PROVE  center_of(ctl, bw) = {i}
<1> DEFINE w == wf_5g_chans(bw)
           e == Edge(bw)
           n == Bands(bw)
<1>1. e \in {2, 6, 14} /\ n \in {2, 4, 8} /\ 2 * e = 4 * (n - 1)
  BY WidthFacts
<1>2. DOMAIN w \subseteq Nat
  BY CentreIndex
<1>3. \A j \in DOMAIN w : w[j] \in Int /\ (channel_to_sb(w[j], ctl, bw) >= 0 => ctl - w[j] \in -e .. e)
  <2> TAKE j \in DOMAIN w
  <2>1. w[j] \in 34 .. 165 /\ w[j] - e > CH_MAX_2G_CHANNEL + 2
    BY Centres
  <2>2. w[j] \in 1 .. MAXCHANNEL /\ w[j] > e
    <3> HIDE DEF w, e
    <3> QED
      BY <2>1, <1>1 DEF MAXCHANNEL, CH_MAX_2G_CHANNEL
  <2>3. /\ channel_to_sb(w[j], ctl, bw) \in -1 .. n - 1
        /\ channel_to_sb(w[j], ctl, bw) >= 0 => ctl = w[j] - e + 4 * channel_to_sb(w[j], ctl, bw)
    BY <2>2, SideBand
  <2> HIDE DEF w, e, n
  <2> QED
    BY <2>1, <2>3, <1>1
<1>4. \A j, k \in DOMAIN w : j < k => w[k] - w[j] > 2 * e
  BY CentresApart
<1>5. center_of(ctl, bw) = {k \in DOMAIN w : /\ channel_to_sb(w[k], ctl, bw) >= 0
                                             /\ \A j \in 1 .. k - 1 : channel_to_sb(w[j], ctl, bw) < 0}
  BY DEF center_of
<1>6. i \in DOMAIN w /\ channel_to_sb(w[i], ctl, bw) >= 0
  OBVIOUS
<1>7. \A k \in DOMAIN w : \A j \in 1 .. k - 1 : j \in DOMAIN w
  BY CentreIndex
<1>8. \A j \in DOMAIN w : channel_to_sb(w[j], ctl, bw) \in Int
  <2> TAKE j \in DOMAIN w
  <2>1. w[j] \in 34 .. 165 /\ w[j] - e > CH_MAX_2G_CHANNEL + 2
    BY Centres
  <2>2. w[j] \in 1 .. MAXCHANNEL /\ w[j] > e
    <3> HIDE DEF w, e
    <3> QED
      BY <2>1, <1>1 DEF MAXCHANNEL, CH_MAX_2G_CHANNEL
  <2>3. channel_to_sb(w[j], ctl, bw) \in -1 .. n - 1
    BY <2>2, SideBand
  <2> HIDE DEF w, e, n
  <2> QED
    BY <2>3
<1> HIDE DEF w, e, n
<1>9. \A j \in DOMAIN w : channel_to_sb(w[j], ctl, bw) >= 0 => j = i
  <2> SUFFICES ASSUME NEW j \in DOMAIN w, channel_to_sb(w[j], ctl, bw) >= 0, j # i PROVE FALSE
    OBVIOUS
  <2>1. ctl - w[j] \in -e .. e /\ ctl - w[i] \in -e .. e /\ w[i] \in Int /\ w[j] \in Int
    BY <1>3, <1>6
  <2>2. w[i] - w[j] > 2 * e \/ w[j] - w[i] > 2 * e
    <3>1. i < j \/ j < i
      BY <1>2, <1>6
    <3> QED
      BY <3>1, <1>4, <1>6
  <2> QED
    BY <2>1, <2>2, <1>1
<1>10. i \in center_of(ctl, bw)
  <2>1. \A j \in 1 .. i - 1 : channel_to_sb(w[j], ctl, bw) < 0
    <3> TAKE j \in 1 .. i - 1
    <3>1. j \in DOMAIN w /\ j # i
      BY <1>2, <1>6, <1>7
    <3> QED
      BY <3>1, <1>8, <1>9
  <2> QED
    BY <2>1, <1>5, <1>6
<1> QED
  BY <1>5, <1>9, <1>10

\* The numbers of a centre and one of its side bands.
LEMMA CentreSb ==
    ASSUME NEW bw \in Widths, NEW i \in DOMAIN wf_5g_chans(bw), NEW k \in 0 .. Bands(bw) - 1
    PROVE  LET x   == wf_5g_chans(bw)[i]
               ctl == channel_to_ctl_chan(x, bw, k)
           IN  /\ ctl = x - Edge(bw) + 4 * k /\ ctl \in 17 .. 179
               /\ channel_to_sb(x, ctl, bw) = k
               /\ center_of(ctl, bw) = {i}
<1> DEFINE x == wf_5g_chans(bw)[i]
           ctl == channel_to_ctl_chan(x, bw, k)
           e == Edge(bw)
           n == Bands(bw)
<1>1. e \in {2, 6, 14} /\ n \in {2, 4, 8} /\ 2 * e = 4 * (n - 1)
  BY WidthFacts
<1>2. x \in 34 .. 165 /\ x - e > 16
  BY Centres DEF CH_MAX_2G_CHANNEL
<1>3. x \in 1 .. MAXCHANNEL /\ x > e
  <2> HIDE DEF x, e
  <2> QED
    BY <1>2, <1>1 DEF MAXCHANNEL
<1>4. ctl = x - e + 4 * k
  BY <1>3, CtlChan
<1>5. ctl \in 17 .. 179
  <2> HIDE DEF x, e, n, ctl
  <2>1. k \in 0 .. n - 1
    BY DEF n
  <2> QED
    BY <2>1, <1>1, <1>2, <1>4
<1>6. channel_to_sb(x, ctl, bw) = k
  <2> HIDE DEF ctl
  <2> QED
    BY <1>3, <1>4, <1>5, SideBand
<1>7. center_of(ctl, bw) = {i}
  <2> HIDE DEF ctl
  <2> QED
    BY <1>5, <1>6, OnlyCentre
<1> QED
  BY <1>4, <1>5, <1>6, <1>7

\* The legal chanspecs.
LEMMA ValidCases ==
    ASSUME NEW c \in ChanBits, wf_chspec_valid(c)
    PROVE  \/ \E ch \in 1 .. 14 : c = Chsp(2, 20, 0, ch)
           \/ \E ch \in 3 .. 11, sb \in 0 .. 1 : c = Chsp(2, 40, sb, ch)
           \/ \E ch \in 34 .. 165 : c = Chsp(5, 20, 0, ch)
           \/ \E bw \in Widths : \E i \in DOMAIN wf_5g_chans(bw), sb \in 0 .. Bands(bw) - 1 :
                 c = Chsp(5, bw, sb, wf_5g_chans(bw)[i])
           \/ \E p, q \in 1 .. 6, sb \in 0 .. 7 :
                 c = Chsp(5, 8080, sb, <<p, q>>) /\ p < q /\ wf_5g_80m_chans[q] > wf_5g_80m_chans[p] + 16
<1>1. CASE c \in [band : {2}, bw : {20, 40}, sb : 0 .. 1, ch : 1 .. 14]
  <2>1. c = Chsp(c.band, c.bw, c.sb, c.ch) /\ c.band = 2 /\ c.bw \in {20, 40} /\ c.sb \in 0 .. 1 /\ c.ch \in 1 .. 14
    BY <1>1 DEF Chsp
  <2>2. c.sb <= Max_sb(c.bw) /\ (c.bw = 40 => c.ch \in 3 .. 11)
    BY <2>1 DEF wf_chspec_valid, wf_chspec_malformed, Max_sb
  <2>3. CASE c.bw = 20
    <3>1. c.sb = 0
      BY <2>1, <2>2, <2>3 DEF Max_sb
    <3> QED
      BY <2>1, <2>3, <3>1
  <2>4. CASE c.bw = 40
    BY <2>1, <2>2, <2>4
  <2> QED
    BY <2>1, <2>3, <2>4
<1>2. CASE c \in [band : {5}, bw : {20, 40, 80, 160}, sb : 0 .. 7, ch : 34 .. 165]
  <2>1. /\ c = Chsp(c.band, c.bw, c.sb, c.ch) /\ c.band = 5 /\ c.bw \in {20, 40, 80, 160}
        /\ c.sb \in 0 .. 7 /\ c.ch \in 34 .. 165
    BY <1>2 DEF Chsp
  <2>2. c.sb <= Max_sb(c.bw)
    BY <2>1 DEF wf_chspec_valid, wf_chspec_malformed, Max_sb
  <2>3. CASE c.bw = 20
    <3>1. c.sb = 0
      BY <2>1, <2>2, <2>3 DEF Max_sb
    <3> QED
      BY <2>1, <2>3, <3>1
  <2>4. CASE c.bw \in Widths
    <3>1. PICK i \in DOMAIN wf_5g_chans(c.bw) : c.ch = wf_5g_chans(c.bw)[i]
      BY <2>1, <2>4 DEF wf_chspec_valid, Widths
    <3>2. c.sb \in 0 .. Bands(c.bw) - 1
      BY <2>1, <2>2, <2>4 DEF Widths, Bands, Max_sb
    <3> QED
      BY <2>1, <2>4, <3>1, <3>2
  <2> QED
    BY <2>1, <2>3, <2>4 DEF Widths
<1>3. CASE c \in [band : {5}, bw : {8080}, sb : 0 .. 7, ch : (1 .. 6) \X (1 .. 6)]
  <2>1. /\ c = Chsp(c.band, c.bw, c.sb, c.ch) /\ c.band = 5 /\ c.bw = 8080
        /\ c.sb \in 0 .. 7 /\ c.ch = <<c.ch[1], c.ch[2]>> /\ c.ch[1] \in 1 .. 6 /\ c.ch[2] \in 1 .. 6
    BY <1>3 DEF Chsp
  <2>2. ~ (c.ch[2] <= c.ch[1])
    BY <2>1 DEF wf_chspec_valid, wf_chspec_malformed
  <2>3. wf_5g_80m_chans[c.ch[2]] > wf_5g_80m_chans[c.ch[1]] + 16
    BY <2>1 DEF wf_chspec_valid
  <2>4. c = Chsp(5, 8080, c.sb, <<c.ch[1], c.ch[2]>>)
    BY <2>1
  <2>5. c.ch[1] < c.ch[2]
    BY <2>1, <2>2
  <2> QED
    BY <2>1, <2>3, <2>4, <2>5
<1> QED
  BY <1>1, <1>2, <1>3 DEF ChanBits

\* A 20 MHz chanspec is its channel number.
LEMMA Trip20 ==
    ASSUME NEW met, NEW band \in {2, 5}, NEW ch \in 1 .. 165, band = 2 <=> ch <= 14
    PROVE  wf_chspec_aton(wf_chspec_ntoa(Chsp(band, 20, 0, ch)), met) = Chsp(band, 20, 0, ch)
<1> DEFINE c == Chsp(band, 20, 0, ch)
           s == wf_chspec_ntoa(c)
<1>1. s.g = 0 /\ s.ch = ch /\ s.tail = "end"
  BY DEF wf_chspec_ntoa, wf_chspec_ctlchan, default_band, CH_MAX_2G_CHANNEL, Chsp
<1>2. default_band(ch) = band
  BY DEF default_band, CH_MAX_2G_CHANNEL
<1> HIDE DEF s
<1>3. parts_to_chspec(s, band, met) = c
  <2>1. s.tail \in {"end", "/20"} /\ s.tail \notin {"u", "l", "/40", "/40u", "/40l", "/80", "/160", "/80+80"}
    BY <1>1
  <2>2. parts_to_chspec(s, band, met) = Chsp(band, 20, 0, s.ch)
    BY <2>1 DEF parts_to_chspec, Chsp
  <2> QED
    BY <1>1, <2>2
<1>4. ~ wf_chspec_malformed(c)
  BY DEF wf_chspec_malformed, Max_sb, MAXCHANNEL, Chsp
<1>5. wf_chspec_aton(s, met) = c
  <2> HIDE DEF c
  <2> QED
    BY <1>1, <1>2, <1>3, <1>4 DEF wf_chspec_aton
<1> QED
  BY <1>5 DEF s

\* A 40 MHz chanspec is the control channel and the letter of its side band.
LEMMA Trip40 ==
    ASSUME NEW met, NEW band \in {2, 5}, NEW ch \in 3 .. 165, NEW sb \in 0 .. 1, ch \in 3 .. 11 \/ ch > 16, band = 2 <=> ch <= 14
    PROVE  wf_chspec_aton(wf_chspec_ntoa(Chsp(band, 40, sb, ch)), met) = Chsp(band, 40, sb, ch)
<1> DEFINE c == Chsp(band, 40, sb, ch)
           s == wf_chspec_ntoa(c)
           ctl == ch - 2 + 4 * sb
<1>1. channel_to_ctl_chan(ch, 40, sb) = ctl
  <2>1. 40 \in Widths /\ Edge(40) = 2 /\ Bands(40) = 2
    BY DEF Widths, Edge, Bands
  <2>2. ch \in 1 .. MAXCHANNEL /\ ch > Edge(40) /\ sb \in 0 .. Bands(40) - 1
    BY <2>1 DEF MAXCHANNEL
  <2> QED
    BY <2>1, <2>2, CtlChan
<1>2. wf_chspec_ctlchan(c) = ctl
  BY <1>1 DEF wf_chspec_ctlchan, Chsp
<1>3. s.g = 0 /\ s.ch = ctl /\ s.tail = IF sb = 1 THEN "u" ELSE "l"
  BY <1>2 DEF wf_chspec_ntoa, default_band, CH_MAX_2G_CHANNEL, Chsp
<1>4. default_band(ctl) = band
  BY DEF default_band, CH_MAX_2G_CHANNEL
<1> HIDE DEF s
<1>5. parts_to_chspec(s, band, met) = c
  <2>1. CASE sb = 1
    <3>1. s.tail = "u" /\ LOWER_20_SB(s.ch) = ch
      BY <1>3, <2>1 DEF LOWER_20_SB
    <3> QED
      BY <2>1, <3>1 DEF parts_to_chspec, Chsp
  <2>2. CASE sb = 0
    <3>1. s.tail = "l" /\ UPPER_20_SB(s.ch) = ch
      BY <1>3, <2>2 DEF UPPER_20_SB, MAXCHANNEL
    <3> QED
      BY <2>2, <3>1 DEF parts_to_chspec, Chsp
  <2> QED
    BY <2>1, <2>2
<1>6. ~ wf_chspec_malformed(c)
  BY DEF wf_chspec_malformed, Max_sb, MAXCHANNEL, Chsp
<1>7. wf_chspec_aton(s, met) = c
  <2> HIDE DEF c
  <2> QED
    BY <1>3, <1>4, <1>5, <1>6 DEF wf_chspec_aton
<1> QED
  BY <1>7 DEF s

\* An 80 or 160 MHz chanspec is its control channel and its width: the channel
\* leads back to the centre.
LEMMA TripWide ==
    ASSUME NEW met, NEW bw \in {80, 160}, NEW i \in DOMAIN wf_5g_chans(bw), NEW sb \in 0 .. Bands(bw) - 1
    PROVE  LET c == Chsp(5, bw, sb, wf_5g_chans(bw)[i]) IN wf_chspec_aton(wf_chspec_ntoa(c), met) = c
<1> DEFINE x == wf_5g_chans(bw)[i]
           c == Chsp(5, bw, sb, x)
           s == wf_chspec_ntoa(c)
           ctl == channel_to_ctl_chan(x, bw, sb)
<1>1. bw \in Widths
  BY DEF Widths
<1>2. ctl \in 17 .. 179 /\ channel_to_sb(x, ctl, bw) = sb /\ center_of(ctl, bw) = {i}
  BY <1>1, CentreSb
<1>3. x \in 34 .. 165
  BY <1>1, Centres
<1>4. Bands(bw) \in {4, 8} /\ (bw = 80 => Bands(bw) = 4)
  BY DEF Bands
<1> HIDE DEF x, ctl
<1>5. s.g = 0 /\ s.ch = ctl /\ s.tail = IF bw = 80 THEN "/80" ELSE "/160"
  BY <1>3 DEF wf_chspec_ntoa, wf_chspec_ctlchan, default_band, CH_MAX_2G_CHANNEL, Chsp, ctl
<1>6. default_band(ctl) = 5
  BY <1>2 DEF default_band, CH_MAX_2G_CHANNEL
<1>7. (CHOOSE k \in center_of(ctl, bw) : TRUE) = i /\ center_of(ctl, bw) # {}
  BY <1>2
<1> HIDE DEF s
<1>8. parts_to_chspec(s, 5, met) = c
  <2>1. CASE bw = 80
    <3>1. s.tail = "/80" /\ s.ch = ctl
      BY <2>1, <1>5
    <3>2. wf_5g_chans(80)[CHOOSE k \in center_of(s.ch, 80) : TRUE] = x
      BY <2>1, <3>1, <1>7 DEF x
    <3>3. center_of(s.ch, 80) # {} /\ channel_to_sb(x, s.ch, 80) = sb
      BY <2>1, <3>1, <1>2, <1>7
    <3> QED
      BY <2>1, <3>1, <3>2, <3>3 DEF parts_to_chspec, Chsp
  <2>2. CASE bw = 160
    <3>1. s.tail = "/160" /\ s.ch = ctl
      BY <2>2, <1>5
    <3>2. wf_5g_chans(160)[CHOOSE k \in center_of(s.ch, 160) : TRUE] = x
      BY <2>2, <3>1, <1>7 DEF x
    <3>3. center_of(s.ch, 160) # {} /\ channel_to_sb(x, s.ch, 160) = sb
      BY <2>2, <3>1, <1>2, <1>7
    <3> QED
      BY <2>2, <3>1, <3>2, <3>3 DEF parts_to_chspec, Chsp
  <2> QED
    BY <2>1, <2>2
<1>9. ~ wf_chspec_malformed(c)
  BY <1>3, <1>4 DEF wf_chspec_malformed, Max_sb, MAXCHANNEL, Chsp
<1>10. wf_chspec_aton(s, met) = c
  <2> HIDE DEF c
  <2> QED
    BY <1>5, <1>6, <1>8, <1>9 DEF wf_chspec_aton
<1> QED
  BY <1>10 DEF s, x

\* An 80+80 MHz chanspec is its control channel and the pair of its centres, the
\* first side band index of the second centre being 4; only the first string of a
\* process is read.
LEMMA Trip8080 ==
    ASSUME NEW met, NEW p \in 1 .. 6, NEW q \in 1 .. 6, NEW sb \in 0 .. 7, p < q
    PROVE  LET c == Chsp(5, 8080, sb, <<p, q>>)
           IN  wf_chspec_aton(wf_chspec_ntoa(c), met) = IF met = 0 THEN c ELSE None
<1> DEFINE c == Chsp(5, 8080, sb, <<p, q>>)
           w == wf_5g_80m_chans
           s == wf_chspec_ntoa(c)
           h == IF sb < 4 THEN p ELSE q
           k == sb % 4
           ctl == channel_to_ctl_chan(w[h], 80, k)
<1>1. 80 \in Widths /\ Edge(80) = 6 /\ Bands(80) = 4 /\ wf_5g_chans(80) = w
  BY DEF Widths, Edge, Bands, wf_5g_chans
<1>2. DOMAIN w = 1 .. 6
  BY DEF wf_5g_80m_chans
<1>3. k \in 0 .. 3 /\ h \in 1 .. 6 /\ (sb < 4 => k = sb) /\ (sb >= 4 => k = sb - 4)
  OBVIOUS
<1>4. ctl = w[h] - 6 + 4 * k /\ ctl \in 17 .. 179 /\ channel_to_sb(w[h], ctl, 80) = k
  <2> HIDE DEF w, h, k
  <2> QED
    BY <1>1, <1>2, <1>3, CentreSb
<1>5. \A j \in 1 .. 6 : channel_to_sb(w[j], ctl, 80) >= 0 => j = h
  <2> TAKE j \in 1 .. 6
  <2> HAVE channel_to_sb(w[j], ctl, 80) >= 0
  <2>1. center_of(ctl, 80) = {j} /\ center_of(ctl, 80) = {h}
    <3> HIDE DEF w, h, k, ctl
    <3> QED
      BY <1>1, <1>2, <1>3, <1>4, OnlyCentre
  <2> QED
    BY <2>1
<1>6. \A j \in 1 .. 6 : channel_80mhz_to_id(w[j]) = {j}
  BY DEF channel_80mhz_to_id, wf_5g_80m_chans
<1>7. w[p] < w[q]
  BY DEF wf_5g_80m_chans
<1>8. s.g = 0 /\ s.ch = ctl /\ s.tail = "/80+80" /\ s.pair[1] = w[p] /\ s.pair[2] = w[q]
  <2>1. sb \div 4 = IF sb < 4 THEN 0 ELSE 1
    OBVIOUS
  <2>2. c.ch[1 + c.sb \div 4] = h
    BY <2>1 DEF Chsp
  <2>3. wf_chspec_ctlchan(c) = ctl
    <3>1. c.bw = 8080 /\ c.sb % 4 = k
      BY DEF Chsp
    <3> HIDE DEF w, h, k, ctl, c
    <3> QED
      BY <2>2, <3>1 DEF wf_chspec_ctlchan, ctl, w
  <2> HIDE DEF ctl, h, k
  <2> QED
    BY <2>3 DEF wf_chspec_ntoa, Chsp
<1>9. default_band(ctl) = 5
  <2> HIDE DEF ctl
  <2> QED
    BY <1>4 DEF default_band, CH_MAX_2G_CHANNEL
<1> HIDE DEF s, w, ctl, h, k
<1>10. /\ s.pair[1] < s.pair[2]
       /\ channel_80mhz_to_id(s.pair[1]) = {p} /\ channel_80mhz_to_id(s.pair[2]) = {q}
  BY <1>6, <1>7, <1>8
<1>11. LET b(j) == channel_to_sb(s.pair[j], s.ch, 80)
       IN  (b(1) >= 0 \/ b(2) >= 0) /\ sb = IF b(1) >= 0 THEN b(1) ELSE b(2) + 4
  <2>1. CASE sb < 4
    BY <2>1, <1>3, <1>4, <1>8 DEF h
  <2>2. CASE sb >= 4
    <3>1. h = q /\ p # h
      BY <2>2 DEF h
    <3>2. ~ (channel_to_sb(w[p], ctl, 80) >= 0)
      BY <1>5, <3>1
    <3> QED
      BY <2>2, <1>3, <1>4, <1>8, <3>1, <3>2
  <2> QED
    BY <2>1, <2>2
<1>12. parts_to_chspec(s, 5, met) = IF met = 0 THEN c ELSE None
  <2>1. /\ \A j \in 1 .. 2 : channel_80mhz_to_id(s.pair[j]) # {}
        /\ \E j \in 1 .. 2 : channel_to_sb(s.pair[j], s.ch, 80) >= 0
    BY <1>10, <1>11
  <2>2. /\ (CHOOSE j \in channel_80mhz_to_id(s.pair[1]) : TRUE) = p
        /\ (CHOOSE j \in channel_80mhz_to_id(s.pair[2]) : TRUE) = q
    BY <1>10
  <2>3. CASE met = 0
    BY <1>8, <1>10, <1>11, <2>1, <2>2, <2>3 DEF parts_to_chspec, Chsp
  <2>4. CASE met # 0
    BY <1>8, <2>4 DEF parts_to_chspec
  <2> QED
    BY <2>3, <2>4
<1>13. ~ wf_chspec_malformed(c)
  <2>1. \A j \in 1 .. 2 : <<p, q>>[j] \in DOMAIN wf_5g_80m_chans
    BY <1>2 DEF w
  <2> QED
    BY <2>1 DEF wf_chspec_malformed, Max_sb, Chsp
<1>14. wf_chspec_aton(s, met) = IF met = 0 THEN c ELSE None
  <2> HIDE DEF c
  <2> QED
    BY <1>8, <1>9, <1>12, <1>13 DEF wf_chspec_aton
<1> QED
  BY <1>14 DEF s

\* The primary 40 MHz half of an 80 MHz channel has the same control channel.
LEMMA PrimaryHalf ==
    ASSUME NEW i \in DOMAIN wf_5g_chans(80), NEW sb \in 0 .. 3
    PROVE  LET c == Chsp(5, 80, sb, wf_5g_chans(80)[i])
           IN  wf_chspec_ctlchan(wf_chspec_primary40_chspec(c)) = wf_chspec_ctlchan(c)
<1> DEFINE x == wf_5g_chans(80)[i]
           c == Chsp(5, 80, sb, x)
           y == IF sb >= 2 THEN x + 4 ELSE x - 4
           k == sb % 2
<1>1. /\ 40 \in Widths /\ Edge(40) = 2 /\ Bands(40) = 2
      /\ 80 \in Widths /\ Edge(80) = 6 /\ Bands(80) = 4
  BY DEF Widths, Edge, Bands
<1>2. x \in 34 .. 165
  BY <1>1, Centres
<1> HIDE DEF x
<1>3. k \in 0 .. 1 /\ 4 * sb = IF sb >= 2 THEN 4 * k + 8 ELSE 4 * k
  OBVIOUS
<1>4. channel_to_ctl_chan(x, 80, sb) = x - 6 + 4 * sb
  <2>1. x \in 1 .. MAXCHANNEL /\ x > Edge(80) /\ sb \in 0 .. Bands(80) - 1
    BY <1>1, <1>2 DEF MAXCHANNEL
  <2> QED
    BY <2>1, <1>1, CtlChan
<1>5. channel_to_ctl_chan(y, 40, k) = y - 2 + 4 * k
  <2>1. y \in 1 .. MAXCHANNEL /\ y > Edge(40) /\ k \in 0 .. Bands(40) - 1
    BY <1>1, <1>2, <1>3 DEF MAXCHANNEL
  <2> HIDE DEF y, k
  <2> QED
    BY <2>1, <1>1, CtlChan
<1>6. y - 2 + 4 * k = x - 6 + 4 * sb
  <2> HIDE DEF k
  <2> QED
    BY <1>2, <1>3
<1>7. wf_chspec_primary40_chspec(c) = Chsp(5, 40, k, y)
  BY DEF wf_chspec_primary40_chspec, Chsp
<1> HIDE DEF y, k
<1>8. wf_chspec_ctlchan(Chsp(5, 40, k, y)) = y - 2 + 4 * k /\ wf_chspec_ctlchan(c) = x - 6 + 4 * sb
  BY <1>4, <1>5 DEF wf_chspec_ctlchan, Chsp
<1> QED
  BY <1>6, <1>7, <1>8 DEF x

\* A legal chanspec survives being written and read back, an 80+80 one if it is the
\* first, and its control channel is that of its control chanspec and of its
\* primary half.
LEMMA RoundTrip ==
    ASSUME NEW met, NEW c \in ChanBits, wf_chspec_valid(c)
    PROVE  /\ wf_chspec_aton(wf_chspec_ntoa(c), met) = IF c.bw = 8080 /\ met # 0 THEN None ELSE c
           /\ wf_chspec_ctlchan(wf_chspec_ctlchspec(c)) = wf_chspec_ctlchan(c)
           /\ c.bw = 80 => wf_chspec_ctlchan(wf_chspec_primary40_chspec(c)) = wf_chspec_ctlchan(c)
<1>1. wf_chspec_ctlchan(wf_chspec_ctlchspec(c)) = wf_chspec_ctlchan(c)
  BY DEF wf_chspec_ctlchspec, wf_chspec_ctlchan
<1>2. CASE \E ch \in 1 .. 14 : c = Chsp(2, 20, 0, ch)
  <2>1. c.bw = 20
    BY <1>2 DEF Chsp
  <2> QED
    BY <1>1, <1>2, <2>1, Trip20
<1>3. CASE \E ch \in 3 .. 11, sb \in 0 .. 1 : c = Chsp(2, 40, sb, ch)
  <2>1. c.bw = 40
    BY <1>3 DEF Chsp
  <2> QED
    BY <1>1, <1>3, <2>1, Trip40
<1>4. CASE \E ch \in 34 .. 165 : c = Chsp(5, 20, 0, ch)
  <2>1. c.bw = 20
    BY <1>4 DEF Chsp
  <2> QED
    BY <1>1, <1>4, <2>1, Trip20
<1>5. CASE \E bw \in Widths : \E i \in DOMAIN wf_5g_chans(bw), sb \in 0 .. Bands(bw) - 1 :
              c = Chsp(5, bw, sb, wf_5g_chans(bw)[i])
  <2> PICK bw \in Widths : \E i \in DOMAIN wf_5g_chans(bw), sb \in 0 .. Bands(bw) - 1 :
              c = Chsp(5, bw, sb, wf_5g_chans(bw)[i])
    BY <1>5
  <2> PICK i \in DOMAIN wf_5g_chans(bw), sb \in 0 .. Bands(bw) - 1 : c = Chsp(5, bw, sb, wf_5g_chans(bw)[i])
    OBVIOUS
  <2>1. c.bw = bw /\ bw # 8080
    BY DEF Chsp, Widths
  <2>2. CASE bw = 40
    <3>1. sb \in 0 .. 1
      BY <2>2 DEF Bands
    <3>2. wf_5g_chans(bw)[i] \in 34 .. 165
      BY Centres
    <3> QED
      BY <1>1, <2>1, <2>2, <3>1, <3>2, Trip40
  <2>3. CASE bw \in {80, 160}
    <3>1. wf_chspec_aton(wf_chspec_ntoa(c), met) = c
      BY <2>3, TripWide
    <3>2. bw = 80 => sb \in 0 .. 3
      BY DEF Bands
    <3>3. bw = 80 => wf_chspec_ctlchan(wf_chspec_primary40_chspec(c)) = wf_chspec_ctlchan(c)
      BY <3>2, PrimaryHalf
    <3> QED
      BY <1>1, <2>1, <3>1, <3>3
  <2> QED
    BY <2>2, <2>3 DEF Widths
<1>6. CASE \E p, q \in 1 .. 6, sb \in 0 .. 7 :
              c = Chsp(5, 8080, sb, <<p, q>>) /\ p < q /\ wf_5g_80m_chans[q] > wf_5g_80m_chans[p] + 16
  <2>1. c.bw = 8080
    BY <1>6 DEF Chsp
  <2> QED
    BY <1>1, <1>6, <2>1, Trip8080
<1> QED
  BY <1>2, <1>3, <1>4, <1>5, <1>6, ValidCases

\* The chanspec of a centre and a side band is what wf_channel2chspec makes
\* of its control channel.
LEMMA FromCtl ==
    ASSUME NEW bw \in Widths, NEW i \in DOMAIN wf_5g_chans(bw), NEW k \in 0 .. Bands(bw) - 1
    PROVE  LET x   == wf_5g_chans(bw)[i]
               ctl == x - Edge(bw) + 4 * k
           IN  /\ wf_chspec_ctlchan(Chsp(5, bw, k, x)) = ctl
               /\ wf_channel2chspec(ctl, bw) = Chsp(5, bw, k, x)
<1> DEFINE x == wf_5g_chans(bw)[i]
           ctl == channel_to_ctl_chan(x, bw, k)
<1>1. /\ ctl = x - Edge(bw) + 4 * k /\ ctl \in 17 .. 179
      /\ channel_to_sb(x, ctl, bw) = k /\ center_of(ctl, bw) = {i}
  BY CentreSb
<1>2. bw # 20 /\ bw # 8080
  BY DEF Widths
<1>3. wf_chspec_ctlchan(Chsp(5, bw, k, x)) = ctl
  BY <1>2 DEF wf_chspec_ctlchan, Chsp
<1> HIDE DEF ctl
<1>4. default_band(ctl) = 5
  BY <1>1 DEF default_band, CH_MAX_2G_CHANNEL
<1>5. center_of(ctl, bw) # {} /\ wf_5g_chans(bw)[CHOOSE j \in center_of(ctl, bw) : TRUE] = x
  BY <1>1
<1>6. wf_channel2chspec(ctl, bw) = Chsp(5, bw, k, x)
  BY <1>1, <1>2, <1>4, <1>5 DEF wf_channel2chspec, Chsp
<1> QED
  BY <1>1, <1>3, <1>6

\* A channel number and its frequency.
LEMMA MhzTrip ==
    ASSUME NEW band \in {2, 5}, NEW ch \in 1 .. 165, band = 2 => ch <= 14
    PROVE  LET f == IF band = 2 THEN CHAN_FACTOR_2_4_G ELSE CHAN_FACTOR_5_G
           IN  wf_mhz2channel(wf_channel2mhz(ch, f), 0) = ch
<1>1. 4814 \div 2 = 2407 /\ 10000 \div 2 = 5000
  OBVIOUS
<1>2. (5 * ch) % 5 = 0 /\ (5 * ch) \div 5 = ch
  OBVIOUS
<1>3. CASE band = 2 /\ ch = 14
  BY <1>3 DEF wf_mhz2channel, start_factor, wf_channel2mhz, CHAN_FACTOR_2_4_G
<1>4. CASE band = 2 /\ ch # 14
  <2>1. wf_channel2mhz(ch, CHAN_FACTOR_2_4_G) = 2407 + 5 * ch
    BY <1>1, <1>4 DEF wf_channel2mhz, CHAN_FACTOR_2_4_G
  <2> DEFINE freq == 2407 + 5 * ch
             off == freq - 2407
  <2>2. freq \in 2400 .. 2500 /\ freq # 2484 /\ off = 5 * ch /\ off \in 0 .. 1000
    BY <1>4
  <2>3. off % 5 = 0 /\ off \div 5 = ch /\ ch \in 1 .. 13
    BY <1>2, <1>4, <2>2
  <2> HIDE DEF freq
  <2>4. start_factor(freq, 0) = 4814
    BY <2>2 DEF start_factor, CHAN_FACTOR_2_4_G
  <2>5. wf_mhz2channel(freq, 0) = ch
    BY <1>1, <2>2, <2>3, <2>4 DEF wf_mhz2channel, CHAN_FACTOR_2_4_G
  <2> QED
    BY <1>4, <2>1, <2>5 DEF freq
<1>5. CASE band = 5
  <2>1. wf_channel2mhz(ch, CHAN_FACTOR_5_G) = 5000 + 5 * ch
    BY <1>1 DEF wf_channel2mhz, CHAN_FACTOR_5_G, CHAN_FACTOR_2_4_G
  <2> DEFINE freq == 5000 + 5 * ch
             off == freq - 5000
  <2>2. freq \in 5000 .. 6000 /\ off = 5 * ch /\ off \in 0 .. 1000
    OBVIOUS
  <2>3. off % 5 = 0 /\ off \div 5 = ch
    BY <1>2, <2>2
  <2> HIDE DEF freq
  <2>4. start_factor(freq, 0) = 10000
    BY <2>2 DEF start_factor, CHAN_FACTOR_5_G
  <2>5. wf_mhz2channel(freq, 0) = ch
    BY <1>1, <2>2, <2>3, <2>4 DEF wf_mhz2channel, CHAN_FACTOR_2_4_G
  <2> QED
    BY <1>5, <2>1, <2>5 DEF freq
<1> QED
  BY <1>3, <1>4, <1>5

\* A string with the width of a wide channel, and one with a pair of centres.
WideParts(s, band, met) ==
    \E bw \in Widths :
        /\ center_of(s.ch, bw) # {}
        /\ LET x == wf_5g_chans(bw)[CHOOSE i \in center_of(s.ch, bw) : TRUE]
           IN  parts_to_chspec(s, band, met) = Chsp(band, bw, channel_to_sb(x, s.ch, bw), x)
PairWith(s, band, met, k, i, j) ==
    LET n == channel_to_sb(s.pair[k], s.ch, 80)
    IN  /\ n >= 0 /\ wf_5g_80m_chans[IF k = 1 THEN i ELSE j] = s.pair[k]
        /\ parts_to_chspec(s, band, met) = Chsp(band, 8080, IF k = 1 THEN n ELSE n + 4, <<i, j>>)
PairParts(s, band, met) ==
    \E k \in 1 .. 2 : \E i, j \in DOMAIN wf_5g_80m_chans : PairWith(s, band, met, k, i, j)

\* What a string of the forms that ChanText has stands for, in a band.
LEMMA Parts ==
    ASSUME NEW met, NEW s \in ChanText, NEW band \in {2, 5}
    PROVE  \/ parts_to_chspec(s, band, met) = Chsp(band, 20, 0, s.ch)
           \/ parts_to_chspec(s, band, met) = Chsp(band, 40, 1, LOWER_20_SB(s.ch))
           \/ parts_to_chspec(s, band, met) = Chsp(band, 40, 0, UPPER_20_SB(s.ch))
           \/ WideParts(s, band, met)
           \/ PairParts(s, band, met)
           \/ parts_to_chspec(s, band, met) = None
<1>0. s.tail \in {"end", "u", "l", "/20", "/40", "/40u", "/80", "/160", "/80+80"}
  BY DEF ChanText
<1>1. CASE s.tail \in {"end", "/20"}
  BY <1>1 DEF parts_to_chspec, Chsp
<1>2. CASE s.tail = "u" \/ s.tail = "/40u"
  BY <1>2 DEF parts_to_chspec, Chsp
<1>3. CASE s.tail = "l"
  BY <1>3 DEF parts_to_chspec, Chsp
<1>4. CASE s.tail = "/40"
  <2>1. CASE center_of(s.ch, 40) = {}
    BY <1>4, <2>1 DEF parts_to_chspec
  <2>2. CASE center_of(s.ch, 40) # {}
    BY <1>4, <2>2 DEF parts_to_chspec, Chsp, Widths, WideParts
  <2> QED
    BY <2>1, <2>2
<1>5. CASE s.tail = "/80"
  <2>1. CASE center_of(s.ch, 80) = {}
    BY <1>5, <2>1 DEF parts_to_chspec
  <2>2. CASE center_of(s.ch, 80) # {}
    BY <1>5, <2>2 DEF parts_to_chspec, Chsp, Widths, WideParts
  <2> QED
    BY <2>1, <2>2
<1>6. CASE s.tail = "/160"
  <2>1. CASE center_of(s.ch, 160) = {}
    BY <1>6, <2>1 DEF parts_to_chspec
  <2>2. CASE center_of(s.ch, 160) # {}
    BY <1>6, <2>2 DEF parts_to_chspec, Chsp, Widths, WideParts
  <2> QED
    BY <2>1, <2>2
<1>7. CASE s.tail = "/80+80"
  <2> DEFINE b(k) == channel_to_sb(s.pair[k], s.ch, 80)
             id(k) == CHOOSE i \in channel_80mhz_to_id(s.pair[k]) : TRUE
             ok == /\ met = 0 /\ s.pair[1] < s.pair[2]
                   /\ \A k \in 1 .. 2 : channel_80mhz_to_id(s.pair[k]) # {}
                   /\ \E k \in 1 .. 2 : b(k) >= 0
  <2>1. CASE ~ ok
    BY <1>7, <2>1 DEF parts_to_chspec
  <2>2. CASE ok
    <3>1. parts_to_chspec(s, band, met) = Chsp(band, 8080, IF b(1) >= 0 THEN b(1) ELSE b(2) + 4, <<id(1), id(2)>>)
      BY <1>7, <2>2 DEF parts_to_chspec, Chsp
    <3>2. \A k \in 1 .. 2 : id(k) \in DOMAIN wf_5g_80m_chans /\ wf_5g_80m_chans[id(k)] = s.pair[k]
      <4> TAKE k \in 1 .. 2
      <4>1. id(k) \in channel_80mhz_to_id(s.pair[k])
        BY <2>2
      <4> QED
        BY <4>1 DEF channel_80mhz_to_id
    <3>3. b(1) >= 0 \/ b(2) >= 0
      BY <2>2
    <3> HIDE DEF id, ok
    <3>4. CASE b(1) >= 0
      <4>1. parts_to_chspec(s, band, met) = Chsp(band, 8080, b(1), <<id(1), id(2)>>)
        BY <3>1, <3>4
      <4>2. 1 \in 1 .. 2 /\ id(1) \in DOMAIN wf_5g_80m_chans /\ id(2) \in DOMAIN wf_5g_80m_chans
            /\ wf_5g_80m_chans[id(1)] = s.pair[1]
        BY <3>2
      <4>3. PairWith(s, band, met, 1, id(1), id(2))
        BY <3>4, <4>1, <4>2 DEF PairWith
      <4> QED
        BY <4>2, <4>3 DEF PairParts
    <3>5. CASE ~ (b(1) >= 0)
      <4>1. parts_to_chspec(s, band, met) = Chsp(band, 8080, b(2) + 4, <<id(1), id(2)>>)
        BY <3>1, <3>5
      <4>2. 2 \in 1 .. 2 /\ 2 # 1 /\ id(1) \in DOMAIN wf_5g_80m_chans /\ id(2) \in DOMAIN wf_5g_80m_chans
            /\ wf_5g_80m_chans[id(2)] = s.pair[2]
        BY <3>2
      <4>3. PairWith(s, band, met, 2, id(1), id(2))
        BY <3>3, <3>5, <4>1, <4>2 DEF PairWith
      <4> QED
        BY <4>2, <4>3 DEF PairParts
    <3> QED
      BY <3>4, <3>5
  <2> QED
    BY <2>1, <2>2
<1> QED
  BY <1>0, <1>1, <1>2, <1>3, <1>4, <1>5, <1>6, <1>7

\* A string that is read names its control channel, unless its side band letter puts
\* the centre at 0; what a legal one makes of a 5 GHz channel is what
\* wf_channel2chspec does.
LEMMA ReadBack ==
    ASSUME NEW met, NEW s \in ChanText, wf_chspec_aton(s, met) # None
    PROVE  LET c == wf_chspec_aton(s, met)
           IN  /\ (c.bw = 40 /\ c.ch = 0) \/ wf_chspec_ctlchan(c) = s.ch
               /\ wf_chspec_valid(c) =>
                    /\ c.band = 5 /\ c.bw # 8080 /\ s.ch > 14 => c = wf_channel2chspec(s.ch, c.bw)
                    /\ c.band \in {2, 5} /\ (c.band = 2 => s.ch <= 14)
<1> DEFINE c == wf_chspec_aton(s, met)
           band == IF s.g = 0 THEN default_band(s.ch) ELSE s.g
           Legal == /\ c.band = 5 /\ c.bw # 8080 /\ s.ch > 14 => c = wf_channel2chspec(s.ch, c.bw)
                    /\ c.band \in {2, 5} /\ (c.band = 2 => s.ch <= 14)
<1>1. band \in {2, 5}
  BY DEF default_band, ChanText
<1>2. s.ch \in 1 .. 165
  BY DEF ChanText, ChanNumbers
<1>3. c = parts_to_chspec(s, band, met) /\ c # None /\ ~ wf_chspec_malformed(c)
  BY DEF wf_chspec_aton
<1>4. 40 \in Widths /\ Edge(40) = 2 /\ Bands(40) = 2
  BY DEF Widths, Edge, Bands
<1> HIDE DEF band, c
<1> SUFFICES /\ (c.bw = 40 /\ c.ch = 0) \/ wf_chspec_ctlchan(c) = s.ch
             /\ wf_chspec_valid(c) => Legal
  BY DEF c
<1>5. CASE parts_to_chspec(s, band, met) = Chsp(band, 20, 0, s.ch)
  <2>1. c = Chsp(band, 20, 0, s.ch) /\ c.band = band /\ c.bw = 20 /\ c.ch = s.ch
    BY <1>3, <1>5 DEF Chsp
  <2>2. wf_chspec_ctlchan(c) = s.ch
    BY <2>1 DEF wf_chspec_ctlchan
  <2>3. wf_chspec_valid(c) /\ band = 2 => s.ch <= 14
    BY <2>1 DEF wf_chspec_valid
  <2>4. band = 5 /\ s.ch > 14 => c = wf_channel2chspec(s.ch, 20)
    BY <2>1, <1>2 DEF wf_channel2chspec, default_band, CH_MAX_2G_CHANNEL, Chsp
  <2> QED
    BY <1>1, <2>1, <2>2, <2>3, <2>4
<1>6. CASE parts_to_chspec(s, band, met) = Chsp(band, 40, 1, LOWER_20_SB(s.ch))
  <2> DEFINE y == LOWER_20_SB(s.ch)
  <2>1. c = Chsp(band, 40, 1, y) /\ c.band = band /\ c.bw = 40 /\ c.ch = y
    BY <1>3, <1>6 DEF Chsp
  <2>2. y = 0 \/ (y = s.ch - 2 /\ y \in 1 .. 163)
    BY <1>2 DEF LOWER_20_SB
  <2> HIDE DEF y
  <2>3. y # 0 => wf_chspec_ctlchan(c) = s.ch
    <3> SUFFICES ASSUME y # 0 PROVE channel_to_ctl_chan(y, 40, 1) = s.ch
      BY <2>1 DEF wf_chspec_ctlchan, Chsp
    <3>1. CASE y > 2
      <4>1. y \in 1 .. MAXCHANNEL /\ y > Edge(40) /\ 1 \in 0 .. Bands(40) - 1
        BY <1>4, <2>2, <3>1 DEF MAXCHANNEL
      <4>2. channel_to_ctl_chan(y, 40, 1) = y - 2 + 4 * 1
        BY <1>4, <4>1, CtlChan
      <4> QED
        BY <1>2, <2>2, <4>2
    <3>2. CASE y = 1 \/ y = 2
      <4>1. center_chan_to_edge(40) = 2
        BY <1>4, WidthFacts
      <4>2. (y - 2) % 256 = IF y = 1 THEN 255 ELSE 0
        BY <3>2
      <4>3. (255 + 1 * 4) % 256 = 3 /\ (0 + 1 * 4) % 256 = 4
        OBVIOUS
      <4> QED
        BY <1>2, <2>2, <3>2, <4>1, <4>2, <4>3 DEF channel_to_ctl_chan, channel_low_edge, uint8
    <3> QED
      BY <2>2, <3>1, <3>2
  <2>4. wf_chspec_valid(c) => Legal
    <3> SUFFICES ASSUME wf_chspec_valid(c) PROVE Legal
      OBVIOUS
    <3>1. CASE band = 2
      <4>1. y \in 3 .. 11
        BY <2>1, <3>1 DEF wf_chspec_valid
      <4> QED
        BY <1>2, <2>1, <2>2, <3>1, <4>1
    <3>2. CASE band = 5
      <4>1. PICK i \in DOMAIN wf_5g_chans(40) : y = wf_5g_chans(40)[i]
        BY <2>1, <3>2 DEF wf_chspec_valid
      <4>2. y \in 34 .. 165
        BY <1>4, <4>1, Centres
      <4>3. 1 \in 0 .. Bands(40) - 1 /\ y - Edge(40) + 4 * 1 = s.ch
        BY <1>2, <1>4, <2>2, <4>2
      <4>4. wf_channel2chspec(s.ch, 40) = c
        BY <1>4, <2>1, <3>2, <4>1, <4>3, FromCtl
      <4> QED
        BY <2>1, <3>2, <4>4
    <3> QED
      BY <1>1, <3>1, <3>2
  <2> QED
    BY <2>1, <2>3, <2>4
<1>7. CASE parts_to_chspec(s, band, met) = Chsp(band, 40, 0, UPPER_20_SB(s.ch))
  <2> DEFINE y == UPPER_20_SB(s.ch)
  <2>1. c = Chsp(band, 40, 0, y) /\ c.band = band /\ c.bw = 40 /\ c.ch = y
    BY <1>3, <1>7 DEF Chsp
  <2>2. y = s.ch + 2 /\ y \in 3 .. 167
    BY <1>2 DEF UPPER_20_SB, MAXCHANNEL
  <2> HIDE DEF y
  <2>3. wf_chspec_ctlchan(c) = s.ch
    <3>1. y \in 1 .. MAXCHANNEL /\ y > Edge(40) /\ 0 \in 0 .. Bands(40) - 1
      BY <1>4, <2>2 DEF MAXCHANNEL
    <3>2. channel_to_ctl_chan(y, 40, 0) = y - 2 + 4 * 0
      BY <1>4, <3>1, CtlChan
    <3>3. y - 2 + 4 * 0 = s.ch
      BY <1>2, <2>2
    <3> QED
      BY <2>1, <3>2, <3>3 DEF wf_chspec_ctlchan, Chsp
  <2>4. wf_chspec_valid(c) => Legal
    <3> SUFFICES ASSUME wf_chspec_valid(c) PROVE Legal
      OBVIOUS
    <3>1. CASE band = 2
      <4>1. y \in 3 .. 11
        BY <2>1, <3>1 DEF wf_chspec_valid
      <4> QED
        BY <1>2, <2>1, <2>2, <3>1, <4>1
    <3>2. CASE band = 5
      <4>1. PICK i \in DOMAIN wf_5g_chans(40) : y = wf_5g_chans(40)[i]
        BY <2>1, <3>2 DEF wf_chspec_valid
      <4>2. 0 \in 0 .. Bands(40) - 1 /\ y - Edge(40) + 4 * 0 = s.ch
        BY <1>2, <1>4, <2>2
      <4>3. wf_channel2chspec(s.ch, 40) = c
        BY <1>4, <2>1, <3>2, <4>1, <4>2, FromCtl
      <4> QED
        BY <2>1, <3>2, <4>3
    <3> QED
      BY <1>1, <3>1, <3>2
  <2> QED
    BY <2>3, <2>4
<1>8. ASSUME NEW bw \in Widths, center_of(s.ch, bw) # {},
             LET x == wf_5g_chans(bw)[CHOOSE i \in center_of(s.ch, bw) : TRUE]
             IN  parts_to_chspec(s, band, met) = Chsp(band, bw, channel_to_sb(x, s.ch, bw), x)
      PROVE  wf_chspec_ctlchan(c) = s.ch /\ (wf_chspec_valid(c) => Legal)
  <2> DEFINE i == CHOOSE i \in center_of(s.ch, bw) : TRUE
             x == wf_5g_chans(bw)[i]
             sb == channel_to_sb(x, s.ch, bw)
  <2>1. c = Chsp(band, bw, sb, x) /\ c.band = band /\ c.bw = bw /\ c.ch = x /\ c.sb = sb
    BY <1>3, <1>8 DEF Chsp
  <2>2. i \in center_of(s.ch, bw)
    BY <1>8
  <2>3. i \in DOMAIN wf_5g_chans(bw) /\ sb >= 0
    BY <2>2 DEF center_of
  <2> HIDE DEF i
  <2>4. x \in 34 .. 165 /\ x > Edge(bw)
    <3>1. x \in 34 .. 165 /\ x - Edge(bw) > CH_MAX_2G_CHANNEL + 2 /\ Edge(bw) \in {2, 6, 14}
      BY <2>3, Centres, WidthFacts
    <3> HIDE DEF x
    <3> QED
      BY <3>1 DEF CH_MAX_2G_CHANNEL
  <2>5. sb \in 0 .. Bands(bw) - 1 /\ s.ch = x - Edge(bw) + 4 * sb
    <3>1. x \in 1 .. MAXCHANNEL /\ s.ch \in Int
      BY <1>2, <2>4 DEF MAXCHANNEL
    <3>2. sb \in -1 .. Bands(bw) - 1 /\ s.ch = x - Edge(bw) + 4 * sb
      <4> HIDE DEF x
      <4> QED
        BY <2>3, <2>4, <3>1, SideBand
    <3>3. Bands(bw) \in {2, 4, 8}
      BY WidthFacts
    <3> HIDE DEF sb
    <3> QED
      BY <2>3, <3>2, <3>3
  <2>6. wf_chspec_valid(c) => band = 5
    <3>1. x \notin 1 .. 14
      BY <2>4
    <3> HIDE DEF x, sb
    <3> QED
      BY <1>1, <2>1, <3>1 DEF wf_chspec_valid
  <2>7. wf_channel2chspec(s.ch, bw) = Chsp(5, bw, sb, x)
    <3> HIDE DEF sb
    <3> QED
      BY <2>3, <2>5, FromCtl
  <2>8. wf_chspec_ctlchan(c) = s.ch
    <3>1. x \in 1 .. MAXCHANNEL
      BY <2>4 DEF MAXCHANNEL
    <3> HIDE DEF sb, x
    <3>2. channel_to_ctl_chan(x, bw, sb) = s.ch
      BY <2>4, <2>5, <3>1, CtlChan
    <3>3. bw # 20 /\ bw # 8080
      BY DEF Widths
    <3> QED
      BY <2>1, <3>2, <3>3 DEF wf_chspec_ctlchan
  <2> HIDE DEF sb, x
  <2> QED
    BY <2>1, <2>6, <2>7, <2>8
<1>9. ASSUME NEW k \in 1 .. 2, NEW i \in DOMAIN wf_5g_80m_chans, NEW j \in DOMAIN wf_5g_80m_chans,
             PairWith(s, band, met, k, i, j)
      PROVE  wf_chspec_ctlchan(c) = s.ch /\ (wf_chspec_valid(c) => Legal)
  <2> DEFINE h == IF k = 1 THEN i ELSE j
             x == wf_5g_80m_chans[h]
             n == channel_to_sb(x, s.ch, 80)
             sb == IF k = 1 THEN n ELSE n + 4
  <2>1. x = s.pair[k] /\ n >= 0 /\ c = Chsp(band, 8080, sb, <<i, j>>)
    BY <1>3, <1>9 DEF PairWith
  <2>2. 80 \in Widths /\ Edge(80) = 6 /\ Bands(80) = 4 /\ wf_5g_chans(80) = wf_5g_80m_chans
    BY DEF Widths, Edge, Bands, wf_5g_chans
  <2>3. h \in DOMAIN wf_5g_80m_chans
    OBVIOUS
  <2>4. x \in 34 .. 165
    <3> HIDE DEF h
    <3> QED
      BY <2>2, <2>3, Centres
  <2> HIDE DEF x
  <2>5. n \in 0 .. 3 /\ channel_to_ctl_chan(x, 80, n) = s.ch
    <3>1. x \in 1 .. MAXCHANNEL /\ x > Edge(80) /\ s.ch \in Int
      BY <1>2, <2>2, <2>4 DEF MAXCHANNEL
    <3>2. n \in -1 .. Bands(80) - 1 /\ s.ch = x - Edge(80) + 4 * n
      BY <2>1, <2>2, <3>1, SideBand
    <3>3. n \in 0 .. Bands(80) - 1 /\ n \in 0 .. 3
      <4> HIDE DEF n
      <4> QED
        BY <2>1, <2>2, <3>2
    <3> HIDE DEF n
    <3>4. channel_to_ctl_chan(x, 80, n) = x - Edge(80) + 4 * n
      BY <2>2, <3>1, <3>3, CtlChan
    <3> QED
      BY <3>2, <3>3, <3>4
  <2> HIDE DEF n
  <2>6. c.bw = 8080 /\ c.band = band /\ c.sb = sb /\ c.ch = <<i, j>>
    BY <2>1 DEF Chsp
  <2>7. sb % 4 = n /\ 1 + sb \div 4 = k
    <3>1. CASE k = 1
      BY <2>5, <3>1
    <3>2. CASE k = 2
      BY <2>5, <3>2
    <3> QED
      BY <3>1, <3>2
  <2> HIDE DEF sb
  <2>8. c.ch[1 + c.sb \div 4] = h
    BY <2>6, <2>7
  <2>9. wf_chspec_ctlchan(c) = s.ch
    BY <2>5, <2>6, <2>7, <2>8 DEF wf_chspec_ctlchan, x
  <2>10. band = 5
    BY <1>1, <1>3, <2>6 DEF wf_chspec_malformed
  <2> QED
    BY <2>6, <2>9, <2>10
<1>10. parts_to_chspec(s, band, met) # None
  BY <1>3
<1>11. CASE PairParts(s, band, met)
  <2> PICK k \in 1 .. 2, i \in DOMAIN wf_5g_80m_chans, j \in DOMAIN wf_5g_80m_chans :
        PairWith(s, band, met, k, i, j)
    BY <1>11 DEF PairParts
  <2> HIDE DEF Legal
  <2> QED
    BY <1>9
<1>12. CASE WideParts(s, band, met)
  <2> PICK bw \in Widths :
        /\ center_of(s.ch, bw) # {}
        /\ LET x == wf_5g_chans(bw)[CHOOSE i \in center_of(s.ch, bw) : TRUE]
           IN  parts_to_chspec(s, band, met) = Chsp(band, bw, channel_to_sb(x, s.ch, bw), x)
    BY <1>12 DEF WideParts
  <2> HIDE DEF Legal
  <2> QED
    BY <1>8
<1> HIDE DEF Legal
<1> QED
  BY <1>1, <1>5, <1>6, <1>7, <1>10, <1>11, <1>12, Parts
-----------------------------------------------------------------------------
(* The channel *)

AfterChan == BeforeSec \cup AfterSec

\* The side band word is one of the width's, and the chanspec that follows from it.
KnownWord ==
    /\ nbw = 40 => nv.ctlsb \in {"lower", "upper"}
    /\ nbw = 80 => nv.ctlsb \in {"ll", "lu", "ul", "uu"}
Made == manual_chanspec(bandtype, nv.channel, nbw, nv.ctlsb)

\* wlconf's band is the driver's, and once set the chanspec is nvram's.
ChanInv ==
    /\ nv.bw \in {20, 40, 80}
    /\ IsN => nv.channel \in 0 .. MAXCHANNEL
    /\ par[<<"band", Radio>>] = bandtype
    /\ pc \in AfterChan /\ OwnChannel /\ KnownWord => chanspec = Made /\ IsSet(<<"chanspec", Radio>>, Made)

\* What the chanspec is made of stays.
ChanSame ==
    /\ nv'.mode = nv.mode /\ nv'.vif = nv.vif /\ nv'.phy = nv.phy /\ (Nmode(nv) <=> Nmode(nv)')
    /\ nv'.bw = nv.bw /\ nv'.coex = nv.coex /\ nv'.ctlsb = nv.ctlsb /\ nv'.chanspec = nv.chanspec
    /\ IsN => nv'.channel = nv.channel
    /\ bandtype' = bandtype

\* The chanspec that wlconf makes stays with what it is made of.
LEMMA ChanStays ==
    ASSUME ChanSame
    PROVE  /\ IsN' <=> IsN
           /\ OwnChannel' /\ KnownWord' <=> OwnChannel /\ KnownWord
           /\ OwnChannel => Made' = Made
<1>1. IsN' <=> IsN
  BY DEF ChanSame, IsN
<1>2. nmode' <=> nmode
  BY DEF ChanSame, Nmode, nmode, IsN
<1>3. nbw' = nbw
  BY <1>2 DEF ChanSame, nbw
<1>4. (ap' <=> ap) /\ (apsta' <=> apsta) /\ (sta' <=> sta)
  BY DEF ChanSame, ap, apsta, sta
<1>5. obss_coex' <=> obss_coex
  BY <1>1, <1>3, <1>4 DEF ChanSame, obss_coex
<1>6. (OwnChannel' <=> OwnChannel) /\ (KnownWord' <=> KnownWord)
  BY <1>1, <1>3, <1>4, <1>5 DEF ChanSame, OwnChannel, NoText, KnownWord
<1>7. OwnChannel => Made' = Made
  BY <1>1, <1>3 DEF ChanSame, OwnChannel, Made, manual_chanspec
<1> QED
  BY <1>1, <1>6, <1>7

\* A step that writes neither band nor chanspec.
LEMMA ChanQuiet ==
    ASSUME NvInv, ChanInv, ChanSame, Same(ChanNames),
           pc' \in AfterChan => pc \in AfterChan /\ chanspec' = chanspec
    PROVE  ChanInv'
<1>1. \A n \in ChanNames : <<n, Radio>> \in Params
  BY DEF ChanNames, Params, ParNames
<1>2. /\ par'[<<"band", Radio>>] = par[<<"band", Radio>>] /\ par'[<<"chanspec", Radio>>] = par[<<"chanspec", Radio>>]
      /\ <<"chanspec", Radio>> \in refused' <=> <<"chanspec", Radio>> \in refused
  BY <1>1 DEF Same, ChanNames
<1>3. nv'.bw \in {20, 40, 80} /\ (IsN' => nv'.channel \in 0 .. MAXCHANNEL) /\ par'[<<"band", Radio>>] = bandtype'
  BY <1>2, ChanStays DEF ChanInv, ChanSame
<1>4. pc' \in AfterChan /\ OwnChannel' /\ KnownWord' => chanspec' = Made' /\ IsSet(<<"chanspec", Radio>>, Made)'
  BY <1>2, ChanStays DEF ChanInv, IsSet, Refused
<1> QED
  BY <1>3, <1>4 DEF ChanInv

\* Neither nvram nor the band changes.
LEMMA ChanUnchanged == ASSUME UNCHANGED <<nv, bandtype>> PROVE ChanSame
  BY DEF ChanSame, Nmode

\* How far a control channel is from the centre of a width.
ToCentre(bw) == CASE bw = 20 -> 0 [] bw = 40 -> 2 [] bw = 80 -> 6

\* What is made of a channel, a width and a side band word: the centre of that side
\* band or, below 0, a chanspec with the reserved width.
Centred(m, band, ch, bw, sb, k) ==
    LET x == ch + ToCentre(bw) - 4 * k
    IN  /\ k \in 0 .. 3 /\ k <= Max_sb(bw)
        /\ bw = 40 => sb = <<"lower", "upper">>[k + 1]
        /\ bw = 80 => sb = <<"ll", "lu", "ul", "uu">>[k + 1]
        /\ m = IF x >= 0 THEN Chsp(band, bw, k, x) ELSE Chsp(5, 0, 7, x % 256)

\* manual_chanspec does that for every word of the width.
LEMMA ManualCentred ==
    ASSUME NEW band, NEW ch \in 1 .. MAXCHANNEL, NEW bw \in {20, 40, 80}, NEW sb,
           bw = 40 => sb \in {"lower", "upper"},
           bw = 80 => sb \in {"ll", "lu", "ul", "uu"}
    PROVE  \E k \in 0 .. 3 : Centred(manual_chanspec(band, ch, bw, sb), band, ch, bw, sb, k)
<1>0. ch \in Int
  OBVIOUS
<1> USE <1>0 DEF manual_chanspec, Centred, ToCentre, Max_sb, Chsp
<1>1. CASE bw = 20
  <2>1. Centred(manual_chanspec(band, ch, bw, sb), band, ch, bw, sb, 0)
    BY <1>1
  <2> HIDE DEF Centred
  <2> QED
    BY <2>1
<1>2. CASE bw = 40 /\ sb = "lower"
  <2>1. Centred(manual_chanspec(band, ch, bw, sb), band, ch, bw, sb, 0)
    BY <1>2
  <2> HIDE DEF Centred
  <2> QED
    BY <2>1
<1>3. CASE bw = 40 /\ sb = "upper"
  <2>1. ch + 2 - 4 * 1 = ch - 2
    OBVIOUS
  <2>2. Centred(manual_chanspec(band, ch, bw, sb), band, ch, bw, sb, 1)
    BY <1>3, <2>1
  <2> HIDE DEF Centred
  <2> QED
    BY <2>2
<1>4. CASE bw = 80 /\ sb = "ll"
  <2>1. Centred(manual_chanspec(band, ch, bw, sb), band, ch, bw, sb, 0)
    BY <1>4
  <2> HIDE DEF Centred
  <2> QED
    BY <2>1
<1>5. CASE bw = 80 /\ sb = "lu"
  <2>1. Centred(manual_chanspec(band, ch, bw, sb), band, ch, bw, sb, 1)
    BY <1>5
  <2> HIDE DEF Centred
  <2> QED
    BY <2>1
<1>6. CASE bw = 80 /\ sb = "ul"
  <2>1. ch + 6 - 4 * 2 = ch + 6 - 8
    OBVIOUS
  <2>2. Centred(manual_chanspec(band, ch, bw, sb), band, ch, bw, sb, 2)
    BY <1>6, <2>1
  <2> HIDE DEF Centred
  <2> QED
    BY <2>2
<1>7. CASE bw = 80 /\ sb = "uu"
  <2>1. ch + 6 - 4 * 3 = ch + 6 - 12
    OBVIOUS
  <2>2. Centred(manual_chanspec(band, ch, bw, sb), band, ch, bw, sb, 3)
    BY <1>7, <2>1
  <2> HIDE DEF Centred
  <2> QED
    BY <2>2
<1> HIDE DEF manual_chanspec, Centred
<1> QED
  BY <1>1, <1>2, <1>3, <1>4, <1>5, <1>6, <1>7

\* Reading the control channel back undoes the shift to the centre; that of a
\* wrapped centre is another, but not 0.
ReadsBack(m, ch, bw, k) ==
    /\ wf_chspec_ctlchan(m) \in 1 .. 255
    /\ ch + ToCentre(bw) - 4 * k >= 0 => wf_chspec_ctlchan(m) = ch

\* It does so for what manual_chanspec makes.
LEMMA CentreAndBack ==
    ASSUME NEW m, NEW band, NEW ch \in 1 .. MAXCHANNEL, NEW bw \in {20, 40, 80}, NEW sb, NEW k,
           Centred(m, band, ch, bw, sb, k)
    PROVE  ReadsBack(m, ch, bw, k)
<1> SUFFICES /\ wf_chspec_ctlchan(m) \in 1 .. 255
             /\ ch + ToCentre(bw) - 4 * k >= 0 => wf_chspec_ctlchan(m) = ch
  BY DEF ReadsBack
<1> DEFINE e == ToCentre(bw)
           x == ch + e - 4 * k
<1>1. /\ bw = 20 => e = 0 /\ k = 0
      /\ bw = 40 => e = 2 /\ k \in 0 .. 1
      /\ bw = 80 => e = 6 /\ k \in 0 .. 3
  BY DEF Centred, ToCentre, Max_sb
<1>2. ch \in 1 .. 224 /\ e \in {0, 2, 6} /\ k \in 0 .. 3
  BY <1>1 DEF MAXCHANNEL
<1>3. m = IF x >= 0 THEN Chsp(band, bw, k, x) ELSE Chsp(5, 0, 7, x % 256)
  BY DEF Centred
<1> HIDE DEF e
<1>4. CASE x >= 0
  <2>1. m.bw = bw /\ m.ch = x /\ m.sb = k
    BY <1>3, <1>4 DEF Chsp
  <2>2. CASE bw = 20
    BY <1>1, <1>2, <1>4, <2>1, <2>2 DEF wf_chspec_ctlchan, e
  <2>3. CASE bw \in {40, 80}
    <3>1. center_chan_to_edge(bw) = e
      <4>1. ((40 - 20) \div 2) \div 5 = 2 /\ ((80 - 20) \div 2) \div 5 = 6
        OBVIOUS
      <4> QED
        BY <1>1, <2>3, <4>1 DEF center_chan_to_edge
    <3>2. x - e = ch - 4 * k /\ x - e \in Int
      BY <1>2
    <3>3. (((x - e) % 256) + k * 4) % 256 = ch
      <4> HIDE DEF x
      <4>1. (ch - 4 * k) % 256 = IF ch - 4 * k >= 0 THEN ch - 4 * k ELSE ch - 4 * k + 256
        BY <1>2
      <4>2. CASE ch - 4 * k >= 0
        BY <1>2, <3>2, <4>1, <4>2
      <4>3. CASE ch - 4 * k < 0
        <5>1. ((x - e) % 256) + k * 4 = ch + 256
          BY <1>2, <3>2, <4>1, <4>3
        <5> QED
          BY <1>2, <5>1
      <4> QED
        BY <1>2, <4>2, <4>3
    <3>4. channel_to_ctl_chan(x, bw, k) = ch
      BY <3>1, <3>3 DEF channel_to_ctl_chan, channel_low_edge, uint8
    <3>5. wf_chspec_ctlchan(m) = ch
      BY <2>1, <2>3, <3>4 DEF wf_chspec_ctlchan
    <3> QED
      BY <1>2, <1>4, <3>5 DEF e
  <2> QED
    BY <2>2, <2>3
<1>5. CASE x < 0
  <2>1. m.bw = 0 /\ m.ch = x % 256 /\ m.sb = 7
    BY <1>2, <1>3, <1>5 DEF Chsp
  <2>2. x \in -5 .. -1
    BY <1>1, <1>2, <1>5
  <2>3. x % 256 = x + 256
    <3> HIDE DEF x
    <3> QED
      BY <2>2
  <2>4. (x + 256 - 151) % 256 = x + 105 /\ (x + 105 + 7 * 4) % 256 = x + 133
    <3> HIDE DEF x
    <3> QED
      BY <2>2
  <2>5. channel_to_ctl_chan(x + 256, 0, 7) = x + 133
    <3> HIDE DEF x
    <3>1. center_chan_to_edge(0) = 151
      BY DEF center_chan_to_edge
    <3>2. channel_low_edge(x + 256, 0) = (x + 256 - 151) % 256
      BY <2>2, <3>1 DEF channel_low_edge, uint8
    <3> QED
      BY <3>2, <2>2, <2>4 DEF channel_to_ctl_chan, uint8
  <2>6. wf_chspec_ctlchan(m) = x + 133
    BY <2>1, <2>3, <2>5 DEF wf_chspec_ctlchan
  <2> QED
    BY <1>2, <1>5, <2>1, <2>2, <2>6 DEF e
<1> QED
  BY <1>2, <1>4, <1>5

\* The chanspec that wlconf makes is one of these, and none of them is None.
LEMMA ChanMade ==
    ASSUME NvInv, ChanInv, OwnChannel, KnownWord
    PROVE  /\ nv.channel \in 1 .. MAXCHANNEL /\ nbw \in {20, 40, 80}
           /\ \E k \in 0 .. 3 : Centred(Made, bandtype, nv.channel, nbw, nv.ctlsb, k)
           /\ Made # None /\ wf_chspec_ctlchan(Made) # 0
<1>1. nbw \in {20, 40, 80}
  BY DEF nbw, ChanInv
<1>2. nv.channel \in 1 .. MAXCHANNEL
  BY DEF ChanInv, OwnChannel, MAXCHANNEL
<1>3. PICK k \in 0 .. 3 : Centred(Made, bandtype, nv.channel, nbw, nv.ctlsb, k)
  BY <1>1, <1>2, ManualCentred DEF KnownWord, Made
<1>4. wf_chspec_ctlchan(Made) # 0
  <2>1. ReadsBack(Made, nv.channel, nbw, k)
    BY <1>1, <1>2, <1>3, CentreAndBack
  <2> QED
    BY <2>1 DEF ReadsBack
<1>5. Made # None
  <2>1. Made.bw = nbw \/ Made.sb = 7
    BY <1>3 DEF Centred, Chsp
  <2>2. None.bw = 0 /\ None.sb = 0
    BY DEF None
  <2> QED
    BY <1>1, <2>1, <2>2
<1> QED
  BY <1>1, <1>2, <1>3, <1>4, <1>5

\* A part of "up" that only sets parameters writes neither band nor chanspec.
LEMMA ApplyChan == ASSUME ConfInv, ChanInv, Apply PROVE ChanInv'
<1> DEFINE f == PartSets(pc)
<1> PICK no \in MayRefuse(DOMAIN f) : Set(f, no)
  BY DEF Apply
<1>1. pc \in DOMAIN Follows /\ pc' = Follows[pc] /\ nv' = Saved(pc) /\ UNCHANGED <<bandtype, chanspec>>
  BY DEF Apply
<1>2. Spares(f, ChanNames)
  BY <1>1, PartSpares
<1> HIDE DEF f
<1>3. Same(ChanNames)
  BY <1>2, SetSame
<1>4. ChanSame
  <2>1. \/ nv' = [nv EXCEPT !.country = par[<<"country", Radio>>]]
        \/ nv' = [nv EXCEPT !.nmode = FALSE]
        \/ nv' = [nv EXCEPT !.chains = HwChains]
        \/ nv' = nv
    BY <1>1 DEF Saved
  <2>2. /\ nv'.mode = nv.mode /\ nv'.vif = nv.vif /\ nv'.phy = nv.phy /\ nv'.bw = nv.bw /\ nv'.coex = nv.coex
        /\ nv'.ctlsb = nv.ctlsb /\ nv'.chanspec = nv.chanspec /\ nv'.channel = nv.channel
    BY <2>1 DEF ConfInv, NvInv, NvKeys
  <2> QED
    BY <2>2, <1>1, SavedSame DEF ChanSame, ConfInv
<1>5. pc' \in AfterChan => pc \in AfterChan /\ chanspec' = chanspec
  BY <1>1 DEF Follows, AfterChan, BeforeSec, AfterSec
<1> QED
  BY <1>3, <1>4, <1>5, ChanQuiet DEF ConfInv

\* The channel is set.
LEMMA SetChannelChan == ASSUME ConfInv, ChanInv, SetChannel PROVE ChanInv'
<1> PICK no \in MayRefuse(DOMAIN chan_params) :
            /\ Set(chan_params, no)
            /\ nv' = IF no # {} /\ ~ IsN /\ read_chanspec = None
                     THEN [nv EXCEPT !.channel = par[<<"chanspec", Radio>>].ch] ELSE nv
  BY DEF SetChannel
<1>1. ChanSame
  <2>1. CASE nv' = nv
    BY <2>1, ChanUnchanged DEF SetChannel
  <2>2. CASE ~ IsN /\ nv' = [nv EXCEPT !.channel = par[<<"chanspec", Radio>>].ch]
    <3>1. /\ nv'.mode = nv.mode /\ nv'.vif = nv.vif /\ nv'.phy = nv.phy /\ nv'.bw = nv.bw /\ nv'.coex = nv.coex
          /\ nv'.ctlsb = nv.ctlsb /\ nv'.chanspec = nv.chanspec /\ nv'.nmode = nv.nmode
      BY <2>2 DEF ConfInv, NvInv, NvKeys
    <3> QED
      BY <2>2, <3>1 DEF ChanSame, Nmode, SetChannel
  <2> QED
    BY <2>1, <2>2
<1>2. Same({"band"})
  <2>1. Spares(chan_params, {"band"})
    BY SparesR, SparesWhen DEF chan_params
  <2> QED
    BY <2>1, SetSame
<1>3. par'[<<"band", Radio>>] = bandtype'
  <2>1. <<"band", Radio>> \in Params
    BY DEF Params, ParNames
  <2> QED
    BY <2>1, <1>1, <1>2 DEF Same, ChanInv, ChanSame
<1>4. ASSUME OwnChannel, KnownWord
      PROVE  chanspec' = Made /\ (par'[<<"chanspec", Radio>>] = Made \/ <<"chanspec", Radio>> \in refused')
  <2>1. read_chanspec = None
    <3>1. parts_to_chspec(NoText, default_band(0), plus80) = None /\ NoText.g = 0 /\ NoText.ch = 0
      BY DEF NoText, parts_to_chspec
    <3> QED
      BY <1>4, <3>1 DEF read_chanspec, wf_chspec_aton, OwnChannel
  <2>2. new_chanspec = Made
    BY <1>4, <2>1 DEF new_chanspec, Made, OwnChannel
  <2>3. chanspec' = Made
    BY <1>4, <2>2 DEF SetChannel, OwnChannel
  <2>4. chan_params = R("chanspec", Made)
    BY <1>4, <2>2, ChanMade, WhenCases DEF chan_params, ConfInv
  <2>5. Gives(chan_params, <<"chanspec", Radio>>, Made)
    BY <2>4, GivesR
  <2>6. <<"chanspec", Radio>> \in Params
    BY DEF Params, ParNames
  <2>7. par'[<<"chanspec", Radio>>] = Made \/ <<"chanspec", Radio>> \in refused'
    BY <2>5, <2>6, SetDoes DEF Gives
  <2> QED
    BY <2>3, <2>7
<1> QED
  BY <1>1, <1>3, <1>4, ChanStays DEF ChanInv, ChanSame, IsSet, Refused

\* Neither does SetRate.
LEMMA SetRateChan == ASSUME ConfInv, ChanInv, SetRate PROVE ChanInv'
<1> DEFINE g == R("rates", "auto") @@ rate_params
           y == [nv EXCEPT !.mcs = IF nmode /\ mcs_refused THEN -1 ELSE @]
<1>1. (Set(rate_params, {}) /\ nv' = y) \/ (Set(g, {}) /\ nv' = [y EXCEPT !.rate = "auto"])
  BY DEF SetRate
<1>2. Spares(rate_params, ChanNames)
  BY SparesR, SparesWhen, SparesOver DEF rate_params, ChanNames
<1>3. Spares(g, ChanNames)
  BY <1>2, SparesR, SparesOver DEF ChanNames
<1>4. {} \in MayRefuse(DOMAIN rate_params) /\ {} \in MayRefuse(DOMAIN g)
  BY DEF MayRefuse
<1>5. /\ y.mode = nv.mode /\ y.vif = nv.vif /\ y.phy = nv.phy /\ y.bw = nv.bw /\ y.coex = nv.coex
      /\ y.ctlsb = nv.ctlsb /\ y.chanspec = nv.chanspec /\ y.nmode = nv.nmode /\ y.channel = nv.channel
      /\ DOMAIN y = DOMAIN nv
  BY DEF ConfInv, NvInv, NvKeys
<1> HIDE DEF g, y
<1>6. Same(ChanNames)
  BY <1>1, <1>2, <1>3, <1>4, SetSame
<1>7. /\ nv'.mode = y.mode /\ nv'.vif = y.vif /\ nv'.phy = y.phy /\ nv'.bw = y.bw /\ nv'.coex = y.coex
      /\ nv'.ctlsb = y.ctlsb /\ nv'.chanspec = y.chanspec /\ nv'.nmode = y.nmode /\ nv'.channel = y.channel
  BY <1>1, <1>5 DEF ConfInv, NvInv, NvKeys
<1>8. ChanSame
  BY <1>5, <1>7 DEF ChanSame, Nmode, SetRate, locals
<1>9. pc \in AfterChan /\ chanspec' = chanspec
  BY DEF SetRate, AfterChan, BeforeSec, locals
<1> QED
  BY <1>6, <1>8, <1>9, ChanQuiet DEF ConfInv

\* The driver is in the band that wlconf goes on with.
LEMMA SetBandChan == ASSUME ConfInv, ChanInv, SetBand PROVE ChanInv'
<1>1. PICK b : bandtype' = b /\ par' = [par EXCEPT ![<<"band", Radio>>] = b]
  BY DEF SetBand
<1>2. pc' = "reg" /\ UNCHANGED nv
  BY DEF SetBand
<1>3. <<"band", Radio>> \in DOMAIN par
  BY DEF ConfInv, NvInv, Params, ParNames
<1>4. pc' \notin AfterChan
  BY <1>2 DEF AfterChan, BeforeSec, AfterSec
<1> QED
  BY <1>1, <1>2, <1>3, <1>4 DEF ChanInv, IsN

\* Without coexistence there is no scan: the channel that was set is known.
LEMMA AutoChannelChan == ASSUME ConfInv, ChanInv, AutoChannel PROVE ChanInv'
<1>1. pc = "acs" /\ UNCHANGED <<nv, bandtype, chanspec>>
  BY DEF AutoChannel, locals
<1>2. pc \in AfterChan
  BY <1>1 DEF AfterChan, BeforeSec
<1> DEFINE q == R("pref_chanspec", IF known_channel = 0 THEN None ELSE par[<<"chanspec", Radio>>])
           s(c) == When(IsN, q) @@ When(c # None, R("chanspec", c)) @@ R("cs_scan_timer", known_channel = 0)
                   @@ Copied({"chanim_mode"}) @@ wlconf_process_sta_config_entry
           t == When(ap \/ apsta, R("cs_scan_timer", FALSE) @@ Copied({"chanim_mode"})
                                   @@ wlconf_process_sta_config_entry)
<1>3. (Scans /\ \E c : Set(s(c), {})) \/ (~ Scans /\ Set(t, {}))
  BY DEF AutoChannel
<1>4. /\ \A v : Spares(R("cs_scan_timer", v), ChanNames)
      /\ Spares(Copied({"chanim_mode"}), ChanNames) /\ Spares(wlconf_process_sta_config_entry, ChanNames)
  BY SparesR, SparesCopied DEF ChanNames, wlconf_process_sta_config_entry
<1>5. /\ \A v : /\ Spares(R("cs_scan_timer", v), {"band"}) /\ Spares(R("pref_chanspec", v), {"band"})
                /\ Spares(R("chanspec", v), {"band"})
      /\ Spares(Copied({"chanim_mode"}), {"band"}) /\ Spares(wlconf_process_sta_config_entry, {"band"})
  BY SparesR, SparesCopied DEF wlconf_process_sta_config_entry
<1>6. Spares(t, ChanNames) /\ \A c : Spares(s(c), {"band"})
  BY <1>4, <1>5, SparesOver, SparesWhen, Zenon
<1> HIDE DEF s, t
<1>7. \A f : {} \in MayRefuse(DOMAIN f)
  BY DEF MayRefuse
<1>8. CASE ~ Scans
  <2>1. Same(ChanNames)
    BY <1>3, <1>6, <1>7, <1>8, SetSame
  <2> QED
    BY <2>1, <1>1, <1>2, ChanUnchanged, ChanQuiet DEF ConfInv
<1>9. CASE Scans
  <2>1. Same({"band"})
    BY <1>3, <1>6, <1>7, <1>9, SetSame
  <2>2. <<"band", Radio>> \in Params
    BY DEF Params, ParNames
  <2>3. ~ (OwnChannel /\ KnownWord)
    <3> SUFFICES ASSUME OwnChannel, KnownWord PROVE FALSE
      OBVIOUS
    <3>1. known_channel # 0
      BY <1>2, ChanMade DEF known_channel, ChanInv, ConfInv
    <3> QED
      BY <3>1, <1>9 DEF Scans, OwnChannel
  <2>4. ~ (OwnChannel' /\ KnownWord') /\ (IsN' <=> IsN)
    BY <2>3, <1>1, ChanUnchanged, ChanStays
  <2> QED
    BY <2>1, <2>2, <2>4, <1>1 DEF ChanInv, Same
<1> QED
  BY <1>8, <1>9

\* The link, the BSSs and the beginning and end of a command.
LEMMA LinkChan ==
    ASSUME ConfInv, ChanInv, Down \/ GetList \/ LinkUp \/ StartBss \/ wlconf_start \/ UpDone \/ wlconf
    PROVE  ChanInv'
<1>1. UNCHANGED <<nv, par, bandtype>>
  BY DEF Down, GetList, LinkUp, StartBss, wlconf_start, UpDone, wlconf, locals
<1>2. \A p \in Params : p[1] \in ChanNames => (p \in refused' <=> p \in refused)
  BY LinkRefuses
<1>3. Same(ChanNames)
  BY <1>1, <1>2 DEF Same
<1>4. pc' \in AfterChan => pc \in AfterChan /\ chanspec' = chanspec
  <2>1. LinkUp => pc = "up" /\ chanspec' = chanspec
    BY DEF LinkUp, locals
  <2>2. (StartBss => pc' \in {"start", "trf"}) /\ (Down => pc' = "list") /\ (GetList => pc' \in {"ssid", "idle"})
    BY DEF StartBss, Down, GetList
  <2>3. (wlconf_start => pc' = "wds") /\ (UpDone => pc' = "idle") /\ (wlconf => pc' = "down")
    BY DEF wlconf_start, UpDone, wlconf
  <2> QED
    BY <2>1, <2>2, <2>3 DEF AfterChan, BeforeSec, AfterSec
<1> QED
  BY <1>1, <1>3, <1>4, ChanUnchanged, ChanQuiet DEF ConfInv

\* The other commands, and nvram changing between them.
LEMMA IdleChan == ASSUME ConfInv, ChanInv, SetNvram \/ wlconf_down \/ wlconf_security PROVE ChanInv'
<1>1. pc = "idle" /\ pc' = "idle" /\ UNCHANGED bandtype
  BY DEF SetNvram, wlconf_down, wlconf_security, locals
<1>2. pc' \notin AfterChan
  BY <1>1 DEF AfterChan, BeforeSec, AfterSec
<1>3. CASE SetNvram
  <2>1. nv' \in Configs /\ par' = par
    BY <1>3 DEF SetNvram
  <2> QED
    BY <2>1, <1>1, <1>2, WlconfAssumption DEF ChanInv
<1>4. CASE wlconf_down
  <2>1. par' = wlconf_wds_clear @@ par /\ UNCHANGED nv
    BY <1>4 DEF wlconf_down
  <2>2. Spares(wlconf_wds_clear, {"band"})
    BY SparesR DEF wlconf_wds_clear
  <2>3. <<"band", Radio>> \in DOMAIN par
    BY DEF ConfInv, NvInv, Params, ParNames
  <2>4. par'[<<"band", Radio>>] = par[<<"band", Radio>>]
    BY <2>1, <2>2, <2>3 DEF @@, Spares
  <2> QED
    BY <2>1, <2>4, <1>1, <1>2 DEF ChanInv, IsN
<1>5. CASE wlconf_security
  <2> DEFINE f == wlconf_security_options(nv.sec[0], 1, FALSE, TRUE)
  <2> PICK no \in MayRefuse(DOMAIN f) : Set(f, no)
    BY <1>5 DEF wlconf_security
  <2>1. Spares(f, Kept \ SecNames)
    BY SecuritySpares
  <2> HIDE DEF f
  <2>2. Same(Kept \ SecNames)
    BY <2>1, SetSame
  <2>3. "band" \in Kept \ SecNames /\ <<"band", Radio>> \in Params
    BY DEF Kept, ChanNames, SecNames, Params, ParNames
  <2>4. par'[<<"band", Radio>>] = par[<<"band", Radio>>]
    BY <2>2, <2>3 DEF Same
  <2>5. nv' = nv
    BY <1>5 DEF wlconf_security
  <2> QED
    BY <2>4, <2>5, <1>1, <1>2 DEF ChanInv, IsN
<1> QED
  BY <1>3, <1>4, <1>5

\* The driver boots in the band that wlconf assumes.
LEMMA ChanInit == Init => ChanInv
<1> SUFFICES ASSUME Init PROVE ChanInv
  OBVIOUS
<1>1. <<"band", Radio>> \in Params /\ <<"band", Radio>> # <<"chanspec", Radio>>
  BY DEF Params, ParNames
<1>2. par[<<"band", Radio>>] = 2 /\ bandtype = 2
  BY <1>1 DEF Init
<1>3. pc \notin AfterChan
  BY DEF Init, AfterChan, BeforeSec, AfterSec
<1>4. nv \in Configs
  BY DEF Init
<1> QED
  BY <1>2, <1>3, <1>4, WlconfAssumption DEF ChanInv

\* Every step preserves ChanInv.
LEMMA ChanStep == ConfInv /\ ChanInv /\ [Next]_vars => ChanInv'
<1> SUFFICES ASSUME ConfInv, ChanInv, [Next]_vars PROVE ChanInv'
  OBVIOUS
<1>1. CASE UNCHANGED vars
  <2>1. UNCHANGED <<nv, bandtype, chanspec, pc, par, refused>>
    BY <1>1 DEF vars
  <2>2. Same(ChanNames)
    BY <2>1 DEF Same
  <2> QED
    BY <2>1, <2>2, ChanUnchanged, ChanQuiet DEF ConfInv
<1> QED
  BY <1>1, ApplyChan, SetChannelChan, SetRateChan, SetBandChan, AutoChannelChan, LinkChan, IdleChan DEF Next, Step

\* A legal chanspec of nvram's width has its control channel that far from its centre.
LEMMA LegalCtl ==
    ASSUME NEW d \in [band : {2, 5}, bw : {20, 40, 80}, sb : 0 .. 3, ch : 1 .. MAXCHANNEL], wf_chspec_valid(d)
    PROVE  d.sb <= Max_sb(d.bw) /\ d.ch = wf_chspec_ctlchan(d) + ToCentre(d.bw) - 4 * d.sb
<1>1. d.band \in {2, 5} /\ d.bw \in {20, 40, 80} /\ d.sb \in 0 .. 3 /\ d.ch \in 1 .. MAXCHANNEL
  OBVIOUS
<1>2. d.sb <= Max_sb(d.bw)
  BY <1>1 DEF wf_chspec_valid, wf_chspec_malformed, Max_sb
<1>3. CASE d.bw = 20
  <2>1. d.sb = 0 /\ wf_chspec_ctlchan(d) = d.ch
    BY <1>1, <1>2, <1>3 DEF Max_sb, wf_chspec_ctlchan
  <2> QED
    BY <1>1, <1>2, <1>3, <2>1 DEF ToCentre
<1>4. CASE d.bw \in {40, 80}
  <2>1. d.bw \in Widths /\ ToCentre(d.bw) = Edge(d.bw) /\ Edge(d.bw) \in {2, 6} /\ d.sb \in 0 .. Bands(d.bw) - 1
    BY <1>1, <1>2, <1>4 DEF Widths, ToCentre, Edge, Bands, Max_sb
  <2>2. d.ch > Edge(d.bw)
    <3>1. CASE d.band = 2
      <4>1. d.bw = 40 /\ d.ch \in 3 .. 11
        BY <1>1, <1>4, <3>1 DEF wf_chspec_valid, wf_chspec_malformed
      <4> QED
        BY <4>1 DEF Edge
    <3>2. CASE d.band = 5
      <4>1. PICK i \in DOMAIN wf_5g_chans(d.bw) : d.ch = wf_5g_chans(d.bw)[i]
        BY <1>4, <3>2 DEF wf_chspec_valid
      <4>2. d.ch \in 34 .. 165
        BY <2>1, <4>1, Centres
      <4> QED
        BY <2>1, <4>2
    <3> QED
      BY <1>1, <3>1, <3>2
  <2>3. channel_to_ctl_chan(d.ch, d.bw, d.sb) = d.ch - Edge(d.bw) + 4 * d.sb
    BY <1>1, <2>1, <2>2, CtlChan
  <2>4. wf_chspec_ctlchan(d) = d.ch - Edge(d.bw) + 4 * d.sb
    BY <1>4, <2>3 DEF wf_chspec_ctlchan
  <2> QED
    BY <1>1, <1>2, <2>1, <2>4 DEF MAXCHANNEL
<1> QED
  BY <1>1, <1>3, <1>4

\* An access point with an N phy, a channel and a side band of its own ends "up" on the
\* legal chanspec that nvram describes and on no other legal one, for every channel
\* number, a centre that wraps below 0 included (wlconf's Set channel part).
THEOREM WlconfChannelKept == Spec => []ChannelKept
<1>1. ConfInv /\ ChanInv => ChannelKept
  <2> DEFINE c == par[<<"chanspec", Radio>>]
  <2> SUFFICES ASSUME ConfInv, ChanInv, pc = "done", OwnChannel, KnownWord, ~ Refused(<<"chanspec", Radio>>)
               PROVE  /\ wf_chspec_valid(c) => NamedByNvram(c)
                      /\ \A d \in [band : {2, 5}, bw : {nbw}, sb : 0 .. 3, ch : 1 .. MAXCHANNEL] :
                            NamedByNvram(d) => c = d
    BY DEF ChannelKept, KnownWord
  <2>1. c = Made
    BY DEF ChanInv, AfterChan, AfterSec, IsSet
  <2>2. nv.channel \in 1 .. MAXCHANNEL /\ nbw \in {20, 40, 80}
    BY ChanMade DEF ConfInv
  <2>3. PICK k \in 0 .. 3 : Centred(c, bandtype, nv.channel, nbw, nv.ctlsb, k)
    BY <2>1, ChanMade DEF ConfInv
  <2>4. par[<<"band", Radio>>] = bandtype
    BY DEF ChanInv
  <2> HIDE DEF c
  <2> DEFINE x == nv.channel + ToCentre(nbw) - 4 * k
  <2>5. /\ k <= Max_sb(nbw)
        /\ nbw = 40 => nv.ctlsb = <<"lower", "upper">>[k + 1]
        /\ nbw = 80 => nv.ctlsb = <<"ll", "lu", "ul", "uu">>[k + 1]
        /\ c = IF x >= 0 THEN Chsp(bandtype, nbw, k, x) ELSE Chsp(5, 0, 7, x % 256)
    BY <2>3 DEF Centred
  <2>6. x \in Int
    BY <2>2 DEF ToCentre, MAXCHANNEL
  <2>7. /\ x >= 0 => wf_chspec_ctlchan(c) = nv.channel
        /\ ~ (x >= 0) => c.bw = 0
    <3>1. ~ (x >= 0) => c.bw = 0
      BY <2>5 DEF Chsp
    <3>2. ReadsBack(c, nv.channel, nbw, k)
      BY <2>2, <2>3, CentreAndBack
    <3>3. x >= 0 => wf_chspec_ctlchan(c) = nv.channel
      BY <3>2 DEF ReadsBack
    <3> QED
      BY <3>1, <3>3
  <2> HIDE DEF x
  <2>8. wf_chspec_valid(c) => NamedByNvram(c)
    <3> SUFFICES ASSUME wf_chspec_valid(c) PROVE NamedByNvram(c)
      OBVIOUS
    <3>1. c.bw # 0
      BY DEF wf_chspec_valid, wf_chspec_malformed
    <3>2. x >= 0
      BY <2>6, <2>7, <3>1
    <3>3. c.band = bandtype /\ c.bw = nbw /\ c.sb = k
      BY <2>5, <3>2 DEF Chsp
    <3>4. nv.ctlsb = SideWord(c)
      BY <2>2, <2>5, <3>3 DEF SideWord
    <3> QED
      BY <2>4, <2>7, <3>2, <3>3, <3>4 DEF NamedByNvram
  <2>9. ASSUME NEW d \in [band : {2, 5}, bw : {nbw}, sb : 0 .. 3, ch : 1 .. MAXCHANNEL], NamedByNvram(d)
        PROVE  c = d
    <3>1. d = Chsp(d.band, d.bw, d.sb, d.ch) /\ d.band = bandtype /\ d.bw = nbw /\ d.sb \in 0 .. 3
          /\ d.ch \in 1 .. MAXCHANNEL /\ nv.ctlsb = SideWord(d) /\ wf_chspec_ctlchan(d) = nv.channel
      BY <2>4, <2>9 DEF Chsp, NamedByNvram
    <3>2. d.sb <= Max_sb(nbw) /\ d.ch = nv.channel + ToCentre(nbw) - 4 * d.sb
      <4>1. d \in [band : {2, 5}, bw : {20, 40, 80}, sb : 0 .. 3, ch : 1 .. MAXCHANNEL]
        BY <2>2, <2>9
      <4> QED
        BY <2>9, <3>1, <4>1, LegalCtl DEF NamedByNvram
    <3>3. d.sb = k
      <4>1. CASE nbw = 20
        BY <2>5, <3>1, <3>2, <4>1 DEF Max_sb
      <4>2. CASE nbw = 40
        <5>1. nv.ctlsb = <<"lower", "upper">>[d.sb + 1] /\ d.sb \in 0 .. 1 /\ k \in 0 .. 1
          BY <2>5, <3>1, <3>2, <4>2 DEF SideWord, Max_sb
        <5> QED
          BY <2>5, <4>2, <5>1
      <4>3. CASE nbw = 80
        <5>1. nv.ctlsb = <<"ll", "lu", "ul", "uu">>[d.sb + 1]
          BY <3>1, <4>3 DEF SideWord
        <5> QED
          BY <2>5, <3>1, <4>3, <5>1
      <4> QED
        BY <2>2, <4>1, <4>2, <4>3
    <3>4. d.ch = x /\ x >= 0
      BY <3>1, <3>2, <3>3 DEF x, MAXCHANNEL
    <3> QED
      BY <2>5, <3>1, <3>3, <3>4
  <2> QED
    BY <2>8, <2>9
<1>2. Init => ConfInv /\ ChanInv
  BY ConfInit, ChanInit
<1>3. ConfInv /\ ChanInv /\ [Next]_vars => (ConfInv /\ ChanInv)'
  BY ConfStep, ChanStep
<1> QED
  BY <1>1, <1>2, <1>3, PTL DEF Spec

\* Whatever 80+80 strings were read before, a legal chanspec survives wf_chspec_ntoa
\* and wf_chspec_aton, an 80+80 one if it is the first of the process, and a string
\* that is read names its control channel and frequency.
THEOREM WlconfChspecRoundTrip == Spec => []ChspecRoundTrip
<1>1. ChspecRoundTrip
  <2>1. \A c \in ChanBits : wf_chspec_valid(c) =>
           /\ wf_chspec_aton(wf_chspec_ntoa(c), plus80) = IF c.bw = 8080 /\ plus80 # 0 THEN None ELSE c
           /\ wf_chspec_ctlchan(wf_chspec_ctlchspec(c)) = wf_chspec_ctlchan(c)
           /\ c.bw = 80 => wf_chspec_ctlchan(wf_chspec_primary40_chspec(c)) = wf_chspec_ctlchan(c)
    BY RoundTrip
  <2>2. \A s \in ChanText : LET c == wf_chspec_aton(s, plus80) IN
           c # None =>
             /\ \/ c.bw = 40 /\ c.ch = 0
                \/ wf_chspec_ctlchan(c) = s.ch
             /\ wf_chspec_valid(c) =>
                   /\ c.band = 5 /\ c.bw # 8080 /\ s.ch > 14 => c = wf_channel2chspec(s.ch, c.bw)
                   /\ LET f == IF c.band = 2 THEN CHAN_FACTOR_2_4_G ELSE CHAN_FACTOR_5_G
                      IN  wf_mhz2channel(wf_channel2mhz(s.ch, f), 0) = s.ch
    <3> TAKE s \in ChanText
    <3> DEFINE c == wf_chspec_aton(s, plus80)
    <3> SUFFICES ASSUME c # None
                 PROVE  /\ (c.bw = 40 /\ c.ch = 0) \/ wf_chspec_ctlchan(c) = s.ch
                        /\ wf_chspec_valid(c) =>
                             /\ c.band = 5 /\ c.bw # 8080 /\ s.ch > 14 => c = wf_channel2chspec(s.ch, c.bw)
                             /\ LET f == IF c.band = 2 THEN CHAN_FACTOR_2_4_G ELSE CHAN_FACTOR_5_G
                                IN  wf_mhz2channel(wf_channel2mhz(s.ch, f), 0) = s.ch
      OBVIOUS
    <3>1. /\ (c.bw = 40 /\ c.ch = 0) \/ wf_chspec_ctlchan(c) = s.ch
          /\ wf_chspec_valid(c) =>
               /\ c.band = 5 /\ c.bw # 8080 /\ s.ch > 14 => c = wf_channel2chspec(s.ch, c.bw)
               /\ c.band \in {2, 5} /\ (c.band = 2 => s.ch <= 14)
      BY ReadBack
    <3>2. s.ch \in 1 .. 165
      BY DEF ChanText, ChanNumbers
    <3> HIDE DEF c
    <3> QED
      BY <3>1, <3>2, MhzTrip
  <2> QED
    BY <2>1, <2>2 DEF ChspecRoundTrip
<1> QED
  BY <1>1, PTL
=============================================================================
