------------------------------ MODULE MCWlconf ------------------------------
EXTENDS Wlconf

\* The first chanspec of the module: TLC compares the fields of records in the order
\* in which it met their names, and "band" tells None from the rest.
MCChosen == {[band |-> 5, bw |-> 40, sb |-> 1, ch |-> 159]}

Open == [akm |-> {}, crypto |-> "aes", wep |-> FALSE, radius |-> FALSE, auth |-> "open"]
Wep == [Open EXCEPT !.wep = TRUE, !.auth = "shared"]
Psk == [Open EXCEPT !.akm = {"psk2"}]
Mixed == [Open EXCEPT !.akm = {"psk", "psk2"}, !.crypto = "tkip+aes"]

\* The strings "36", "1u", "36/80+80/42-106" and "149/80+80/42-155".
Text(ch, tail) == [NoText EXCEPT !.ch = ch, !.tail = tail]
Text8080(ch, x, y) == [Text(ch, "/80+80") EXCEPT !.pair = <<x, y>>]

Base == [mode |-> "ap", caps |-> {"ap", "ampdu", "amsdutx", "wet_tunnel", "traffic-mgmt"}, vif |-> FALSE, phy |-> "n", bands |-> {2, 5}, nband |-> 5, nmode |-> TRUE,
         bw |-> 20, channel |-> 36, ctlsb |-> "lower", chanspec |-> NoText, reg |-> "off",
         ampdu |-> "on", amsdu |-> "absent", wme |-> TRUE, coex |-> FALSE, rate |-> "fixed",
         mcs |-> -1, ssid |-> "net", infra |-> TRUE, dwds |-> FALSE, mrpt |-> 0, preauth |-> FALSE,
         wet_tunnel |-> FALSE, maxassoc |-> 0, isolate |-> FALSE, mcast |-> FALSE, radio |-> TRUE,
         dfs_pref |-> <<>>, chains |-> 2, gmode |-> "auto", protection |-> "auto", nprotection |-> "off",
         country |-> "US", options |-> {"taf", "chanim"}, rest |-> "auto", frameburst |-> TRUE,
         btc |-> FALSE, nar |-> TRUE, wme_off |-> FALSE, devicemode |-> FALSE,
         macmode |-> "disabled", enabled |-> TRUE, sec |-> [i \in 0 .. 1 |-> Psk]]

MCConfigs ==
    { Base,
      [Base EXCEPT !.vif = TRUE, !.bw = 80, !.ctlsb = "ul", !.channel = 44, !.amsdu = "on",
                   !.ampdu = "absent", !.sec = [i \in 0 .. 1 |-> IF i = 0 THEN Mixed ELSE Wep]],
      [Base EXCEPT !.mode = "apsta", !.vif = TRUE, !.nband = 2, !.bw = 40, !.ctlsb = "upper",
                   !.channel = 6, !.coex = TRUE, !.amsdu = "on", !.wme = FALSE,
                   !.sec = [i \in 0 .. 1 |-> IF i = 0 THEN Mixed ELSE Psk]],
      [Base EXCEPT !.mode = "psta", !.infra = FALSE, !.nmode = FALSE, !.channel = 0, !.reg = "h",
                   !.sec = [i \in 0 .. 1 |-> Mixed], !.mcast = TRUE,
                   !.chains = 0, !.mcs = 32, !.options = {"nar", "nar_limits", "cal_period", "ebos", "antsel"}],
      \* a card that only has the 5 GHz band
      [Base EXCEPT !.bands = {5}, !.nband = 2, !.bw = 40, !.channel = 149, !.ctlsb = "lower"],
      [Base EXCEPT !.bands = {5}, !.mode = "sta", !.channel = 0, !.ampdu = "off"],
      [Base EXCEPT !.bands = {5}, !.mode = "psr", !.vif = TRUE, !.infra = FALSE],
      \* a legacy phy
      [Base EXCEPT !.phy = "g", !.bands = {2}, !.channel = 6, !.reg = "d", !.country = "unset",
                   !.rate = "slow", !.btc = TRUE],
      [Base EXCEPT !.phy = "g", !.bands = {2}, !.mode = "wet", !.channel = 11, !.sec = [i \in 0 .. 1 |-> Open]],
      \* a newer card: an edge channel, 80+80 strings, an address that is spoofed
      [Base EXCEPT !.phy = "v", !.nband = 2, !.bw = 40, !.channel = 1, !.ctlsb = "upper"],
      [Base EXCEPT !.phy = "v", !.bw = 40, !.channel = 48, !.ctlsb = "upper", !.reg = "h",
                   !.dfs_pref = <<Text8080(36, 42, 106), Text(36, "end")>>],
      [Base EXCEPT !.phy = "v", !.mode = "mac_spoof", !.chanspec = Text8080(149, 42, 155),
                   !.ampdu = "absent", !.amsdu = "on"],
      \* a driver without AP support
      [Base EXCEPT !.bands = {2}, !.caps = {"ampdu"}, !.mode = "sta", !.nband = 2, !.channel = 0] }

\* 40 MHz, but no side band in nvram.
MCNoSideband == {[Base EXCEPT !.nband = 2, !.bw = 40, !.channel = 6, !.ctlsb = "none"]}

\* An 80+80 string among the preferred channels, and another as the chanspec.
MCTwoStrings == {[Base EXCEPT !.reg = "h", !.dfs_pref = <<Text8080(36, 42, 106)>>,
                              !.chanspec = Text8080(149, 42, 155)]}

MCSpoof == {Base, [Base EXCEPT !.mode = "mac_spoof"]}
=============================================================================
