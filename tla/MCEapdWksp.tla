---------------------------- MODULE MCEapdWksp -----------------------------
(* Two radios: wl0 with a second BSS wl0.1 on one bridge, wl1 on another,   *)
(* a proxy-station interface of wl0 and one in its bridge that come and go. *)
EXTENDS EapdWksp

MCIfs == {"wl0", "wl0.1", "wl1"}
MCDynIfs == {"wl0.2", "wl0.3"}
MCPsta == {"wl0.2"}
All == MCIfs \cup MCDynIfs
MCLan == [i \in All |-> IF i = "wl1" THEN "br1" ELSE "br0"]
MCUnit == [i \in All |-> IF i = "wl1" THEN 1 ELSE 0]
MCPrimary == <<"wl1">> @@ (0 :> "wl0")
MCNvName == [i \in All |-> i]
MCOsName == [i \in All |-> IF i = "wl0" THEN "eth1" ELSE IF i = "wl1" THEN "eth2" ELSE i]

\* every app, nas alone (802.1X with WEP keys), no app
Open == [radio |-> TRUE, shared |-> FALSE, bss |-> TRUE, radius |-> FALSE,
         akm |-> {}, wep |-> FALSE, crypto |-> "none", wps |-> FALSE, ses |-> FALSE]
Full == [Open EXCEPT !.akm = {"psk2"}, !.crypto = "aes", !.wps = TRUE, !.ses = TRUE]
WepX == [Open EXCEPT !.radius = TRUE, !.wep = TRUE]
MCConfs == {Full, WepX, Open}
=============================================================================
