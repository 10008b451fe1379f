----------------------------- MODULE MCNasWksp -----------------------------
(* wl0 with its WDS link wds0, which has the same address, and wl1.          *)
EXTENDS NasWksp

MCIfs == {"wl0", "wds0", "wl1"}
MCMac == [i \in MCIfs |-> IF i = "wl1" THEN "m2" ELSE "m1"]
Psk == [mode |-> "PSK", wsec |-> {"AES"}, psk |-> "passphrase", wep |-> "none",
        auth |-> TRUE, index |-> 0, rekey |-> 1]
Ent == [Psk EXCEPT !.mode = "WPA2", !.psk = "none"]
MCSettings == {Psk, [Psk EXCEPT !.psk = "short"], [Ent EXCEPT !.wsec = {"AES", "WEP"}, !.index = 1, !.wep = "ok"],
               [Ent EXCEPT !.mode = "RADIUS", !.wsec = {"WEP"}, !.index = 4, !.rekey = 0, !.wep = "badlen"],
               [Ent EXCEPT !.mode = "RADIUS", !.wsec = {"WEP"}, !.index = 4, !.wep = "badlen"],
               [Ent EXCEPT !.mode = "RADIUS", !.wsec = {"WEP"}, !.index = 1, !.rekey = 0, !.wep = "ok"],
               [Psk EXCEPT !.mode = "none"]}
=============================================================================
