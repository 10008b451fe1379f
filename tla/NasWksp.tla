------------------------------ MODULE NasWksp ------------------------------
(***************************************************************************)
(* The workspace of nas: the command line, control blocks made on demand   *)
(* for the interfaces that messages name, the RADIUS sockets, signals and  *)
(* the main loop.  Signal handlers interrupt the loop anywhere; between    *)
(* signals each action is what the loop does between two reads of the flags. *)
(***************************************************************************)
EXTENDS Naturals, Sequences, FiniteSets

CONSTANTS Ifs,       \* interfaces
          Mac,       \* [interface -> address]
          Settings,  \* security settings that options or nvram may give
          MaxNwcb    \* NAS_WKSP_MAX_NUM_INTERFACES

ASSUME NasWkspAssumption == /\ MaxNwcb \in Nat \ {0} /\ "none" \notin Ifs
                            /\ \A i \in Ifs : Mac[i] # "none"
                            /\ \A c \in Settings : c.index \in Nat /\ c.rekey \in Nat

VARIABLES pc,        \* "parse", "init", "top", "rekey", "clear", "select", and the ends
                     \* "quit", "aborted", "stopped"
          nwcb,      \* nwksp->nwcb[0 .. nwcbs - 1]
          eapd,      \* nwksp->eapd is open
          fds,       \* descriptors of RADIUS sockets that are open
          flags,     \* nwksp->flags
          termed     \* history: SIGTERM was delivered

nasVars == <<pc, nwcb, eapd, fds, flags, termed>>

\* a control block of interface i with settings c, in error if its address is not
\* known; cmd: the command line made it
New(i, ea, c, cmd) == [ifc |-> i, ea |-> ea, set |-> c, cmd |-> cmd, err |-> ea = "none",
                       wan |-> FALSE, key |-> <<>>]

\* nwcb[i] = NULL
Hole == [ifc |-> "none", ea |-> "none", set |-> "none", cmd |-> TRUE, err |-> TRUE, wan |-> FALSE,
         key |-> <<>>]

-----------------------------------------------------------------------------
(* nas_init_nas *)
GTK_INDEX_1 == 1
GTK_INDEX_2 == 2
CHECK_NAS(m) == m \in {"WPA", "PSK", "WPA2"}
CHECK_PSK(m) == m = "PSK"
CHECK_RADIUS(m) == m \in {"WPA", "WPA2", "RADIUS"}

\* the key index of an authenticator, counted from 1; 0 is "not set"
fixed_index(c) ==
    LET ok == c.index \in {GTK_INDEX_1 + 1, GTK_INDEX_2 + 1} IN
    IF ~c.auth \/ ok \/ (c.index = 0 /\ ~(CHECK_NAS(c.mode) /\ "WEP" \in c.wsec)) THEN c.index
    ELSE GTK_INDEX_1 + 1

fixed_rekey(c) == IF c.auth /\ CHECK_NAS(c.mode) /\ "WEP" \in c.wsec THEN 0 ELSE c.rekey

\* the group key nas starts with: static when a WEP key is configured and not rotated
group_key(c) ==
    LET i == fixed_index(c) IN
    [static |-> fixed_rekey(c) = 0 /\ "WEP" \in c.wsec /\ i # 0 /\ c.wep # "none",
     index  |-> IF fixed_rekey(c) = 0 /\ i # 0 THEN i - 1 ELSE GTK_INDEX_1,
     rekey  |-> fixed_rekey(c)]

\* the modes and ciphers nas knows, and keys of the right length; a WEP key is
\* only looked at when it is used
valid(c) == /\ c.mode \in {"WPA", "PSK", "WPA2", "RADIUS"}
            /\ c.wsec # {} /\ c.wsec \subseteq {"AES", "TKIP", "WEP"}
            /\ CHECK_PSK(c.mode) => c.psk \in {"hex64", "passphrase"}
            /\ group_key(c).static => c.wep # "badlen"

\* a block that an option left in error is not started either
nas_init_nas(b) == IF ~b.err /\ valid(b.set) THEN [b EXCEPT !.key = <<group_key(b.set)>>]
                   ELSE [b EXCEPT !.err = TRUE]

-----------------------------------------------------------------------------
NasInit == /\ pc = "parse" /\ nwcb = <<>> /\ eapd = FALSE
           /\ fds = 0 /\ flags = "none" /\ termed = FALSE

Last == Len(nwcb)

\* -i <interface> and the options that follow it: r tells whether it is a wireless
\* interface, and whether its address is known.  A control block in error is used
\* again for the next interface, and stays in its place if that has no address.
ParseIf(i, c, r) ==
    LET again == nwcb # <<>> /\ nwcb[Last].err
        b == IF r = "ok" THEN New(i, Mac[i], c, TRUE)
             ELSE IF again /\ nwcb[Last] # Hole THEN New(i, "none", c, TRUE) ELSE Hole
    IN  /\ pc = "parse"
        /\ IF Len(nwcb) >= MaxNwcb THEN pc' = "quit" /\ UNCHANGED nwcb
           ELSE /\ nwcb' = IF r = "notwl" THEN nwcb
                           ELSE IF again THEN [nwcb EXCEPT ![Last] = b] ELSE Append(nwcb, b)
                /\ UNCHANGED pc
        /\ UNCHANGED <<eapd, fds, flags, termed>>

\* -D: the address of the WDS peer cannot be had.  Like every option it needs an
\* interface before it.
ParseWdsFails ==
    /\ pc = "parse"
    /\ IF nwcb = <<>> THEN pc' = "quit" /\ UNCHANGED nwcb
       ELSE nwcb' = [nwcb EXCEPT ![Last].err = TRUE] /\ UNCHANGED pc
    /\ UNCHANGED <<eapd, fds, flags, termed>>

ParseDone == pc = "parse" /\ pc' = "init" /\ UNCHANGED <<nwcb, eapd, fds, flags, termed>>

\* where nas_radius_open gets: socket, connect (with retries) or getsockname fails
Opens == {"opened", "nosocket", "unconnected", "noname"}

\* Faulty: the new socket is not closed when connect or getsockname fails.
reopened_leaking(b, n, how) ==
    LET m == IF b.wan THEN n - 1 ELSE n IN
    [b |-> [b EXCEPT !.wan = how = "opened"], n |-> IF how = "nosocket" THEN m ELSE m + 1]

\* nas_radius_open of block b when n descriptors are open: the old one is closed
\* first, and the new one if it cannot be used
reopened(b, n, how) ==
    LET m == IF b.wan THEN n - 1 ELSE n
        s == IF how = "nosocket" THEN m ELSE m + 1
    IN  [b |-> [b EXCEPT !.wan = how = "opened"],
         n |-> IF how \in {"unconnected", "noname"} THEN s - 1 ELSE s]

\* nas_wksp_init: how[k] is what becomes of the socket of block k.  A block that is
\* not there ends nas with an assertion.
InitWksp(ok, how) ==
    LET radius(k) == CHECK_RADIUS(nwcb[k].set.mode)
        r(k) == reopened(nwcb[k], 0, how[k])
    IN  /\ pc = "init"
        /\ IF \E k \in DOMAIN nwcb : nwcb[k] = Hole
           THEN pc' = "aborted" /\ UNCHANGED <<nwcb, eapd, fds>>
           ELSE /\ pc' = "top" /\ eapd' = ok
                /\ nwcb' = [k \in DOMAIN nwcb |-> nas_init_nas(IF radius(k) THEN r(k).b ELSE nwcb[k])]
                /\ fds' = Cardinality({k \in DOMAIN nwcb : radius(k) /\ r(k).n # 0})
        /\ UNCHANGED <<flags, termed>>

-----------------------------------------------------------------------------
(* Signals and the main loop *)
Running == pc \in {"init", "top", "rekey", "clear", "select"}

\* hup_hdlr and rekey_hdlr assign the flags; SIGTERM is sent once
Sigterm == Running /\ ~termed /\ flags' = "SHUTDOWN" /\ termed' = TRUE /\ UNCHANGED <<pc, nwcb, eapd, fds>>
Sigusr1 == Running /\ flags' = "REKEY" /\ UNCHANGED <<pc, nwcb, eapd, fds, termed>>

\* the sockets nas_wksp_close_radius closes
closed == Cardinality({k \in DOMAIN nwcb : nwcb[k].wan /\ CHECK_RADIUS(nwcb[k].set.mode)})

\* nas_wksp_cleanup
Shutdown ==
    /\ pc = "top" /\ flags = "SHUTDOWN"
    /\ pc' = "stopped" /\ eapd' = FALSE
    /\ fds' = fds - closed
    /\ nwcb' = [k \in DOMAIN nwcb |-> [nwcb[k] EXCEPT !.wan = FALSE]]
    /\ UNCHANGED <<flags, termed>>

TestShutdown == /\ pc = "top" /\ flags # "SHUTDOWN" /\ pc' = "rekey"
                /\ UNCHANGED <<nwcb, eapd, fds, flags, termed>>

GTK_NEXT_INDEX(n) == IF n = GTK_INDEX_1 THEN GTK_INDEX_2 ELSE GTK_INDEX_1

\* Faulty: the next index is one more.
nas_force_rekey_counting(b) == IF b.key = <<>> THEN b ELSE [b EXCEPT !.key[1].index = @ + 1]

\* nas_force_rekey of a block that runs, once a station has its keys: the new group
\* key, or with WEP the old one, goes to the other index
nas_force_rekey(b) == IF b.key = <<>> THEN b ELSE [b EXCEPT !.key[1].index = GTK_NEXT_INDEX(@)]

\* S are the blocks with such a station; then the flags are read to clear one of them
TestRekey(S) ==
    /\ pc = "rekey" /\ pc' = IF flags = "REKEY" THEN "clear" ELSE "select"
    /\ \A k \in S : nwcb[k].set.auth /\ CHECK_NAS(nwcb[k].set.mode)
    /\ nwcb' = [k \in DOMAIN nwcb |-> IF flags = "REKEY" /\ k \in S THEN nas_force_rekey(nwcb[k])
                                      ELSE nwcb[k]]
    /\ UNCHANGED <<eapd, fds, flags, termed>>

\* flags &= ~NAS_WKSP_FLAG_REKEY: what was read without that bit is stored
StoreFlags == /\ pc = "clear" /\ pc' = "select" /\ flags' = "none"
              /\ UNCHANGED <<nwcb, eapd, fds, termed>>

Selectable == {k \in DOMAIN nwcb : nwcb[k].wan /\ ~nwcb[k].err}

\* nothing to listen to: the loop tells itself to end
NoSockets == /\ pc = "select" /\ ~eapd /\ Selectable = {}
             /\ pc' = "top" /\ flags' = "SHUTDOWN"
             /\ UNCHANGED <<nwcb, eapd, fds, termed>>

\* select times out, or what comes is not for nas (nas_validate_wlpvt_message)
Idle == /\ pc = "select" /\ (eapd \/ Selectable # {}) /\ pc' = "top"
        /\ UNCHANGED <<nwcb, eapd, fds, flags, termed>>

-----------------------------------------------------------------------------
(* Messages *)
ANY == "any"        \* preauthentication frames do not tell the interface

\* Faulty: an interface must be named.
find_nwcb_named(mac, ifc) == {k \in DOMAIN nwcb : nwcb[k].ea = mac /\ nwcb[k].ifc = ifc}

find_nwcb(mac, ifc) == {k \in DOMAIN nwcb : nwcb[k].ea = mac /\ ifc \in {ANY, nwcb[k].ifc}}

\* an EAPOL or preauthentication frame, or a driver event: the block is found, or
\* made by nas_wksp_add_nwcb from what nvram says now
Message(i, ifc, c, how) ==
    LET r == reopened(New(i, Mac[i], c, FALSE), fds, how) IN
    /\ pc = "select" /\ eapd /\ ifc \in {ANY, i}
    /\ pc' = "top"
    /\ IF find_nwcb(Mac[i], ifc) # {} \/ Len(nwcb) >= MaxNwcb \/ c.mode = "none" \/ c.wsec = {}
       THEN UNCHANGED <<nwcb, fds>>
       ELSE IF CHECK_RADIUS(c.mode)
       THEN nwcb' = Append(nwcb, nas_init_nas(r.b)) /\ fds' = r.n
       ELSE nwcb' = Append(nwcb, nas_init_nas(New(i, Mac[i], c, FALSE))) /\ UNCHANGED fds
    /\ UNCHANGED <<eapd, flags, termed>>

\* a RADIUS request finds the socket closed, or an answer cannot be received: the
\* socket is opened anew
RadiusReopen(k, how) ==
    LET r == reopened(nwcb[k], fds, how) IN
    /\ pc = "select" /\ CHECK_RADIUS(nwcb[k].set.mode)
    /\ (eapd /\ ~nwcb[k].wan) \/ k \in Selectable
    /\ pc' = "top"
    /\ nwcb' = [nwcb EXCEPT ![k] = r.b] /\ fds' = r.n
    /\ UNCHANGED <<eapd, flags, termed>>

Ended == pc \in {"quit", "aborted", "stopped"} /\ UNCHANGED nasVars

Loop == \/ Shutdown \/ TestShutdown \/ StoreFlags \/ NoSockets \/ Idle
        \/ \E S \in SUBSET (DOMAIN nwcb) : TestRekey(S)

NasNext == \/ ParseDone \/ ParseWdsFails \/ Sigterm \/ Sigusr1 \/ Loop \/ Ended
           \/ \E i \in Ifs, c \in Settings, r \in {"ok", "notwl", "nohwaddr"} : ParseIf(i, c, r)
           \/ \E ok \in BOOLEAN, how \in [DOMAIN nwcb -> Opens] : InitWksp(ok, how)
           \/ \E i \in Ifs, c \in Settings, how \in Opens :
                 \E ifc \in {ANY, i} : Message(i, ifc, c, how)
           \/ \E k \in DOMAIN nwcb, how \in Opens : RadiusReopen(k, how)

\* the process runs, and select() returns after a second at the latest
NasSpec == /\ NasInit /\ [][NasNext]_nasVars /\ WF_nasVars(Loop)
           /\ WF_nasVars(\E ok \in BOOLEAN, how \in [DOMAIN nwcb -> Opens] : InitWksp(ok, how))

-----------------------------------------------------------------------------
(* Properties *)

\* Every descriptor of a RADIUS socket belongs to a control block, through failed
\* opens and reopens (nas_radius_open), and none is left at the end.
SocketsAccounted == /\ fds = Cardinality({k \in DOMAIN nwcb : nwcb[k].wan})
                    /\ pc = "stopped" => fds = 0

\* Messages name interfaces by address and name, preauthentication frames by the
\* address only: whatever the order they come in, they make no second control block
\* for an interface (nas_wksp_find_nwcb), whose stations, group keys and
\* countermeasures would disagree.  Two -i of one interface do (nas_wksp_parse_cmd).
MessagesAddOnce ==
    \A j, k \in DOMAIN nwcb :
        j # k /\ nwcb[j].ifc = nwcb[k].ifc /\ nwcb[j].ea = nwcb[k].ea => nwcb[j].cmd /\ nwcb[k].cmd

\* An authenticator in operation has its group key at index 1 or 2, index 0 and 3
\* being for pairwise keys, from whatever index it was configured with (nas_init_nas)
\* and however often SIGUSR1 moves it (nas_force_rekey).
GroupKeySane ==
    \A k \in DOMAIN nwcb : \A n \in DOMAIN nwcb[k].key :
        nwcb[k].set.auth => nwcb[k].key[n].index \in {GTK_INDEX_1, GTK_INDEX_2}

\* "GTK rotation is not allowed when WEP is enabled, disabled": a statically
\* configured WEP key stays at the index it was configured with.
StaticKeyStays ==
    \A k \in DOMAIN nwcb : \A n \in DOMAIN nwcb[k].key :
        nwcb[k].key[n].static => nwcb[k].key[n].index = group_key(nwcb[k].set).index

\* "establish a handler to handle SIGTERM": SIGTERM ends nas.
TermStops == termed ~> ~Running
=============================================================================
