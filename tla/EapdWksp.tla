------------------------------ MODULE EapdWksp ------------------------------
(***************************************************************************)
(* The workspace of eapd: the interfaces each daemon ("app") is configured *)
(* for, their control blocks, the reference-counted raw sockets the apps   *)
(* share, the driver's event masks, interfaces that hotplug adds and       *)
(* removes, and the end.  eapd is one thread, which a signal interrupts;   *)
(* event_init, which may fail at each name, takes a step for each.         *)
(***************************************************************************)
EXTENDS Naturals, Sequences, FiniteSets, FiniteSetsExt, SequencesExt

CONSTANTS Ifs,        \* wireless interfaces present at start
          DynIfs,     \* interfaces that hotplug announces later
          Psta,       \* the proxy-station interfaces among both
          Lan,        \* [interface -> ifname of its bridge]
          Unit,       \* [interface -> radio]
          Primary,    \* [radio -> its interface wl<unit>]
          NvName,     \* [interface -> nvram name]
          OsName,     \* [interface -> name in the kernel]
          Confs,      \* nvram settings an interface may have
          MaxBrcm     \* EAPD_WKSP_MAX_NO_BRCM

ASSUME EapdAssumption ==
    /\ Ifs \cap DynIfs = {} /\ Psta \subseteq Ifs \cup DynIfs /\ MaxBrcm \in Nat \ {0}
    /\ IsFiniteSet(Ifs)

AllIfs == Ifs \cup DynIfs
Units  == {Unit[i] : i \in AllIfs}
Apps   == {"wps", "nas", "ses"}
NULL   == 0

VARIABLES phase,      \* "off", "opening", "events", "failed", "running" (the test of the
                      \* flag), "select", "adding" (eapd_add_dif), "stopped"
          todo,       \* "opening": the control blocks the apps' init has still to serve
          evq,        \* event_init: the interfaces whose names are still to come,
          seen,       \*   the radios written to (wlunit, a local),
          unserved,   \*   history: those it skipped or could not write the mask for
          dif,        \* "adding": the interface
          twice,      \* history: where nas_open_dif_sockets met a socket in the control block
          conf,       \* nvram
          ifnames,    \* app->ifnames
          cbs,        \* app->cb: per app, lan ifname -> brcmSocket of its control block
          appSocket,  \* app->appSocket >= 0
          brcm,       \* nwksp->brcmSocket[0 .. brcmSocketCount - 1]
          mask,       \* event_msgs of each radio
          shutdown    \* EAPD_WKSP_FLAG_SHUTDOWN

events == <<evq, seen, unserved>>
vars == <<phase, todo, events, dif, twice, conf, ifnames, cbs, appSocket, brcm, mask, shutdown>>

-----------------------------------------------------------------------------
(* The raw sockets *)
find_brcm(b, l) == {k \in DOMAIN b : b[k].count > 0 /\ b[k].ifname = l}
unused(b) == {k \in DOMAIN b : b[k].count = 0}
slot(b, l) == IF find_brcm(b, l) # {} THEN Min(find_brcm(b, l))
              ELSE IF unused(b) # {} THEN Min(unused(b)) ELSE Len(b) + 1

\* eapd_brcm_open sets the count to 1, and leaves a zeroed slot when it fails
brcm_open(l, ok) == [ifname |-> l, count |-> IF ok THEN 1 ELSE 0, open |-> ok, caps |-> {}]

\* Faulty: a socket in use is opened a second time.
add_brcm_again(b, l, ok) ==
    LET k == slot(b, l) IN
    IF k > MaxBrcm THEN b
    ELSE IF k > Len(b) THEN Append(b, brcm_open(l, ok)) ELSE [b EXCEPT ![k] = brcm_open(l, ok)]

add_brcm(b, l, ok) ==
    LET k == slot(b, l) IN
    IF find_brcm(b, l) # {} THEN [b EXCEPT ![k].count = @ + 1]
    ELSE IF k > MaxBrcm THEN b
    ELSE IF k > Len(b) THEN Append(b, brcm_open(l, ok)) ELSE [b EXCEPT ![k] = brcm_open(l, ok)]

added(b, l, ok) == find_brcm(b, l) # {} \/ (ok /\ slot(b, l) <= MaxBrcm)

\* one call for each of the uses, <<app, ifname>>
del_brcm(b, uses) ==
    [k \in DOMAIN b |->
        LET n == Cardinality({x \in uses : x[2] = b[k].ifname}) IN
        IF b[k].count = 0 THEN b[k]
        ELSE [b[k] EXCEPT !.count = @ - n, !.open = b[k].count > n]]

-----------------------------------------------------------------------------
(* Configuration *)
wps_app_set_eventmask == {"eapol", "probreq"}
nas_app_set_eventmask == {"eapol", "link", "assoc", "disassoc", "mic"}
ses_app_set_eventmask == {"eapol"}
bitvec == [wps |-> wps_app_set_eventmask, nas |-> nas_app_set_eventmask,
           ses |-> ses_app_set_eventmask]

nas_app_enabled(c) ==
    /\ c.radio /\ ~c.shared /\ c.bss
    /\ c.radius \/ c.akm # {}
    /\ c.wep \/ (c.akm # {} /\ c.crypto # "none")

wps_app_enabled(c) == c.bss /\ c.wps

ses_app_enabled(c) == c.ses

app_enabled(c, i, a) == CASE a = "wps" -> wps_app_enabled(c)
                          [] a = "nas" -> nas_app_enabled(c)
                          [] a = "ses" -> ses_app_enabled(c)

\* for a proxy station the control block has the interface's own name
lanifname(i) == IF i \in Psta THEN i ELSE Lan[i]

\* eapd_add_interface refuses names it has; a new control block needs a new lan name
add_cb(c, l) == [x \in DOMAIN c \cup {l} |-> IF x \in DOMAIN c THEN c[x] ELSE NULL]

\* eapd_wksp_auto_config: ses runs on one interface only
auto_ifs(cf, a) ==
    LET on == {i \in Ifs : app_enabled(cf[i], i, a)} IN
    IF a = "ses" /\ on # {} THEN {CHOOSE i \in on : TRUE} ELSE on

lans(cf, a) == {lanifname(i) : i \in auto_ifs(cf, a)}

\* the control blocks for which the init of an app opens a raw socket, in its order
app_init(cf, a) == [k \in 1..Cardinality(lans(cf, a)) |-> <<a, SetToSeq(lans(cf, a))[k]>>]

wps_app_init(cf) == app_init(cf, "wps")
nas_app_init(cf) == app_init(cf, "nas")
ses_app_init(cf) == app_init(cf, "ses")

\* eapd_wksp_init
Opens(cf) == wps_app_init(cf) \o nas_app_init(cf) \o ses_app_init(cf)

\* event_init: the apps' lists of names are put together, and no radio is written to
event_init(ifn) ==
    /\ evq' = {i \in AllIfs : \E a \in Apps : NvName[i] \in ifn[a]}
    /\ seen' = {} /\ unserved' = {}

app_bits(i) == UNION {bitvec[a] : a \in {x \in Apps : NvName[i] \in ifnames[x]}}

-----------------------------------------------------------------------------
Init == /\ phase = "off" /\ todo = <<>> /\ conf \in [Ifs -> Confs]
        /\ evq = {} /\ seen = {} /\ unserved = {} /\ dif = NULL /\ twice = {}
        /\ ifnames = [a \in Apps |-> {}] /\ cbs = [a \in Apps |-> <<>>]
        /\ appSocket = [a \in Apps |-> FALSE] /\ brcm = <<>>
        /\ mask = [u \in Units |-> {}] /\ shutdown = FALSE

\* main: eapd_wksp_auto_config finds the interfaces, or nothing to do
Config ==
    /\ phase = "off"
    /\ ifnames' = [a \in Apps |-> {NvName[i] : i \in auto_ifs(conf, a)}]
    /\ cbs' = [a \in Apps |-> [l \in lans(conf, a) |-> NULL]]
    /\ todo' = Opens(conf)
    /\ phase' = IF Opens(conf) = <<>> THEN "failed" ELSE "opening"
    /\ UNCHANGED <<events, dif, twice, conf, appSocket, brcm, mask, shutdown>>

\* one round of the loops of wps_app_init, nas_app_init and ses_app_init (nas also
\* opens a preauthentication socket, and goes on without it)
OpenSocket(ok) ==
    LET a == Head(todo)[1]
        l == Head(todo)[2]
        k == slot(brcm, l)
    IN  /\ phase = "opening" /\ todo # <<>> /\ added(brcm, l, ok)
        /\ brcm' = [add_brcm(brcm, l, ok) EXCEPT ![k].caps = @ \cup {a}]
        /\ cbs' = [cbs EXCEPT ![a][l] = k]
        /\ todo' = Tail(todo)
        /\ UNCHANGED <<phase, events, dif, twice, conf, ifnames, appSocket, mask, shutdown>>

\* between two apps: the loop of one is over and its own socket comes next
AppDone == /\ todo # Opens(conf)
           /\ todo # <<>> => \A l \in DOMAIN cbs[Head(todo)[1]] : cbs[Head(todo)[1]][l] = NULL

\* an app's socket, a raw socket, or at the end the one for interface events or the
\* daemon's process cannot be had
InitFails ==
    /\ phase' = "failed"
    /\ \/ phase = "opening" /\ AppDone /\ UNCHANGED brcm
       \/ /\ phase = "opening" /\ todo # <<>> /\ ~added(brcm, Head(todo)[2], FALSE)
          /\ brcm' = add_brcm(brcm, Head(todo)[2], FALSE)
       \/ phase = "events" /\ evq = {} /\ UNCHANGED brcm
    /\ UNCHANGED <<todo, events, dif, twice, conf, ifnames, cbs, appSocket, mask, shutdown>>

\* the apps' own sockets are open, and event_init begins
InitEvents ==
    /\ phase = "opening" /\ todo = <<>>
    /\ phase' = "events" /\ event_init(ifnames)
    /\ appSocket' = [a \in Apps |-> DOMAIN cbs[a] # {}]
    /\ UNCHANGED <<todo, dif, twice, conf, ifnames, cbs, brcm, mask, shutdown>>

\* Faulty: the flags are cleared before the main loop.
InitDone_clears ==
    /\ phase = "events" /\ evq = {}
    /\ phase' = "running" /\ seen' = {} /\ shutdown' = FALSE
    /\ UNCHANGED <<todo, evq, unserved, dif, twice, conf, ifnames, cbs, appSocket, brcm, mask>>

InitDone ==
    /\ phase = "events" /\ evq = {}
    /\ phase' = "running" /\ seen' = {}
    /\ UNCHANGED <<todo, evq, unserved, dif, twice, conf, ifnames, cbs, appSocket, brcm, mask, shutdown>>

-----------------------------------------------------------------------------
(* event_init, for one name.  The names are taken in any order.             *)

\* not there, or the driver does not answer: the name is passed over
EventSkip(i) ==
    /\ unserved' = unserved \cup {i} /\ evq' = evq \ {i}
    /\ UNCHANGED <<seen, mask>>

\* a radio written to before: its mask cannot be read
EventGetFails(i) == Unit[i] \in seen /\ EventSkip(i)

\* it is not taken, and the radio counts as written to all the same
EventSetFails(i) ==
    /\ unserved' = unserved \cup {i} /\ evq' = evq \ {i} /\ seen' = seen \cup {Unit[i]}
    /\ UNCHANGED mask

\* Faulty: the mask is not read again for a second name of a radio.
EventSet_blind(i) ==
    /\ mask' = [mask EXCEPT ![Unit[i]] = app_bits(i)]
    /\ evq' = evq \ {i} /\ seen' = seen \cup {Unit[i]}
    /\ UNCHANGED unserved

\* the first name of a radio starts from nothing, another one from what is there
EventSet(i) ==
    /\ mask' = [mask EXCEPT ![Unit[i]] = (IF Unit[i] \in seen THEN @ ELSE {}) \cup app_bits(i)]
    /\ evq' = evq \ {i} /\ seen' = seen \cup {Unit[i]}
    /\ UNCHANGED unserved

EventName(i) ==
    /\ phase \in {"events", "adding"} /\ i \in evq
    /\ EventSkip(i) \/ EventGetFails(i) \/ EventSetFails(i) \/ EventSet(i)
    /\ UNCHANGED <<phase, todo, dif, twice, conf, ifnames, cbs, appSocket, brcm, shutdown>>

-----------------------------------------------------------------------------
(* The main loop, interfaces that come and go, and the end *)

\* eapd_wksp_main_loop: the flag is not set, and eapd_wksp_dispatch waits
Dispatch == /\ phase = "running" /\ ~shutdown /\ phase' = "select"
            /\ UNCHANGED <<todo, events, dif, twice, conf, ifnames, cbs, appSocket, brcm, mask, shutdown>>

\* select(): a second is over, a signal, or a packet for another module's handler
SelectEnds == /\ phase = "select" /\ phase' = "running"
              /\ UNCHANGED <<todo, events, dif, twice, conf, ifnames, cbs, appSocket, brcm, mask, shutdown>>

\* eapd_add_dif: the name and its control block, and event_init begins
AddDif(i) ==
    LET ifn == [ifnames EXCEPT !["nas"] = @ \cup {NvName[i]}]
    IN  /\ phase = "select" /\ nas_app_enabled(conf[Primary[Unit[i]]])
        /\ NvName[i] \notin ifnames["nas"]
        /\ phase' = "adding" /\ dif' = i
        /\ ifnames' = ifn /\ event_init(ifn)
        /\ cbs' = [cbs EXCEPT !["nas"] = add_cb(@, lanifname(i))]
        /\ UNCHANGED <<todo, twice, conf, appSocket, brcm, mask, shutdown>>

\* ... and ends with nas_open_dif_sockets; ok is the outcome of opening the raw socket.  A control block that
\* was there has its socket counted again.
OpenDif(ok) ==
    LET l == lanifname(dif)
        b == add_brcm(brcm, l, ok)
        k == slot(brcm, l)
    IN  /\ phase = "adding" /\ evq = {} /\ phase' = "running" /\ seen' = {} /\ dif' = NULL
        /\ IF added(brcm, l, ok)
           THEN /\ brcm' = [b EXCEPT ![k].caps = @ \cup {"nas"}]
                /\ cbs' = [cbs EXCEPT !["nas"][l] = k]
           ELSE /\ brcm' = b
                /\ cbs' = [cbs EXCEPT !["nas"][l] = NULL]
        /\ twice' = IF cbs["nas"][l] = NULL THEN twice ELSE twice \cup {l}
        /\ UNCHANGED <<todo, evq, unserved, conf, ifnames, appSocket, mask, shutdown>>

nas_close_dif_sockets(b, k) ==
    IF k # NULL THEN del_brcm(b, {<<"nas", b[k].ifname>>}) ELSE b

\* eapd_delete_dif looks for a control block with the interface's own name
DeleteDif(i) ==
    /\ phase = "select" /\ phase' = "running" /\ i \in DOMAIN cbs["nas"]
    /\ brcm' = nas_close_dif_sockets(brcm, cbs["nas"][i])
    /\ cbs' = [cbs EXCEPT !["nas"] = [l \in DOMAIN @ \ {i} |-> @[l]]]
    /\ ifnames' = [ifnames EXCEPT !["nas"] = @ \ {OsName[i]}]
    /\ UNCHANGED <<todo, events, dif, twice, conf, appSocket, mask, shutdown>>

\* SIGTERM
Term == /\ phase \in {"opening", "events", "running", "select", "adding"}
        /\ ~shutdown /\ shutdown' = TRUE
        /\ UNCHANGED <<phase, todo, events, dif, twice, conf, ifnames, cbs, appSocket, brcm, mask>>

\* the names del_brcm is called with: the control blocks that have a socket
Held(a) == {<<a, l>> : l \in {x \in DOMAIN cbs[a] : cbs[a][x] # NULL}}

wps_app_deinit(b) == del_brcm(b, Held("wps"))
ses_app_deinit(b) == del_brcm(b, Held("ses"))
nas_app_deinit(b) == del_brcm(b, Held("nas"))

\* the start failed, or the main loop sees the flag: eapd_wksp_cleanup
Cleanup ==
    /\ phase = "failed" \/ (phase = "running" /\ shutdown)
    /\ phase' = "stopped"
    /\ brcm' = nas_app_deinit(ses_app_deinit(wps_app_deinit(brcm)))
    /\ cbs' = [a \in Apps |-> <<>>] /\ appSocket' = [a \in Apps |-> FALSE]
    /\ UNCHANGED <<todo, events, dif, twice, conf, ifnames, mask, shutdown>>

Done == phase = "stopped" /\ UNCHANGED vars

\* what eapd's one thread does
Thread == \/ Config \/ InitFails \/ InitEvents \/ InitDone \/ Dispatch \/ SelectEnds \/ Cleanup
          \/ \E ok \in BOOLEAN : OpenSocket(ok) \/ OpenDif(ok)
          \/ \E i \in AllIfs : EventName(i)
          \/ \E i \in DynIfs : AddDif(i) \/ DeleteDif(i)

Next == Thread \/ Term \/ Done

\* the thread runs; select() returns at least once a second, and the loop tests the flag
Spec == Init /\ [][Next]_vars /\ WF_vars(Thread)

-----------------------------------------------------------------------------
(* Properties *)

\* Reference counts of the raw sockets (eapd_add_brcm, eapd_del_brcm): a socket
\* is open as long as control blocks use it, whichever app they belong to, and no
\* two sockets in use are for one interface, so nothing is closed under an app.
\* Its count is the number of its users, and it is closed with the last of them,
\* unless nas_open_dif_sockets was called for a control block that had it already.
SocketsCounted ==
    \A k \in DOMAIN brcm :
        LET users == {x \in Apps \X {brcm[k].ifname} :
                        x[2] \in DOMAIN cbs[x[1]] /\ cbs[x[1]][x[2]] = k} IN
        /\ brcm[k].count >= Cardinality(users)
        /\ brcm[k].ifname \notin twice => brcm[k].count = Cardinality(users)
        /\ brcm[k].open <=> brcm[k].count > 0
        /\ \A j \in DOMAIN brcm : (j # k /\ brcm[j].count > 0 /\ brcm[k].count > 0)
                                   => brcm[j].ifname # brcm[k].ifname

\* Event masks (event_init): interfaces of a radio share one mask, which is read,
\* added to and written name by name, each of which may fail; whenever the main
\* loop is back, every name that could be written has its apps' events in the
\* mask, and no name that came later or failed has taken them out.
EventsCover ==
    phase \in {"running", "select"} =>
        \A a \in Apps, i \in AllIfs \ unserved :
            NvName[i] \in ifnames[a] => bitvec[a] \subseteq mask[Unit[i]]

\* SIGTERM (eapd_hup_hdlr), at any point of the start, of event_init and of the
\* main loop, ends eapd with every raw socket closed but those counted twice.
ShutdownCompletes ==
    shutdown ~> (phase = "stopped" /\ \A k \in DOMAIN brcm : brcm[k].open => brcm[k].ifname \in twice)
=============================================================================
