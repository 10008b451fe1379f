----------------------------- MODULE ShimModule -----------------------------
(***************************************************************************)
(* The life of the module: wl_shim_init and wl_shim_exit                   *)
(* (wl_shim_removed.c), the PCI driver shadow they stand on                *)
(* (wl_shadow_pci.c), the nvram copy (wl_shadow_nvram.c) and the work      *)
(* items of the blob (schedule_work).  It composes the shadow layers at    *)
(* the level of what they own: a device of the driver has a pci_dev        *)
(* shadow, a net_device, a timer map and a tasklet map; ShadowTimer,       *)
(* ShadowTasklet, ShadowSkb and ShadowNetdev have the inside of each.      *)
(*                                                                         *)
(* The blob is external.  Its init registers the PCI driver and returns    *)
(* the result; its probe makes one of each object, its remove unregisters  *)
(* and frees the net_device, deletes the timer and kills the tasklet.      *)
(***************************************************************************)
EXTENDS Integers, FiniteSets

CONSTANTS Devs,        \* the cards that the driver's id table matches
          CPUs,        \* the processors that may schedule the blob's work
          MaxLoads,    \* bound: how often the module is loaded
          SerialFirst  \* a work item is handed over for the first time by one CPU

VARIABLES mod,       \* where the module is in its life
          loads,     \* how often it was loaded
          failed,    \* how many loads failed once the cache was made
          caches,    \* slab caches that exist under the name wl_skb_shadow
          live,      \* wl_skb_live # 0: a packet shadow that nobody will free
          leaky,     \* how many unloads met a live shadow
          blob_drv, ids,  \* wl_pci
          core,      \* wl_pci.real is registered with the PCI core
          todo,      \* cards the core has still to offer to the driver
          dev,       \* what the core thinks of each card
          drvdata,   \* the pci_dev shadow that the card points at
          nvram,     \* wl_nvram_buf is loaded
          net, timer, tasklet,  \* the objects of the blob for each card
          oops       \* something used what no longer exists

life == <<mod, loads, failed, caches, live, leaky, blob_drv, ids, core, todo, dev, drvdata, nvram, net, timer,
          tasklet, oops>>
slab == <<caches, live, leaky>>

VARIABLES wdata,     \* work_struct.data of one item: "2.6.36", "off" or "queued"
          onqueue,   \* how often the item is on the list of system_wq
          cpu        \* what each CPU does in schedule_work

work == <<wdata, onqueue, cpu>>
shimVars == <<life, work>>

Objects == <<net, timer, tasklet>>

ShimInit ==
    /\ mod = "out" /\ loads = 0 /\ failed = 0 /\ caches = 0
    /\ live = FALSE /\ leaky = 0
    /\ blob_drv = FALSE /\ ids = FALSE /\ core = FALSE
    /\ todo = {}
    /\ dev = [d \in Devs |-> "free"]
    /\ drvdata = [d \in Devs |-> FALSE]
    /\ nvram = FALSE
    /\ net = [d \in Devs |-> "none"]
    /\ timer = [d \in Devs |-> "none"]
    /\ tasklet = [d \in Devs |-> "none"]
    /\ oops = FALSE
    /\ wdata = "2.6.36" /\ onqueue = 0
    /\ cpu = [c \in CPUs |-> "idle"]

(***************************************************************************)
(* Loading.                                                                *)
(***************************************************************************)
\* wl_shadow_skb_init makes the cache or ends the load.
wl_shim_init ==
    /\ mod = "out" /\ loads < MaxLoads
    /\ loads' = loads + 1
    /\ live' = FALSE
    /\ \/ mod' = "init" /\ caches' = caches + 1
       \/ UNCHANGED <<mod, caches>>
    /\ UNCHANGED <<failed, leaky, blob_drv, ids, core, todo, dev, drvdata, nvram, Objects, oops, work>>

\* A load that fails after the cache was made: module_exit does not run.
LoadFails ==
    /\ mod' = "out"
    /\ failed' = failed + 1
    /\ UNCHANGED <<core, todo>>

\* __pci_register_driver: refused while a driver is there, undone when the id
\* table or the core fails, else the core offers every card.
wl_shim___pci_register_driver ==
    /\ mod = "init"
    /\ \/ LoadFails /\ UNCHANGED blob_drv /\ ids' = (ids /\ blob_drv)
       \/ /\ ~ blob_drv
          /\ mod' = "live"
          /\ blob_drv' = TRUE /\ ids' = TRUE /\ core' = TRUE
          /\ todo' = Devs
          /\ UNCHANGED failed
    /\ UNCHANGED <<loads, slab, dev, drvdata, nvram, Objects, oops, work>>

(***************************************************************************)
(* The cards.  sysfs may unbind one and bind it again at any time.         *)
(***************************************************************************)
\* wl_pci_probe_tramp, up to the blob: the shadow is allocated and the card
\* points at it, or the probe fails with ENOMEM.
ProbeStart(d) ==
    /\ core /\ dev[d] = "free"
    /\ mod = "live"
    /\ todo' = todo \ {d}
    /\ \/ /\ dev' = [dev EXCEPT ![d] = "probing"]
          /\ drvdata' = [drvdata EXCEPT ![d] = TRUE]
       \/ d \in todo /\ UNCHANGED <<dev, drvdata>>
    /\ oops' = (oops \/ ~ blob_drv \/ ~ ids)
    /\ UNCHANGED <<mod, loads, failed, slab, blob_drv, ids, core, nvram, Objects, work>>

\* wl_nvram_load, from nvram_init, nvram_get and nvram_getall: once it has a
\* buffer it keeps it; no flash contents or no memory leave it without.
wl_nvram_load == nvram' \in {TRUE, nvram}

\* A failed probe that leaves the card pointing at its shadow.
ProbeEnd_keeps(d) ==
    /\ dev[d] = "probing"
    /\ dev' = [dev EXCEPT ![d] = "free"]
    /\ UNCHANGED <<mod, loads, failed, slab, blob_drv, ids, core, todo, drvdata, nvram, Objects,
                   oops, work>>

\* The blob's probe and what wl_pci_probe_tramp makes of its answer.  A failed
\* probe leaves its timer map: 2.6.36 has no destroy_timer.
ProbeEnd(d) ==
    /\ dev[d] = "probing"
    /\ wl_nvram_load
    /\ \/ /\ nvram'
          /\ dev' = [dev EXCEPT ![d] = "bound"]
          /\ net' = [net EXCEPT ![d] = "registered"]
          /\ timer' = [timer EXCEPT ![d] = "idle"]
          /\ tasklet' = [tasklet EXCEPT ![d] = "idle"]
          /\ UNCHANGED drvdata
       \/ /\ dev' = [dev EXCEPT ![d] = "free"]
          /\ drvdata' = [drvdata EXCEPT ![d] = FALSE]
          /\ timer' = [timer EXCEPT ![d] = "idle"]
          /\ UNCHANGED <<net, tasklet>>
    /\ UNCHANGED <<mod, loads, failed, slab, blob_drv, ids, core, todo, oops, work>>

\* A card is removed by sysfs, or by the core while it unregisters the driver.
wl_pci_remove_tramp(d) ==
    /\ core /\ dev[d] = "bound"
    /\ mod \in {"live", "unregister"}
    /\ oops' = (oops \/ ~ blob_drv)    \* bdrv_remove(NULL)
    /\ IF drvdata[d]
       THEN /\ net' = [net EXCEPT ![d] = "none"]
            /\ timer' = [timer EXCEPT ![d] = "idle"]
            /\ tasklet' = [tasklet EXCEPT ![d] = "none"]
       ELSE UNCHANGED Objects
    /\ dev' = [dev EXCEPT ![d] = "free"]
    /\ drvdata' = [drvdata EXCEPT ![d] = FALSE]
    /\ UNCHANGED <<mod, loads, failed, slab, blob_drv, ids, core, todo, nvram, work>>

\* Only a blob with a shutdown handler gets the trampoline; it stops the card.
wl_pci_shutdown_tramp(d) ==
    /\ core /\ dev[d] = "bound" /\ mod = "live"
    /\ oops' = (oops \/ ~ blob_drv)
    /\ timer' = [timer EXCEPT ![d] = IF drvdata[d] THEN "idle" ELSE @]
    /\ UNCHANGED <<mod, loads, failed, slab, blob_drv, ids, core, todo, dev, drvdata, nvram, net,
                   tasklet, work>>

(***************************************************************************)
(* What goes on meanwhile: packets, interrupts, timers.                    *)
(***************************************************************************)
\* A packet handed to a registered interface is wrapped from the cache; if the
\* blob refuses it, wl_tramp_start_xmit keeps the shadow ("Leak one and say so").
NoCache == caches = failed + leaky

Transmit(d) ==
    /\ net[d] = "registered"
    /\ live' \in {live, TRUE}
    /\ oops' = (oops \/ NoCache)
    /\ UNCHANGED <<mod, loads, failed, caches, leaky, blob_drv, ids, core, todo, dev, drvdata, nvram,
                   Objects, work>>

\* The interrupt handler and the blob's threads arm the timer and the tasklet.
Interrupt(d) ==
    /\ dev[d] = "bound"
    /\ \/ timer' = [timer EXCEPT ![d] = "armed"] /\ UNCHANGED tasklet
       \/ tasklet' = [tasklet EXCEPT ![d] = "armed"] /\ UNCHANGED timer
    /\ UNCHANGED <<mod, loads, failed, slab, blob_drv, ids, core, todo, dev, drvdata, nvram, net,
                   oops, work>>

\* add_timer and tasklet_schedule of something unmapped do nothing.
armed(f, S) == [d \in Devs |-> IF d \in S /\ f[d] # "none" THEN "armed" ELSE f[d]]

\* A timer fires; its callback arms what it likes of its own card.
TimerFires(d) ==
    /\ timer[d] = "armed"
    /\ \E T, K \in SUBSET {d} :
         /\ timer' = armed([timer EXCEPT ![d] = "idle"], T)
         /\ tasklet' = armed(tasklet, K)
    /\ UNCHANGED <<mod, loads, failed, slab, blob_drv, ids, core, todo, dev, drvdata, nvram, net,
                   oops, work>>

\* A tasklet runs and gives packets to its interface.
TaskletRuns(d) ==
    /\ tasklet[d] = "armed"
    /\ \E T \in SUBSET {d} : timer' = armed(timer, T)
    /\ tasklet' = [tasklet EXCEPT ![d] = "idle"]
    /\ oops' = (oops \/ net[d] # "registered" \/ NoCache)
    /\ UNCHANGED <<mod, loads, failed, slab, blob_drv, ids, core, todo, dev, drvdata, nvram, net, work>>

(***************************************************************************)
(* Unloading: the blob's cleanup, then layer after layer.                  *)
(***************************************************************************)
wl_shim_exit ==
    /\ mod = "live" /\ todo = {}
    /\ \A d \in Devs : dev[d] # "probing"
    /\ mod' = IF blob_drv THEN "unregister" ELSE "timers"
    /\ UNCHANGED <<loads, failed, slab, blob_drv, ids, core, todo, dev, drvdata, nvram, Objects,
                   oops, work>>

\* The driver forgotten before the core has removed the cards.
wl_shim_pci_unregister_driver_early ==
    /\ mod = "unregister"
    /\ ids' = FALSE /\ blob_drv' = FALSE
    /\ IF \A d \in Devs : dev[d] = "free"
       THEN mod' = "timers" /\ core' = FALSE
       ELSE UNCHANGED <<mod, core>>
    /\ UNCHANGED <<loads, failed, slab, todo, dev, drvdata, nvram, Objects, oops, work>>

\* pci_unregister_driver returns when the core has removed every card.
wl_shim_pci_unregister_driver ==
    /\ mod = "unregister"
    /\ \A d \in Devs : dev[d] = "free"
    /\ core' = FALSE /\ ids' = FALSE /\ blob_drv' = FALSE
    /\ mod' = "timers"
    /\ UNCHANGED <<loads, failed, slab, todo, dev, drvdata, nvram, Objects, oops, work>>

\* wl_shadow_timer_exit: timer_delete_sync, then out of the table and freed.  A
\* callback of the same card that still runs could arm the timer between the two.
TimerExit(d) ==
    /\ mod = "timers" /\ timer[d] # "none"
    /\ timer' = [timer EXCEPT ![d] = "none"]
    /\ oops' = (oops \/ timer[d] = "armed" \/ tasklet[d] = "armed")
    /\ UNCHANGED <<mod, loads, failed, slab, blob_drv, ids, core, todo, dev, drvdata, nvram, net,
                   tasklet, work>>

\* The layers in the order of wl_shim_exit: tasklets, packets, net devices,
\* nvram, PCI.  wl_shadow_skb_exit keeps a cache with live shadows in it.
LayersExit ==
    /\ mod = "timers" /\ \A d \in Devs : timer[d] = "none"
    /\ tasklet' = [d \in Devs |-> "none"]
    /\ IF live THEN leaky' = leaky + 1 /\ UNCHANGED caches
               ELSE caches' = caches - 1 /\ UNCHANGED leaky
    /\ oops' = (oops \/ \E d \in Devs : net[d] = "registered")  \* free_netdev of a live device
    /\ net' = [d \in Devs |-> "none"]
    /\ nvram' = FALSE
    /\ ids' = FALSE /\ blob_drv' = FALSE
    /\ mod' = "out"
    /\ UNCHANGED <<loads, failed, live, core, todo, dev, drvdata, timer, work>>

(***************************************************************************)
(* schedule_work on an item that the blob laid out by hand.                *)
(***************************************************************************)
\* wl_schedule_task makes a new item.
NewWork ==
    /\ onqueue = 0 /\ \A c \in CPUs : cpu[c] = "idle"
    /\ wdata' = "2.6.36"
    /\ UNCHANGED <<onqueue, cpu, life>>

\* The item is reset whatever it holds.
wl_fixup_work_data_always(data) == "fix"

\* wl_fixup_work_data: only data that no 6.12 kernel has written is replaced.
wl_fixup_work_data(data) == IF data = "2.6.36" THEN "fix" ELSE "queue"

schedule_work(c) ==
    /\ mod = "live" /\ cpu[c] = "idle"
    /\ SerialFirst /\ wdata = "2.6.36" => \A e \in CPUs : cpu[e] = "idle"
    /\ cpu' = [cpu EXCEPT ![c] = wl_fixup_work_data(wdata)]
    /\ UNCHANGED <<wdata, onqueue, life>>

FixWork(c) ==
    /\ cpu[c] = "fix"
    /\ wdata' = "off"
    /\ cpu' = [cpu EXCEPT ![c] = "queue"]
    /\ UNCHANGED <<onqueue, life>>

\* queue_work_on: a pending item stays where it is; 2.6.36 data reads as a
\* disabled item, which is refused.
queue_work_on(c) ==
    /\ cpu[c] = "queue"
    /\ cpu' = [cpu EXCEPT ![c] = "idle"]
    /\ wdata' = IF wdata = "2.6.36" THEN "off" ELSE "queued"
    /\ onqueue' = IF wdata = "off" THEN onqueue + 1 ELSE onqueue
    /\ UNCHANGED life

RunWork ==
    /\ onqueue > 0
    /\ onqueue' = onqueue - 1
    /\ wdata' = "off"
    /\ UNCHANGED <<cpu, life>>

ShimNext ==
    \/ wl_shim_init \/ wl_shim___pci_register_driver \/ wl_shim_exit
    \/ wl_shim_pci_unregister_driver \/ LayersExit
    \/ \E d \in Devs : \/ ProbeStart(d) \/ ProbeEnd(d) \/ wl_pci_remove_tramp(d)
                       \/ wl_pci_shutdown_tramp(d) \/ Transmit(d) \/ Interrupt(d)
                       \/ TimerFires(d) \/ TaskletRuns(d) \/ TimerExit(d)
    \/ NewWork \/ RunWork
    \/ \E c \in CPUs : schedule_work(c) \/ FixWork(c) \/ queue_work_on(c)

ShimSpec == ShimInit /\ [][ShimNext]_shimVars

(***************************************************************************)
(* Properties.                                                             *)
(***************************************************************************)
\* No trampoline runs without wl_pci.blob_drv, no packet or tasklet meets a
\* destroyed cache or interface, no timer is freed while a callback could still
\* arm it, and no registered net_device is freed: the order in which
\* wl_shim_exit takes the layers down, with cards bound and unbound until the end.
TeardownSafe == ~ oops

\* An unloaded module has left nothing behind, whatever cards came and went and
\* however a load failed, except the slab caches of loads that failed after
\* wl_shadow_skb_init, which nothing destroys, and of unloads that a live shadow
\* met, which wl_shadow_skb_exit keeps on purpose.
UnloadClean ==
    mod = "out" =>
        /\ ~ blob_drv /\ ~ ids /\ ~ core /\ ~ nvram
        /\ \A d \in Devs : /\ dev[d] = "free" /\ ~ drvdata[d]
                           /\ net[d] = "none" /\ timer[d] = "none" /\ tasklet[d] = "none"
        /\ caches = failed + leaky

\* schedule_work leaves the item on the queue, and never on it twice.
WorkQueued ==
    [][/\ onqueue' <= 1
       /\ \A c \in CPUs : cpu[c] = "queue" /\ cpu'[c] = "idle" => onqueue' = 1]_shimVars
=============================================================================
