---------------------------- MODULE ShadowNetdev ----------------------------
(***************************************************************************)
(* wl_shadow_netdev.c: each network interface is a real net_device plus a  *)
(* shadow in 2.6.36 layout, the only one the blob sees.  Readiness bits,   *)
(* the name, the multicast mode and the state of the transmit queue are    *)
(* copied between the two at the moments the code chooses; the properties  *)
(* say what the blob and the kernel may believe of each other in between.  *)
(***************************************************************************)
EXTENDS FiniteSets

CONSTANTS
    Devs,        \* struct wl_netdev_shadow objects, each with its real device
    Threads,     \* blob code that stops and wakes transmit queues
    NoDev,
    Serialised   \* TRUE: the blob never stops and wakes one queue at once

ASSUME NetdevAssumption == NoDev \notin Devs /\ Serialised \in BOOLEAN

VARIABLES
    reg,         \* life of each device, see Lives
    opening,     \* devices inside __dev_open, before ndo_open has returned
    realStart,   \* __LINK_STATE_START of the real device
    realPresent, \* __LINK_STATE_PRESENT of the real device
    shStart,     \* the same bits of the shadow's state word
    shPresent,
    realOff,     \* the real transmit queue is stopped
    shOff,       \* __QUEUE_STATE_XOFF of the fake queue
    realName,    \* "template", "vif" (the blob's choice) or "expanded"
    shName,
    mcast,       \* devices with multicast addresses (netdev_mc_count > 0)
    allmulti,    \* devices with real->allmulti > 0
    shMulti,     \* devices whose shadow has allmulti > 0
    pc, dev, op, \* a bit operation in progress: where, on which queue, which
    prev,        \* threads whose local prev is 1
    unloaded     \* wl_shadow_netdev_exit has run

state == <<realStart, realPresent, shStart, shPresent>>
queues == <<realOff, shOff>>
names == <<realName, shName>>
modes == <<mcast, allmulti, shMulti>>
calls == <<pc, dev, op, prev>>
devVars == <<reg, opening, state, queues, names, modes, calls, unloaded>>

Lives == {"none", "allocated", "registered", "unregistering", "unregistered"}
Names == {"template", "vif", "expanded"}

DevTypeOK ==
    /\ reg \in [Devs -> Lives]
    /\ opening \in SUBSET Devs
    /\ realStart \in SUBSET Devs /\ realPresent \in SUBSET Devs
    /\ shStart \in SUBSET Devs /\ shPresent \in SUBSET Devs
    /\ realOff \in SUBSET Devs /\ shOff \in SUBSET Devs
    /\ realName \in [Devs -> Names] /\ shName \in [Devs -> Names]
    /\ mcast \in SUBSET Devs /\ allmulti \in SUBSET Devs
    /\ shMulti \in SUBSET Devs
    /\ pc \in [Threads -> {"idle", "test", "write", "apply"}]
    /\ dev \in [Threads -> Devs \cup {NoDev}]
    /\ op \in [Threads -> {"set", "test_and_clear"}]
    /\ prev \in SUBSET Threads
    /\ unloaded \in BOOLEAN

DevInit ==
    /\ reg = [d \in Devs |-> "none"]
    /\ opening = {}
    /\ realStart = {} /\ realPresent = {} /\ shStart = {} /\ shPresent = {}
    /\ realOff = {} /\ shOff = {}
    /\ realName = [d \in Devs |-> "template"]
    /\ shName = [d \in Devs |-> "template"]
    /\ mcast = {} /\ allmulti = {} /\ shMulti = {}
    /\ pc = [c \in Threads |-> "idle"]
    /\ dev = [c \in Threads |-> NoDev]
    /\ op = [c \in Threads |-> "set"]
    /\ prev = {}
    /\ unloaded = FALSE

\* On the list wl_netdev_shadows.
Listed(d) == reg[d] # "none"

\* A bit operation on d's queue is in progress.
Busy(d) == \E c \in Threads : pc[c] # "idle" /\ dev[c] = d

\* S with d in it exactly if b holds.
Put(S, d, b) == IF b THEN S \cup {d} ELSE S \ {d}

\* Readiness of a device that no kernel operation is in the middle of.
Settled(d) == reg[d] = "registered" /\ d \notin opening

-----------------------------------------------------------------------------
(* Faulty variants, each rejected by a property *)

wants_multicast_allmulti_only(d) == d \in allmulti

push_name_never(d) == realName[d]

wake_always_skipped(c) == FALSE

UnregisterEnd_no_sync(d) ==
    /\ reg[d] = "unregistering"
    /\ reg' = [reg EXCEPT ![d] = "unregistered"]
    /\ UNCHANGED <<opening, state, queues, names, modes, calls, unloaded>>

BitopTest_already(c) ==
    /\ pc[c] = "test"
    /\ prev' = Put(prev, c, op[c] = "set")
    /\ pc' = [pc EXCEPT ![c] = "write"]
    /\ UNCHANGED <<reg, opening, state, queues, names, modes, dev, op, unloaded>>

-----------------------------------------------------------------------------
(* Allocation and registration *)

\* A device object is freed: whatever it held is gone.
free_netdev(d) ==
    /\ reg' = [reg EXCEPT ![d] = "none"]
    /\ realStart' = realStart \ {d} /\ realPresent' = realPresent \ {d}
    /\ shStart' = shStart \ {d} /\ shPresent' = shPresent \ {d}
    /\ realOff' = realOff \ {d} /\ shOff' = shOff \ {d}
    /\ realName' = [realName EXCEPT ![d] = "template"]
    /\ shName' = [shName EXCEPT ![d] = "template"]
    /\ mcast' = mcast \ {d} /\ allmulti' = allmulti \ {d}
    /\ shMulti' = shMulti \ {d}

\* wl_shim_alloc_netdev_mq (a failed allocation changes nothing).
Alloc(d) ==
    /\ ~unloaded /\ reg[d] = "none"
    /\ reg' = [reg EXCEPT ![d] = "allocated"]
    /\ UNCHANGED <<opening, state, queues, names, modes, calls, unloaded>>

\* _wl_add_if renames a virtual interface in the shadow before registering it.
BlobRename(d) ==
    /\ reg[d] = "allocated"
    /\ shName' = [shName EXCEPT ![d] = "vif"]
    /\ UNCHANGED <<reg, opening, state, queues, realName, modes, calls, unloaded>>

\* The shadow's state word becomes the masked real one.
shadow_sync_state(d, start, present) ==
    /\ shStart' = Put(shStart, d, start)
    /\ shPresent' = Put(shPresent, d, present)

\* The name the shadow carries, if the blob changed it since allocation.
push_name(d) == IF shName[d] # realName[d] THEN shName[d] ELSE realName[d]

\* register_netdev expands a template and keeps a plain name.
register_name(name) == IF name = "template" THEN "expanded" ELSE name

\* wl_shim_register_netdev, successful: the kernel sets PRESENT, the shadow
\* gets the state and the final name.
Register(d) ==
    /\ reg[d] = "allocated"
    /\ reg' = [reg EXCEPT ![d] = "registered"]
    /\ LET name == register_name(push_name(d)) IN
         /\ realName' = [realName EXCEPT ![d] = name]
         /\ shName' = [shName EXCEPT ![d] = name]
    /\ realPresent' = realPresent \cup {d}
    /\ shadow_sync_state(d, d \in realStart, TRUE)
    /\ UNCHANGED <<opening, realStart, queues, modes, calls, unloaded>>

\* The same when register_netdev fails: only the name has been pushed.
RegisterFail(d) ==
    /\ reg[d] = "allocated"
    /\ realName' = [realName EXCEPT ![d] = push_name(d)]
    /\ UNCHANGED <<reg, opening, state, queues, shName, modes, calls, unloaded>>

-----------------------------------------------------------------------------
(* Open and stop, driven by the kernel *)

\* __dev_open sets START and calls wl_tramp_open, which copies the state and
\* calls the blob's ndo_open.
OpenBegin(d) ==
    /\ Settled(d) /\ d \notin realStart
    /\ opening' = opening \cup {d}
    /\ realStart' = realStart \cup {d}
    /\ shadow_sync_state(d, TRUE, d \in realPresent)
    /\ UNCHANGED <<reg, realPresent, queues, names, modes, calls, unloaded>>

\* real->allmulti, plus one if there are multicast addresses.
wants_multicast(d) == d \in allmulti \/ d \in mcast

\* ndo_open succeeded; the kernel then calls wl_tramp_set_rx_mode.
OpenOk(d) ==
    /\ d \in opening
    /\ opening' = opening \ {d}
    /\ shMulti' = Put(shMulti, d, wants_multicast(d))
    /\ UNCHANGED <<reg, state, queues, names, mcast, allmulti, calls, unloaded>>

\* ndo_open failed: __dev_open clears START and calls nothing.
OpenFail(d) ==
    /\ d \in opening
    /\ opening' = opening \ {d}
    /\ realStart' = realStart \ {d}
    /\ UNCHANGED <<reg, realPresent, shStart, shPresent, queues, names, modes,
                   calls, unloaded>>

\* __dev_close clears START and calls wl_tramp_stop.
Stop(d) ==
    /\ Settled(d) /\ d \in realStart
    /\ realStart' = realStart \ {d}
    /\ shadow_sync_state(d, FALSE, d \in realPresent)
    /\ UNCHANGED <<reg, opening, realPresent, queues, names, modes, calls, unloaded>>

\* The kernel's multicast list or allmulti count of d changes; it calls
\* wl_tramp_set_rx_mode only while the device is up.
KernelMulticast(d) ==
    /\ Settled(d)
    /\ \/ mcast' \in {mcast \cup {d}, mcast \ {d}} /\ allmulti' = allmulti
       \/ allmulti' \in {allmulti \cup {d}, allmulti \ {d}} /\ mcast' = mcast
    /\ shMulti' = IF d \in realStart THEN Put(shMulti, d, wants_multicast(d)')
                                     ELSE shMulti
    /\ UNCHANGED <<reg, opening, state, queues, names, calls, unloaded>>

-----------------------------------------------------------------------------
(* Unregistration, release and unload *)

\* wl_shim_unregister_netdev, its call of unregister_netdev: the device is
\* closed if it is up.  Whether PRESENT is cleared is the kernel's affair.
UnregisterBegin(d) ==
    /\ Settled(d)
    /\ reg' = [reg EXCEPT ![d] = "unregistering"]
    /\ realStart' = realStart \ {d}
    /\ realPresent' \in {realPresent, realPresent \ {d}}
    /\ IF d \in realStart THEN shadow_sync_state(d, FALSE, d \in realPresent)
                          ELSE UNCHANGED <<shStart, shPresent>>
    /\ UNCHANGED <<opening, queues, names, modes, calls, unloaded>>

\* Its trailing shadow_sync_state.
UnregisterEnd(d) ==
    /\ reg[d] = "unregistering"
    /\ reg' = [reg EXCEPT ![d] = "unregistered"]
    /\ shadow_sync_state(d, d \in realStart, d \in realPresent)
    /\ UNCHANGED <<opening, realStart, realPresent, queues, names, modes, calls,
                   unloaded>>

\* wl_shim_free_netdev.  The blob does not free a device it is still using.
Free(d) ==
    /\ reg[d] \in {"allocated", "unregistered"} /\ ~Busy(d)
    /\ free_netdev(d)
    /\ UNCHANGED <<opening, calls, unloaded>>

\* wl_shadow_netdev_exit: everything left is reclaimed.  The blob's cleanup has
\* unregistered its interfaces and stopped its threads.
Exit ==
    /\ ~unloaded
    /\ \A d \in Devs : reg[d] \in {"none", "allocated", "unregistered"} /\ ~Busy(d)
    /\ reg' = [d \in Devs |-> "none"]
    /\ realStart' = {} /\ realPresent' = {} /\ shStart' = {} /\ shPresent' = {}
    /\ realOff' = {} /\ shOff' = {}
    /\ realName' = [d \in Devs |-> "template"]
    /\ shName' = [d \in Devs |-> "template"]
    /\ mcast' = {} /\ allmulti' = {} /\ shMulti' = {}
    /\ unloaded' = TRUE
    /\ UNCHANGED <<opening, calls>>

Unloaded == unloaded /\ UNCHANGED devVars

-----------------------------------------------------------------------------
(* The blob's netif_stop_queue and netif_wake_queue:
   wl_shadow_netdev_txq_bitop on bit 0 of the fake queue's state *)

\* The lookup under wl_netdev_lock.
BitopFind(c, d, o) ==
    /\ pc[c] = "idle" /\ Listed(d) /\ ~unloaded
    /\ Serialised => ~Busy(d)
    /\ pc' = [pc EXCEPT ![c] = "test"]
    /\ dev' = [dev EXCEPT ![c] = d]
    /\ op' = [op EXCEPT ![c] = o]
    /\ UNCHANGED <<reg, opening, state, queues, names, modes, prev, unloaded>>

\* prev = test_bit(...)
BitopTest(c) ==
    /\ pc[c] = "test"
    /\ prev' = Put(prev, c, dev[c] \in shOff)
    /\ pc' = [pc EXCEPT ![c] = "write"]
    /\ UNCHANGED <<reg, opening, state, queues, names, modes, dev, op, unloaded>>

\* clear_bit or set_bit on the shadow's own copy.
BitopWrite(c) ==
    /\ pc[c] = "write"
    /\ shOff' = Put(shOff, dev[c], op[c] = "set")
    /\ pc' = [pc EXCEPT ![c] = "apply"]
    /\ UNCHANGED <<reg, opening, state, realOff, names, modes, dev, op, prev,
                   unloaded>>

\* netif_tx_wake_queue is called only if the bit was set before.
wakes(c) == c \in prev

\* The real queue follows.
BitopApply(c) ==
    /\ pc[c] = "apply"
    /\ realOff' = CASE op[c] = "set" -> realOff \cup {dev[c]}
                    [] op[c] # "set" /\ wakes(c) -> realOff \ {dev[c]}
                    [] OTHER -> realOff
    /\ pc' = [pc EXCEPT ![c] = "idle"]
    /\ dev' = [dev EXCEPT ![c] = NoDev]
    /\ op' = [op EXCEPT ![c] = "set"]
    /\ prev' = prev \ {c}
    /\ UNCHANGED <<reg, opening, state, shOff, names, modes, unloaded>>

BitopStep(c) == BitopTest(c) \/ BitopWrite(c) \/ BitopApply(c)

DevNext ==
    \/ \E d \in Devs :
         \/ Alloc(d) \/ BlobRename(d) \/ Register(d) \/ RegisterFail(d)
         \/ OpenBegin(d) \/ OpenOk(d) \/ OpenFail(d) \/ Stop(d)
         \/ KernelMulticast(d)
         \/ UnregisterBegin(d) \/ UnregisterEnd(d) \/ Free(d)
    \/ \E c \in Threads, d \in Devs : \E o \in {"set", "test_and_clear"} :
         BitopFind(c, d, o)
    \/ \E c \in Threads : BitopStep(c)
    \/ Exit
    \/ Unloaded

DevSpec == DevInit /\ [][DevNext]_devVars

\* A bit operation, once begun, runs to its end.
FairSpec == DevSpec /\ \A c \in Threads : WF_devVars(BitopStep(c))

-----------------------------------------------------------------------------
(* Properties *)

\* The blob frees every frame received for an interface whose shadow is not
\* marked START and PRESENT ("clients could never complete the WPA handshake"):
\* a device that is up is marked so, however often it is opened and closed.
ReadySeen ==
    \A d \in Devs : reg[d] = "registered" =>
        /\ d \in shPresent
        /\ d \in realStart => d \in shStart

\* Once unregister_netdev has returned the blob sees no running interface, so
\* its receive path hands nothing to a device that is going away, even if an
\* open had failed before.
NoReceiveAfterUnregister ==
    \A d \in shStart : reg[d] \in {"registered", "unregistering"}

\* What the shadow tells the blob's receive path (shadow_sync_state) is neither
\* too little while the device is up nor too much once it is gone.
ReadinessMirrored == ReadySeen /\ NoReceiveAfterUnregister

\* While no stop or wake is under way, the blob and the kernel agree on whether
\* the queue is stopped: a queue that only the kernel holds stopped would never
\* be woken, for the blob wakes only what it sees as stopped.
XoffMirrored ==
    \A d \in Devs : ~Busy(d) => (d \in shOff <=> d \in realOff)

\* A wake of a stopped queue gets the real queue running (or the device is gone).
WakeReaches ==
    \A c \in Threads, d \in Devs :
        (pc[c] = "test" /\ dev[c] = d /\ op[c] = "test_and_clear") ~> d \notin realOff

\* A registered interface has the name the blob gave it, where it gave one, and
\* the blob and the kernel know it by the same name; wlconf, nas and eapd look
\* interfaces up by it.
NamesAgree ==
    [][\A d \in Devs :
          /\ reg[d] # "registered" /\ reg'[d] = "registered" /\ shName[d] = "vif"
               => realName'[d] = "vif"
          /\ reg'[d] = "registered" => realName'[d] = shName'[d]]_devVars

\* While an interface is up and the kernel expects multicast frames on it, the
\* blob's filter admits them all, including addresses added while it was down.
MulticastAdmitted ==
    \A d \in mcast \cup allmulti : Settled(d) /\ d \in realStart => d \in shMulti

=============================================================================
