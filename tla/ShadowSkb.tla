------------------------------ MODULE ShadowSkb ------------------------------
(***************************************************************************)
(* wl_shadow_skb.c and the packet functions of linux_osl.c: every packet   *)
(* the wl object handles is a real sk_buff plus a shadow in 2.6.36 layout. *)
(* The blob moves data, tail and len of the shadow; the kernel knows only  *)
(* the real one.  A shadow is made where a packet crosses into the blob    *)
(* (ndo_start_xmit, osl_pktget, osl_pktdup, dev_alloc_skb) and released    *)
(* where it leaves (netif_rx, osl_pktfree).                                *)
(*                                                                         *)
(* Packets are linear.  Lengths count units of header or payload.          *)
(***************************************************************************)
EXTENDS Integers, FiniteSets

CONSTANTS
    Skbs,        \* real sk_buffs
    Bufs,        \* data buffers; a clone shares its original's
    Shadows,     \* struct wl_skb_shadow objects
    None,
    BufLen,      \* bound: units in a data buffer (head to end)
    Headroom,    \* units reserved in front of a new packet's data
    MaxRefused   \* bound: transmits the blob refuses in one behaviour

ASSUME SkbAssumption ==
    /\ None \notin Skbs \cup Bufs
    /\ BufLen \in Nat /\ Headroom \in 0..BufLen
    /\ MaxRefused \in Nat

VARIABLES
    place,    \* who owns each skb: "free", "kernel" or "blob"
    buf,      \* its data buffer
    geo,      \* its [data, tail, len], relative to head
    real,     \* sh->real, None for an object still in the slab cache
    held,     \* shadows the blob may still use
    head,     \* the buffer its s236 points into
    view,     \* [data, tail, len] in the shadow's s236
    intent,   \* history: what the blob's own calls have made of the packet
    cloned,   \* shadows whose CLONED bit is set: the blob's PKTSHARED()
    counted,  \* shadows counted in osh->pktalloced
    dupped,   \* buffers that osl_pktdup has shared
    live,     \* wl_skb_live
    pktalloced,
    notok,    \* wl_xmit_notok
    cache     \* "up", "destroyed" or "kept": wl_skb_cache

kernelSide == <<place, buf, geo>>
shadowSide == <<head, view, intent>>
vars == <<kernelSide, shadowSide, real, held, cloned, counted, dupped, live,
          pktalloced, notok, cache>>

Geometry == [data : 0..BufLen, tail : 0..BufLen, len : 0..BufLen]
NoGeometry == [data |-> 0, tail |-> 0, len |-> 0]
Fresh(len) == [data |-> Headroom, tail |-> Headroom + len, len |-> len]

TypeOK ==
    /\ place \in [Skbs -> {"free", "kernel", "blob"}]
    /\ buf \in [Skbs -> Bufs \cup {None}]
    /\ geo \in [Skbs -> Geometry]
    /\ real \in [Shadows -> Skbs \cup {None}]
    /\ held \in SUBSET Shadows
    /\ head \in [Shadows -> Bufs \cup {None}]
    /\ view \in [Shadows -> Geometry]
    /\ intent \in [Shadows -> Geometry]
    /\ cloned \in SUBSET Shadows
    /\ counted \in SUBSET Shadows
    /\ dupped \in SUBSET Bufs
    /\ live \in Nat
    /\ pktalloced \in Int
    /\ notok \in 0..MaxRefused
    /\ cache \in {"up", "destroyed", "kept"}

Init ==
    /\ place = [r \in Skbs |-> "free"]
    /\ buf = [r \in Skbs |-> None]
    /\ geo = [r \in Skbs |-> NoGeometry]
    /\ real = [s \in Shadows |-> None]
    /\ held = {}
    /\ head = [s \in Shadows |-> None]
    /\ view = [s \in Shadows |-> NoGeometry]
    /\ intent = [s \in Shadows |-> NoGeometry]
    /\ cloned = {} /\ counted = {} /\ dupped = {}
    /\ live = 0 /\ pktalloced = 0 /\ notok = 0
    /\ cache = "up"

Allocated == {s \in Shadows : real[s] # None}
InUse(b) == \E r \in Skbs : buf[r] = b
FreeBufs == {b \in Bufs : ~InUse(b)}

\* skb_cloned(): another live skb shares the data buffer.
SharesBuf(r) == \E q \in Skbs \ {r} : buf[q] = buf[r] /\ buf[r] # None

\* The driver is loaded and the blob holds s.
Holds(s) == cache = "up" /\ s \in held

-----------------------------------------------------------------------------
(* Faulty variants, each rejected by a property *)

cow_head_skipped(r) == {buf[r]}

PktFree_no_put(s) ==
    /\ Holds(s) /\ s \in counted
    /\ place' = [place EXCEPT ![real[s]] = "free"]
    /\ buf' = [buf EXCEPT ![real[s]] = None]
    /\ pktalloced' = pktalloced - 1
    /\ held' = held \ {s}
    /\ counted' = counted \ {s}
    /\ dupped' = {b \in dupped : \E q \in Skbs \ {real[s]} : buf[q] = b}
    /\ UNCHANGED <<geo, real, shadowSide, cloned, live, notok, cache>>

\* The packet wrapped before skb_cow_head moves its head.
XmitTake_wrap_first(r, s) ==
    /\ cache = "up" /\ place[r] = "kernel" /\ real[s] = None
    /\ \E b \in IF \E q \in Skbs \ {r} : buf[q] = buf[r] THEN FreeBufs ELSE {buf[r]} :
         buf' = [buf EXCEPT ![r] = b]
    /\ real' = [real EXCEPT ![s] = r]
    /\ head' = [head EXCEPT ![s] = buf[r]]
    /\ view' = [view EXCEPT ![s] = geo[r]]
    /\ intent' = [intent EXCEPT ![s] = geo[r]]
    /\ live' = live + 1
    /\ place' = [place EXCEPT ![r] = "blob"]
    /\ held' = held \cup {s}
    /\ UNCHANGED <<geo, cloned, counted, dupped, pktalloced, notok, cache>>

PktFrmNative_rewrap(s) ==
    /\ Holds(s) /\ s \notin counted
    /\ \E t \in Shadows :
         /\ real[t] = None
         /\ real' = [real EXCEPT ![t] = real[s]]
         /\ head' = [head EXCEPT ![t] = head[s]]
         /\ view' = [view EXCEPT ![t] = view[s]]
         /\ intent' = [intent EXCEPT ![t] = intent[s]]
         /\ held' = held \cup {t}
         /\ counted' = counted \cup {t}
    /\ live' = live + 1
    /\ pktalloced' = pktalloced + 1
    /\ UNCHANGED <<kernelSide, cloned, dupped, notok, cache>>

-----------------------------------------------------------------------------
(* Synchronisation and the life of a shadow *)

\* sync_up: the geometry of the real skb of shadow s afterwards.  It is refused
\* if the shadow does not point into the skb's buffer.  data is stored before
\* skb_set_tail_pointer, which is relative to it.
sync_up(s) ==
    LET data == view[s].data IN
    IF head[s] # buf[real[s]] THEN geo[real[s]]
    ELSE [data |-> data, tail |-> data + (view[s].tail - view[s].data), len |-> view[s].len]

\* sync_down: the real skb's geometry into the shadow.
sync_down(g) == g

\* wl_skb_wrap: take s from the slab cache for skb r (buffer b, geometry g and
\* sharing are those r has after the step).
wl_skb_wrap(s, r, b, g, isShared) ==
    /\ real[s] = None
    /\ real' = [real EXCEPT ![s] = r]
    /\ head' = [head EXCEPT ![s] = b]
    /\ view' = [view EXCEPT ![s] = sync_down(g)]
    /\ intent' = [intent EXCEPT ![s] = g]
    /\ cloned' = IF isShared THEN cloned \cup {s} ELSE cloned \ {s}
    /\ live' = live + 1

\* wl_skb_shadow_put: the magic is cleared and s goes back to the slab.
wl_skb_shadow_put(s) ==
    /\ real' = [real EXCEPT ![s] = None]
    /\ head' = [head EXCEPT ![s] = None]
    /\ view' = [view EXCEPT ![s] = NoGeometry]
    /\ intent' = [intent EXCEPT ![s] = NoGeometry]
    /\ cloned' = cloned \ {s}
    /\ held' = held \ {s}
    /\ counted' = counted \ {s}
    /\ live' = live - 1

FreeSkb(r) ==
    /\ place' = [place EXCEPT ![r] = "free"]
    /\ buf' = [buf EXCEPT ![r] = None]
    /\ geo' = [geo EXCEPT ![r] = NoGeometry]
    /\ dupped' = {b \in dupped : \E q \in Skbs \ {r} : buf[q] = b}

-----------------------------------------------------------------------------
(* The kernel's own packets (external) *)

KernelAlloc(r, b, len) ==
    /\ place[r] = "free" /\ b \in FreeBufs /\ Headroom + len <= BufLen
    /\ place' = [place EXCEPT ![r] = "kernel"]
    /\ buf' = [buf EXCEPT ![r] = b]
    /\ geo' = [geo EXCEPT ![r] = Fresh(len)]
    /\ UNCHANGED <<real, held, shadowSide, cloned, counted, dupped, live, pktalloced,
                   notok, cache>>

\* A bridge floods a frame to its ports with skb_clone.
KernelClone(r, q) ==
    /\ place[r] = "kernel" /\ place[q] = "free"
    /\ place' = [place EXCEPT ![q] = "kernel"]
    /\ buf' = [buf EXCEPT ![q] = buf[r]]
    /\ geo' = [geo EXCEPT ![q] = geo[r]]
    /\ UNCHANGED <<real, held, shadowSide, cloned, counted, dupped, live, pktalloced,
                   notok, cache>>

KernelFree(r) ==
    /\ place[r] = "kernel"
    /\ FreeSkb(r)
    /\ UNCHANGED <<real, held, shadowSide, cloned, counted, live,
                   pktalloced, notok, cache>>

-----------------------------------------------------------------------------
(* Transmit: wl_tramp_start_xmit *)

\* skb_cow_head(skb, 0): a private copy of the head if it is shared.
skb_cow_head(r) == IF SharesBuf(r) THEN FreeBufs ELSE {buf[r]}

\* No ndo_start_xmit, or skb_cow_head failed, or no memory for a shadow: the
\* packet is freed and NETDEV_TX_OK returned.
XmitDrop(r) ==
    /\ cache = "up" /\ place[r] = "kernel"
    /\ FreeSkb(r)
    /\ UNCHANGED <<real, held, shadowSide, cloned, counted, live,
                   pktalloced, notok, cache>>

\* The blob takes the packet, on a head that is its own.
XmitTake(r, s) ==
    /\ cache = "up" /\ place[r] = "kernel"
    /\ \E b \in skb_cow_head(r) :
         /\ buf' = [buf EXCEPT ![r] = b]
         /\ wl_skb_wrap(s, r, b, geo[r], \E q \in Skbs \ {r} : buf[q] = b)
    /\ place' = [place EXCEPT ![r] = "blob"]
    /\ held' = held \cup {s}
    /\ UNCHANGED <<geo, counted, dupped, pktalloced, notok, cache>>

\* The blob refuses it: the kernel keeps the packet and will offer it again;
\* the shadow is left allocated on purpose.
XmitRefuse(r, s) ==
    /\ cache = "up" /\ place[r] = "kernel" /\ notok < MaxRefused
    /\ \E b \in skb_cow_head(r) :
         /\ buf' = [buf EXCEPT ![r] = b]
         /\ wl_skb_wrap(s, r, b, geo[r], \E q \in Skbs \ {r} : buf[q] = b)
    /\ notok' = notok + 1
    /\ UNCHANGED <<place, geo, held, counted, dupped, pktalloced, cache>>

\* osl_pkt_frmnative: the packet is already a shadow; it is only counted.
PktFrmNative(s) ==
    /\ Holds(s) /\ s \notin counted
    /\ counted' = counted \cup {s}
    /\ pktalloced' = pktalloced + 1
    /\ UNCHANGED <<kernelSide, real, held, shadowSide, cloned, dupped, live, notok,
                   cache>>

-----------------------------------------------------------------------------
(* Allocation by the blob: osl_pktget, osl_pktdup, dev_alloc_skb *)

PktGet(r, b, s, len) ==
    /\ cache = "up" /\ place[r] = "free" /\ b \in FreeBufs
    /\ Headroom + len <= BufLen
    /\ place' = [place EXCEPT ![r] = "blob"]
    /\ buf' = [buf EXCEPT ![r] = b]
    /\ geo' = [geo EXCEPT ![r] = Fresh(len)]
    /\ wl_skb_wrap(s, r, b, Fresh(len), FALSE)
    /\ held' = held \cup {s}
    /\ counted' = counted \cup {s}
    /\ pktalloced' = pktalloced + 1
    /\ UNCHANGED <<dupped, notok, cache>>

\* pktalloced after osl_pktget has counted a packet it then could not wrap.
pktget_fail_count(n) == n - 1

\* The skb was allocated and counted, but there was no memory for its shadow.
PktGetFail ==
    /\ cache = "up"
    /\ pktalloced' = pktget_fail_count(pktalloced + 1)
    /\ UNCHANGED <<kernelSide, real, held, shadowSide, cloned, counted, dupped, live,
                   notok, cache>>

\* wl_shim_dev_alloc_skb: the same without the count, and an empty packet.
DevAllocSkb(r, b, s) ==
    /\ cache = "up" /\ place[r] = "free" /\ b \in FreeBufs
    /\ place' = [place EXCEPT ![r] = "blob"]
    /\ buf' = [buf EXCEPT ![r] = b]
    /\ geo' = [geo EXCEPT ![r] = Fresh(0)]
    /\ wl_skb_wrap(s, r, b, Fresh(0), FALSE)
    /\ held' = held \cup {s}
    /\ UNCHANGED <<counted, dupped, pktalloced, notok, cache>>

\* osl_pktdup: unwrap (sync_up), skb_clone, wrap the clone.  The original's
\* shadow is not synchronised again.
PktDup(s, q, t) ==
    /\ Holds(s) /\ place[q] = "free"
    /\ LET r == real[s]
           g == sync_up(s) IN
         /\ place' = [place EXCEPT ![q] = "blob"]
         /\ buf' = [buf EXCEPT ![q] = buf[r]]
         /\ geo' = [geo EXCEPT ![r] = g, ![q] = g]
         /\ dupped' = dupped \cup {buf[r]}
         /\ wl_skb_wrap(t, q, buf[r], g, TRUE)
    /\ held' = held \cup {t}
    /\ counted' = counted \cup {t}
    /\ pktalloced' = pktalloced + 1
    /\ UNCHANGED <<notok, cache>>

\* skb_clone, or the wrap of the clone, failed: only the sync_up remains.
PktDupFail(s) ==
    /\ Holds(s)
    /\ geo' = [geo EXCEPT ![real[s]] = sync_up(s)]
    /\ UNCHANGED <<place, buf, real, held, shadowSide, cloned, counted, dupped, live,
                   pktalloced, notok, cache>>

-----------------------------------------------------------------------------
(* Edits: PKTSETLEN on the shadow; skb_put, skb_push, skb_pull through it *)

\* PKTSETLEN writes len and tail of the shadow only.
trimmed(g, len) == [g EXCEPT !.len = len, !.tail = g.data + len]

PktSetLen(s, len) ==
    /\ Holds(s)
    /\ view[s].data + len <= BufLen
    /\ view' = [view EXCEPT ![s] = trimmed(@, len)]
    /\ intent' = [intent EXCEPT ![s] = trimmed(@, len)]
    /\ UNCHANGED <<kernelSide, real, held, head, cloned, counted, dupped, live,
                   pktalloced, notok, cache>>

\* The kernel's skb_put, skb_push and skb_pull on a geometry.  put and push
\* panic beyond the buffer, so the blob does not ask for that; pull of more
\* than there is changes nothing.
skb_put(g) == [g EXCEPT !.tail = g.tail + 1, !.len = g.len + 1]
skb_push(g) == [g EXCEPT !.data = g.data - 1, !.len = g.len + 1]
skb_pull(g) == IF g.len = 0 THEN g
               ELSE [g EXCEPT !.data = g.data + 1, !.len = g.len - 1]

\* Each is sync_up, the operation on the real skb, sync_down.  g is what this
\* makes of the real skb, i what the blob asked for.
Edit(s, g, i) ==
    /\ geo' = [geo EXCEPT ![real[s]] = g]
    /\ head' = [head EXCEPT ![s] = buf[real[s]]]
    /\ view' = [view EXCEPT ![s] = sync_down(g)]
    /\ intent' = [intent EXCEPT ![s] = i]
    /\ cloned' = IF SharesBuf(real[s]) THEN cloned \cup {s} ELSE cloned \ {s}
    /\ UNCHANGED <<place, buf, real, held, counted, dupped, live, pktalloced,
                   notok, cache>>

SkbPut(s) ==
    /\ Holds(s) /\ view[s].tail < BufLen
    /\ Edit(s, skb_put(sync_up(s)), skb_put(intent[s]))

SkbPush(s) ==
    /\ Holds(s) /\ view[s].data > 0
    /\ Edit(s, skb_push(sync_up(s)), skb_push(intent[s]))

\* skb_pull, and eth_type_trans, which pulls the ethernet header.
SkbPull(s) ==
    /\ Holds(s)
    /\ Edit(s, skb_pull(sync_up(s)), skb_pull(intent[s]))

-----------------------------------------------------------------------------
(* Leaving the blob *)

\* osl_pkt_tonative: only the count changes.
PktToNative(s) ==
    /\ Holds(s) /\ s \in counted
    /\ counted' = counted \ {s}
    /\ pktalloced' = pktalloced - 1
    /\ UNCHANGED <<kernelSide, real, held, shadowSide, cloned, dupped, live, notok,
                   cache>>

\* wl_shim_netif_rx: sync_up, release the shadow, hand the real skb up.
NetifRx(s) ==
    /\ Holds(s) /\ s \notin counted
    /\ LET r == real[s]
           g == sync_up(s) IN
         /\ geo' = [geo EXCEPT ![r] = g]
         /\ place' = [place EXCEPT ![r] = "kernel"]
    /\ wl_skb_shadow_put(s)
    /\ UNCHANGED <<buf, dupped, pktalloced, notok, cache>>

\* osl_pktfree: unwrap, free the real skb, release the shadow.
PktFree(s) ==
    /\ Holds(s) /\ s \in counted
    /\ FreeSkb(real[s])
    /\ wl_skb_shadow_put(s)
    /\ pktalloced' = pktalloced - 1
    /\ UNCHANGED <<notok, cache>>

\* wl_shadow_skb_exit, after the blob's cleanup has given its packets back.
SkbExit ==
    /\ cache = "up" /\ held = {}
    /\ cache' = IF live = 0 THEN "destroyed" ELSE "kept"
    /\ UNCHANGED <<kernelSide, real, held, shadowSide, cloned, counted, dupped, live,
                   pktalloced, notok>>

Lens == 0..(BufLen - Headroom)

Next ==
    \/ \E r \in Skbs, b \in Bufs, len \in Lens : KernelAlloc(r, b, len)
    \/ \E r, q \in Skbs : KernelClone(r, q)
    \/ \E r \in Skbs : KernelFree(r) \/ XmitDrop(r)
    \/ \E r \in Skbs, s \in Shadows : XmitTake(r, s) \/ XmitRefuse(r, s)
    \/ \E r \in Skbs, b \in Bufs, s \in Shadows :
          DevAllocSkb(r, b, s) \/ \E len \in Lens : PktGet(r, b, s, len)
    \/ PktGetFail
    \/ \E s, t \in Shadows, q \in Skbs : PktDup(s, q, t)
    \/ \E s \in Shadows : PktDupFail(s) \/ SkbPut(s) \/ SkbPush(s) \/ SkbPull(s)
    \/ \E s \in Shadows, len \in Lens : PktSetLen(s, len)
    \/ \E s \in Shadows : \/ PktFrmNative(s) \/ PktToNative(s)
                          \/ NetifRx(s) \/ PktFree(s)
    \/ SkbExit

Spec == Init /\ [][Next]_vars

-----------------------------------------------------------------------------
(* Properties *)

\* Every packet the blob holds has exactly one shadow the blob can use, and
\* that shadow's skb is the blob's: nothing the blob frees or hands up can be
\* freed or handed up a second time through another shadow, and the kernel does
\* not own it meanwhile (one wrap per crossing, one release per leaving).
HeldBacked ==
    /\ \A s \in held : real[s] # None /\ place[real[s]] = "blob"
    /\ \A s, t \in held : real[s] = real[t] => s = t
    /\ \A r \in Skbs : place[r] = "blob" => \E s \in held : real[s] = r

\* wl_skb_live counts the allocated shadows, and apart from those the blob holds
\* these are exactly the ones left behind by refused transmits.
LeaksAreRefusals ==
    /\ live = Cardinality(Allocated)
    /\ Cardinality(Allocated \ held) = notok

\* wl_shadow_skb_exit destroys the slab cache only when it is empty.
CacheEmptyWhenDestroyed == cache = "destroyed" => Allocated = {}

\* osh->pktalloced is the number of packets the blob holds as driver packets,
\* whatever allocations failed on the way.
PktAllocedBalanced == pktalloced = Cardinality(counted)

\* The books of shadows and packets (wl_skb_live, pktalloced, the slab cache)
\* agree with what the blob holds, through failed allocations, refused
\* transmits and the unload.
ShadowsAccounted == LeaksAreRefusals /\ CacheEmptyWhenDestroyed /\ PktAllocedBalanced

\* What the blob hands up with netif_rx reaches the stack as the sum of all the
\* blob has done to it: no PKTSETLEN on the shadow, no put, push or pull through
\* the real skb, and no duplicate taken in between makes another one undone, and
\* no sync is refused because the head has moved since the packet was wrapped.
NoEditLost ==
    [][\A s \in held : s \notin held' /\ place'[real[s]] = "kernel"
                        => geo'[real[s]] = intent[s]]_vars

\* A packet taken for transmit has a head of its own, so that the header the
\* blob writes in front of it overwrites nobody else's: a held packet shares
\* its buffer only if the driver itself has duplicated it.
TxHeadPrivate ==
    \A s \in held : SharesBuf(real[s]) => buf[real[s]] \in dupped

\* "->cloned must be mirrored": the blob's PKTSHARED() tells it whenever the
\* packet it is about to edit shares its buffer.
SharedBitHonest ==
    \A s \in held : SharesBuf(real[s]) => s \in cloned

=============================================================================
