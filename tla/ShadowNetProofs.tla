-------------------------- MODULE ShadowNetProofs --------------------------
(***************************************************************************)
(* Proofs about the two shadows of the network stack.                      *)
(*                                                                         *)
(* Packets (ShadowSkb), for any number of packets, buffers and shadows and *)
(* any buffer size: who holds what, the counters of shadows and packets,   *)
(* and that no edit of a shadow is lost on the way up.                     *)
(*                                                                         *)
(* Net devices (ShadowNetdev), for any number of devices and threads.      *)
(* NetdevInv is inductive whether or not the blob serialises its queue     *)
(* operations.  That the copies of XOFF agree when it does is left to TLC. *)
(***************************************************************************)
EXTENDS ShadowSkb, ShadowNetdev, TLAPS, FiniteSetTheorems

\* The geometries a linear packet can have: tail is len units behind data.
Units == 0..BufLen
Geo == {g \in [data : Units, tail : Units, len : Units] : g.tail = g.data + g.len}

Linear == geo \in [Skbs -> Geo] /\ view \in [Shadows -> Geo]

\* An skb that is in use has a data buffer.
BufOwned == \A r \in Skbs : place[r] # "free" => buf[r] # None

\* Only packets the blob holds are counted, and finitely many shadows are out.
CountedHeld == counted \subseteq held /\ IsFiniteSet(Allocated)

\* The types of the rest of the state, but for what Faithful says.
BooksOK ==
    /\ place \in [Skbs -> {"free", "kernel", "blob"}]
    /\ buf \in [Skbs -> Bufs \cup {None}]
    /\ real \in [Shadows -> Skbs \cup {None}]
    /\ held \in SUBSET Shadows /\ cloned \in SUBSET Shadows /\ counted \in SUBSET Shadows
    /\ dupped \in SUBSET Bufs /\ live \in Nat /\ pktalloced \in Int
    /\ notok \in 0..MaxRefused /\ cache \in {"up", "destroyed", "kept"}

SkbInv == /\ BooksOK /\ Linear /\ BufOwned /\ HeldBacked /\ CountedHeld
          /\ ShadowsAccounted /\ TxHeadPrivate

\* No head has moved since its packet was wrapped, and a held shadow shows what the
\* blob has made of its packet.
Faithful ==
    /\ head \in [Shadows -> Bufs \cup {None}] /\ intent \in [Shadows -> Geo]
    /\ \A s \in held : head[s] = buf[real[s]] /\ intent[s] = view[s]

-----------------------------------------------------------------------------
(* Geometries *)

\* A Geo is a Geometry, and is made of its fields.
LEMMA GeoFields ==
    ASSUME NEW g \in Geo
    PROVE  /\ g \in Geometry /\ g = [data |-> g.data, tail |-> g.tail, len |-> g.len]
           /\ g.data \in Units /\ g.tail \in Units /\ g.len \in Units /\ g.tail = g.data + g.len
  BY DEF Geo, Geometry, Units

\* The geometry made of three lengths that fit together.
LEMMA GeoMade ==
    ASSUME NEW d \in Units, NEW t \in Units, NEW l \in Units, t = d + l
    PROVE  [data |-> d, tail |-> t, len |-> l] \in Geo
  BY DEF Geo

\* Two fields of a geometry are changed.
LEMMA GeoEdited ==
    ASSUME NEW g \in Geo, NEW x \in Units, NEW y \in Units
    PROVE  /\ x = g.data + y => [g EXCEPT !.tail = x, !.len = y] \in Geo
           /\ x = g.data + y => [g EXCEPT !.len = y, !.tail = x] \in Geo
           /\ g.tail = x + y => [g EXCEPT !.data = x, !.len = y] \in Geo
  BY DEF Geo

\* New packets, and skbs and shadows that are not in use.
LEMMA GeoNew == NoGeometry \in Geo /\ \A len \in Lens : Fresh(len) \in Geo
<1>1. NoGeometry \in Geo
  BY SkbAssumption, GeoMade DEF NoGeometry, Units
<1>2. ASSUME NEW len \in Lens PROVE Fresh(len) \in Geo
  <2>1. Headroom \in Units /\ Headroom + len \in Units /\ len \in Units
    BY SkbAssumption DEF Lens, Units
  <2> QED
    BY <2>1, GeoMade DEF Fresh
<1> QED
  BY <1>1, <1>2

\* sync_up gives the real skb the shadow's geometry, because the head has not moved
\* and data is stored first.
LEMMA SyncUpExact ==
    ASSUME Faithful, NEW s \in held, view[s] \in Geo
    PROVE  sync_up(s) = view[s]
<1> DEFINE v == view[s]
<1>1. v.data + (v.tail - v.data) = v.tail
  BY GeoFields, SkbAssumption DEF Units
<1>2. v = [data |-> v.data, tail |-> v.tail, len |-> v.len]
  BY GeoFields
<1> QED
  BY <1>1, <1>2 DEF sync_up, Faithful

\* The kernel's skb functions keep a packet linear.
LEMMA EditsLinear ==
    ASSUME NEW g \in Geo
    PROVE  /\ g.tail < BufLen => skb_put(g) \in Geo
           /\ g.data > 0 => skb_push(g) \in Geo
           /\ skb_pull(g) \in Geo
<1>1. g.data \in Units /\ g.tail \in Units /\ g.len \in Units /\ g.tail = g.data + g.len
  BY GeoFields
<1>2. ASSUME g.tail < BufLen PROVE skb_put(g) \in Geo
  <2>1. g.tail + 1 \in Units /\ g.len + 1 \in Units /\ g.tail + 1 = g.data + (g.len + 1)
    BY <1>1, <1>2, SkbAssumption DEF Units
  <2> QED
    BY <2>1, GeoEdited DEF skb_put
<1>3. ASSUME g.data > 0 PROVE skb_push(g) \in Geo
  <2>1. g.data - 1 \in Units /\ g.len + 1 \in Units /\ g.tail = (g.data - 1) + (g.len + 1)
    BY <1>1, <1>3, SkbAssumption DEF Units
  <2> QED
    BY <2>1, GeoEdited DEF skb_push
<1>4. CASE g.len # 0
  <2>1. g.data + 1 \in Units /\ g.len - 1 \in Units /\ g.tail = (g.data + 1) + (g.len - 1)
    BY <1>1, <1>4, SkbAssumption DEF Units
  <2> QED
    BY <1>2, <1>3, <1>4, <2>1, GeoEdited DEF skb_pull
<1>5. CASE g.len = 0
  BY <1>2, <1>3, <1>5 DEF skb_pull
<1> QED
  BY <1>4, <1>5

\* PKTSETLEN keeps a shadow linear.
LEMMA SetLenLinear ==
    ASSUME NEW g \in Geo, NEW len \in Lens, g.data + len <= BufLen
    PROVE  [g EXCEPT !.len = len, !.tail = g.data + len] \in Geo
<1>1. g.data + len \in Units /\ len \in Units
  BY GeoFields, SkbAssumption DEF Lens, Units
<1> QED
  BY <1>1, GeoEdited

-----------------------------------------------------------------------------
(* The books *)

\* What ShadowsAccounted and CountedHeld say, as the steps below use it.
LEMMA Books ==
    SkbInv <=> /\ BooksOK /\ Linear /\ BufOwned /\ HeldBacked /\ TxHeadPrivate
               /\ counted \subseteq held /\ IsFiniteSet(Allocated) /\ live = Cardinality(Allocated)
               /\ Cardinality(Allocated \ held) = notok /\ pktalloced = Cardinality(counted)
               /\ (cache = "destroyed" => Allocated = {})
  BY DEF SkbInv, CountedHeld, ShadowsAccounted, LeaksAreRefusals, PktAllocedBalanced,
         CacheEmptyWhenDestroyed

\* The same after a step.
LEMMA BooksNext ==
    SkbInv' <=> /\ BooksOK' /\ Linear' /\ BufOwned' /\ HeldBacked' /\ TxHeadPrivate'
                /\ counted' \subseteq held' /\ IsFiniteSet(Allocated') /\ live' = Cardinality(Allocated')
                /\ Cardinality(Allocated' \ held') = notok' /\ pktalloced' = Cardinality(counted')
                /\ (cache' = "destroyed" => Allocated' = {})
  BY DEF SkbInv, CountedHeld, ShadowsAccounted, LeaksAreRefusals, PktAllocedBalanced,
         CacheEmptyWhenDestroyed

\* The finite sets of shadows, and the counts.
LEMMA Finite ==
    ASSUME SkbInv
    PROVE  /\ IsFiniteSet(held) /\ IsFiniteSet(counted) /\ IsFiniteSet(Allocated \ held)
           /\ held \subseteq Allocated /\ Cardinality(Allocated) \in Nat
           /\ Cardinality(counted) \in Nat /\ Cardinality(Allocated \ held) \in Nat
<1>1. held \subseteq Allocated /\ counted \subseteq held /\ IsFiniteSet(Allocated)
  BY DEF SkbInv, BooksOK, HeldBacked, CountedHeld, Allocated
<1>2. IsFiniteSet(held) /\ IsFiniteSet(Allocated \ held)
  BY <1>1, FS_Subset
<1>3. IsFiniteSet(counted)
  BY <1>1, <1>2, FS_Subset
<1> QED
  BY <1>1, <1>2, <1>3, FS_CardinalityType

\* wl_skb_wrap takes one shadow more from the cache.
LEMMA WrapBooks ==
    ASSUME SkbInv, NEW s \in Shadows, NEW r \in Skbs, real[s] = None,
           real' = [real EXCEPT ![s] = r]
    PROVE  /\ s \notin Allocated /\ s \notin held /\ s \notin counted /\ Allocated' = Allocated \cup {s}
           /\ IsFiniteSet(Allocated') /\ Cardinality(Allocated') = Cardinality(Allocated) + 1
           /\ Cardinality(Allocated' \ (held \cup {s})) = Cardinality(Allocated \ held)
           /\ Cardinality(Allocated' \ held) = Cardinality(Allocated \ held) + 1
           /\ Cardinality(counted \cup {s}) = Cardinality(counted) + 1
<1>1. real \in [Shadows -> Skbs \cup {None}] /\ r # None
  BY SkbAssumption DEF SkbInv, BooksOK
<1>2. Allocated' = Allocated \cup {s} /\ s \notin Allocated
  BY <1>1 DEF Allocated
<1>3. s \notin held /\ s \notin counted
  BY <1>2, Finite DEF SkbInv, CountedHeld
<1>4. IsFiniteSet(Allocated) /\ IsFiniteSet(Allocated \ held) /\ IsFiniteSet(counted)
  BY Finite DEF SkbInv, CountedHeld
<1>5. IsFiniteSet(Allocated') /\ Cardinality(Allocated') = Cardinality(Allocated) + 1
  BY <1>2, <1>4, FS_AddElement
<1>6. Allocated' \ (held \cup {s}) = Allocated \ held /\ Allocated' \ held = (Allocated \ held) \cup {s}
  BY <1>2, <1>3
<1>7. Cardinality((Allocated \ held) \cup {s}) = Cardinality(Allocated \ held) + 1
  BY <1>2, <1>4, FS_AddElement
<1>8. Cardinality(counted \cup {s}) = Cardinality(counted) + 1
  BY <1>3, <1>4, FS_AddElement
<1> QED
  BY <1>2, <1>3, <1>5, <1>6, <1>7, <1>8

\* wl_skb_shadow_put gives one back.
LEMMA PutBooks ==
    ASSUME SkbInv, NEW s \in held, wl_skb_shadow_put(s)
    PROVE  /\ Allocated' = Allocated \ {s} /\ IsFiniteSet(Allocated')
           /\ live' = Cardinality(Allocated') /\ live' \in Nat
           /\ Cardinality(Allocated' \ held') = notok /\ counted' \subseteq held'
           /\ Cardinality(counted') = IF s \in counted THEN pktalloced - 1 ELSE pktalloced
<1>1. real \in [Shadows -> Skbs \cup {None}] /\ s \in Shadows /\ held \subseteq Shadows
  BY DEF SkbInv, BooksOK
<1>2. Allocated' = Allocated \ {s} /\ s \in Allocated
  BY <1>1, Finite DEF Allocated, wl_skb_shadow_put
<1>3. IsFiniteSet(Allocated) /\ IsFiniteSet(counted) /\ live = Cardinality(Allocated)
      /\ pktalloced = Cardinality(counted) /\ Cardinality(Allocated \ held) = notok
  BY Finite, Books
<1>4. IsFiniteSet(Allocated') /\ Cardinality(Allocated') = Cardinality(Allocated) - 1
  BY <1>2, <1>3, FS_RemoveElement
<1>5. Allocated' \ held' = Allocated \ held
  BY <1>2 DEF wl_skb_shadow_put
<1>6. Cardinality(counted') = IF s \in counted THEN pktalloced - 1 ELSE pktalloced
  BY <1>3, FS_RemoveElement DEF wl_skb_shadow_put
<1>7. live' = Cardinality(Allocated') /\ live' \in Nat
  BY <1>3, <1>4, FS_CardinalityType DEF wl_skb_shadow_put
<1>8. counted' \subseteq held'
  BY DEF wl_skb_shadow_put, SkbInv, CountedHeld
<1> QED
  BY <1>2, <1>3, <1>4, <1>5, <1>6, <1>7, <1>8

-----------------------------------------------------------------------------
(* Steps *)

Places == {"free", "kernel", "blob"}

\* The types, from those of the geometries.
LEMMA TypedNext ==
    ASSUME place' \in [Skbs -> Places], buf' \in [Skbs -> Bufs \cup {None}], geo' \in [Skbs -> Geo],
           real' \in [Shadows -> Skbs \cup {None}], held' \subseteq Shadows,
           view' \in [Shadows -> Geo], cloned' \subseteq Shadows, counted' \subseteq held',
           dupped' \subseteq Bufs, live' \in Nat, pktalloced' \in Int, notok' \in 0..MaxRefused,
           cache' \in {"up", "destroyed", "kept"}
    PROVE  BooksOK' /\ Linear'
<1>1. Geo \subseteq Geometry
  BY GeoFields
<1> QED
  BY <1>1 DEF BooksOK, Linear, Places

\* And before a step.
LEMMA Typed ==
    ASSUME SkbInv
    PROVE  /\ place \in [Skbs -> Places] /\ buf \in [Skbs -> Bufs \cup {None}] /\ geo \in [Skbs -> Geo]
           /\ real \in [Shadows -> Skbs \cup {None}] /\ held \subseteq Shadows
           /\ view \in [Shadows -> Geo] /\ cloned \subseteq Shadows /\ counted \subseteq held
           /\ dupped \subseteq Bufs /\ live \in Nat /\ pktalloced \in Int /\ notok \in 0..MaxRefused
           /\ cache \in {"up", "destroyed", "kept"}
  BY DEF SkbInv, BooksOK, Linear, CountedHeld, Places

\* Nothing happens to the shadows: what is left to show of a step.
LEMMA KernelKeeps ==
    ASSUME SkbInv, UNCHANGED <<real, held, view, cloned, counted, live, pktalloced, notok, cache>>,
           place' \in [Skbs -> Places], buf' \in [Skbs -> Bufs \cup {None}], geo' \in [Skbs -> Geo],
           dupped' \subseteq Bufs, BufOwned', TxHeadPrivate',
           \A r \in Skbs : place'[r] = "blob" <=> place[r] = "blob"
    PROVE  SkbInv'
<1>1. BooksOK' /\ Linear'
  BY Typed, TypedNext
<1>2. HeldBacked'
  <2>1. \A s \in held : real[s] \in Skbs
    BY Typed DEF SkbInv, HeldBacked
  <2> QED
    BY <2>1 DEF SkbInv, HeldBacked
<1>3. CountedHeld' /\ ShadowsAccounted'
  BY DEF SkbInv, CountedHeld, ShadowsAccounted, LeaksAreRefusals, CacheEmptyWhenDestroyed,
         PktAllocedBalanced, Allocated
<1> QED
  BY <1>1, <1>2, <1>3 DEF SkbInv

\* A packet of the kernel, and a clone of one.
LEMMA KernelMakesKeeps ==
    ASSUME SkbInv,
           \/ \E r \in Skbs, b \in Bufs, len \in Lens : KernelAlloc(r, b, len)
           \/ \E r, q \in Skbs : KernelClone(r, q)
    PROVE  SkbInv'
<1>1. ASSUME NEW r \in Skbs, NEW b \in Bufs, NEW len \in Lens, KernelAlloc(r, b, len) PROVE SkbInv'
  <2>1. /\ place[r] = "free" /\ b \in FreeBufs /\ place' = [place EXCEPT ![r] = "kernel"]
        /\ buf' = [buf EXCEPT ![r] = b] /\ geo' = [geo EXCEPT ![r] = Fresh(len)]
        /\ UNCHANGED <<real, held, view, cloned, counted, dupped, live, pktalloced, notok, cache>>
    BY <1>1 DEF KernelAlloc, shadowSide
  <2>2. /\ place' \in [Skbs -> Places] /\ buf' \in [Skbs -> Bufs \cup {None}] /\ geo' \in [Skbs -> Geo]
        /\ dupped' \subseteq Bufs /\ \A x \in Skbs : place'[x] = "blob" <=> place[x] = "blob"
    BY <2>1, Typed, GeoNew DEF Places
  <2>3. BufOwned'
    BY <2>1, Typed, SkbAssumption DEF SkbInv, BufOwned
  <2>4. TxHeadPrivate'
    <3>1. \A s \in held : real[s] \in Skbs /\ real[s] # r
      BY <2>1, Typed DEF SkbInv, HeldBacked
    <3>2. \A x \in Skbs : buf[x] # b
      BY <2>1 DEF FreeBufs, InUse
    <3> QED
      BY <2>1, <3>1, <3>2, Typed DEF SkbInv, TxHeadPrivate, SharesBuf
  <2> QED
    BY <2>1, <2>2, <2>3, <2>4, KernelKeeps
<1>2. ASSUME NEW r \in Skbs, NEW q \in Skbs, KernelClone(r, q) PROVE SkbInv'
  <2>1. /\ place[r] = "kernel" /\ place[q] = "free" /\ place' = [place EXCEPT ![q] = "kernel"]
        /\ buf' = [buf EXCEPT ![q] = buf[r]] /\ geo' = [geo EXCEPT ![q] = geo[r]]
        /\ UNCHANGED <<real, held, view, cloned, counted, dupped, live, pktalloced, notok, cache>>
    BY <1>2 DEF KernelClone, shadowSide
  <2>2. /\ place' \in [Skbs -> Places] /\ buf' \in [Skbs -> Bufs \cup {None}] /\ geo' \in [Skbs -> Geo]
        /\ dupped' \subseteq Bufs /\ \A x \in Skbs : place'[x] = "blob" <=> place[x] = "blob"
    BY <2>1, Typed DEF Places
  <2>3. BufOwned'
    BY <2>1, Typed DEF SkbInv, BufOwned
  <2>4. TxHeadPrivate'
    <3>1. \A s \in held : real[s] \in Skbs /\ real[s] # r /\ real[s] # q
      BY <2>1, Typed DEF SkbInv, HeldBacked
    <3> QED
      BY <2>1, <3>1, Typed DEF SkbInv, TxHeadPrivate, SharesBuf
  <2> QED
    BY <2>1, <2>2, <2>3, <2>4, KernelKeeps
<1> QED
  BY <1>1, <1>2

\* What FreeSkb leaves: the buffers the driver has shared are still marked if
\* somebody uses them.
LEMMA FreeSkbKeeps ==
    ASSUME SkbInv, NEW r \in Skbs, FreeSkb(r), held' \subseteq held, UNCHANGED <<cache, notok>>,
           \A s \in held' : real'[s] = real[s] /\ real[s] # r
    PROVE  /\ place' \in [Skbs -> Places] /\ buf' \in [Skbs -> Bufs \cup {None}]
           /\ geo' \in [Skbs -> Geo] /\ dupped' \subseteq Bufs /\ BufOwned' /\ TxHeadPrivate'
<1>1. /\ place' = [place EXCEPT ![r] = "free"] /\ buf' = [buf EXCEPT ![r] = None]
      /\ geo' = [geo EXCEPT ![r] = NoGeometry]
      /\ dupped' = {b \in dupped : \E q \in Skbs \ {r} : buf[q] = b}
  BY DEF FreeSkb
<1>2. /\ place' \in [Skbs -> Places] /\ buf' \in [Skbs -> Bufs \cup {None}]
      /\ geo' \in [Skbs -> Geo] /\ dupped' \subseteq Bufs
  BY <1>1, Typed, GeoNew DEF Places
<1>3. BufOwned'
  BY <1>1, Typed DEF SkbInv, BufOwned
<1>4. TxHeadPrivate'
  <2>1. \A s \in held' : s \in held /\ real[s] \in Skbs \ {r}
    BY Typed DEF SkbInv, HeldBacked
  <2> QED
    BY <1>1, <2>1, Typed DEF SkbInv, TxHeadPrivate, SharesBuf
<1> QED
  BY <1>2, <1>3, <1>4

\* The kernel frees a packet of its own, or the driver one it does not transmit.
LEMMA DropKeeps ==
    ASSUME SkbInv, NEW r \in Skbs, KernelFree(r) \/ XmitDrop(r)
    PROVE  SkbInv'
<1>1. /\ place[r] = "kernel" /\ FreeSkb(r)
      /\ UNCHANGED <<real, held, view, cloned, counted, live, pktalloced, notok, cache>>
  BY DEF KernelFree, XmitDrop, shadowSide
<1>2. \A s \in held' : real'[s] = real[s] /\ real[s] # r
  BY <1>1 DEF SkbInv, HeldBacked
<1>3. \A x \in Skbs : place'[x] = "blob" <=> place[x] = "blob"
  BY <1>1, Typed DEF FreeSkb
<1> QED
  BY <1>1, <1>2, <1>3, FreeSkbKeeps, KernelKeeps

\* Shadow s is wrapped around packet r, which becomes the blob's, or stays the
\* kernel's when the transmit is refused.
LEMMA WrapKeeps ==
    ASSUME SkbInv, NEW r \in Skbs, NEW s \in Shadows, NEW b, NEW g \in Geo, NEW sh, wl_skb_wrap(s, r, b, g, sh),
           cache = "up", cache' = "up", place' \in [Skbs -> Places],
           buf' \in [Skbs -> Bufs \cup {None}], geo' \in [Skbs -> Geo], dupped' \subseteq Bufs,
           BufOwned', TxHeadPrivate', place[r] # "blob",
           \A x \in Skbs \ {r} : place'[x] = "blob" <=> place[x] = "blob",
           IF place'[r] = "blob" THEN held' = held \cup {s} /\ notok' = notok
                                 ELSE held' = held /\ notok' = notok + 1 /\ notok < MaxRefused,
           \/ counted' = counted /\ pktalloced' = pktalloced
           \/ counted' = counted \cup {s} /\ pktalloced' = pktalloced + 1 /\ s \in held'
    PROVE  SkbInv'
<1>1. /\ real[s] = None /\ real' = [real EXCEPT ![s] = r] /\ view' = [view EXCEPT ![s] = g]
      /\ cloned' \subseteq Shadows /\ live' = live + 1
  BY Typed DEF wl_skb_wrap, sync_down
<1>2. /\ s \notin held /\ s \notin counted /\ Allocated' = Allocated \cup {s}
      /\ IsFiniteSet(Allocated') /\ Cardinality(Allocated') = Cardinality(Allocated) + 1
      /\ Cardinality(Allocated' \ (held \cup {s})) = Cardinality(Allocated \ held)
      /\ Cardinality(Allocated' \ held) = Cardinality(Allocated \ held) + 1
      /\ Cardinality(counted \cup {s}) = Cardinality(counted) + 1
  BY <1>1, WrapBooks
<1>3. /\ live = Cardinality(Allocated) /\ Cardinality(Allocated \ held) = notok
      /\ pktalloced = Cardinality(counted) /\ counted \subseteq held
  BY Books
<1>4. BooksOK' /\ Linear'
  <2>1. real' \in [Shadows -> Skbs \cup {None}] /\ view' \in [Shadows -> Geo]
    BY <1>1, Typed
  <2>2. held' \subseteq Shadows /\ counted' \subseteq held'
    BY Typed
  <2>3. live' \in Nat /\ pktalloced' \in Int /\ notok' \in 0..MaxRefused
    BY <1>1, Typed, SkbAssumption
  <2> QED
    BY <1>1, <2>1, <2>2, <2>3, TypedNext
<1>5. HeldBacked'
  <2>1. \A t \in held : real'[t] = real[t] /\ real[t] \in Skbs /\ real[t] # r
    BY <1>1, <1>2, Typed DEF SkbInv, HeldBacked
  <2>2. real'[s] = r /\ r # None
    BY <1>1, Typed, SkbAssumption
  <2>3. \A t \in held' : real'[t] # None /\ place'[real'[t]] = "blob"
    BY <1>2, <2>1, <2>2 DEF SkbInv, HeldBacked
  <2>4. \A t, u \in held' : real'[t] = real'[u] => t = u
    BY <1>2, <2>1, <2>2 DEF SkbInv, HeldBacked
  <2>5. \A x \in Skbs : place'[x] = "blob" => \E t \in held' : real'[t] = x
    BY <1>2, <2>1, <2>2 DEF SkbInv, HeldBacked
  <2> QED
    BY <2>3, <2>4, <2>5 DEF HeldBacked
<1>6. /\ counted' \subseteq held' /\ live' = Cardinality(Allocated')
      /\ Cardinality(Allocated' \ held') = notok' /\ pktalloced' = Cardinality(counted')
  BY <1>1, <1>2, <1>3
<1> QED
  BY <1>2, <1>4, <1>5, <1>6, BooksNext

\* The held packets outside S keep their buffers, and the packets of S do not
\* take one of theirs.
UsersKept(S) ==
    \A t \in held' : real'[t] \in S \/
        /\ t \in held /\ real'[t] = real[t] /\ real[t] \in Skbs /\ buf'[real[t]] = buf[real[t]]
        /\ dupped \subseteq dupped'
        /\ \A q \in Skbs \ {real[t]} : buf'[q] = buf[real[t]] => buf[q] = buf[real[t]]

\* A packet that gets a buffer nobody else has shares nothing with anybody.
LEMMA TxHeadNext ==
    ASSUME SkbInv, NEW r \in Skbs, UsersKept({r}), \A q \in Skbs \ {r} : buf'[q] # buf'[r]
    PROVE  TxHeadPrivate'
<1>1. ASSUME NEW t \in held', NEW q \in Skbs \ {real'[t]}, buf'[q] = buf'[real'[t]],
             buf'[real'[t]] # None
      PROVE  buf'[real'[t]] \in dupped'
  <2>1. real'[t] # r
    BY <1>1
  <2> QED
    BY <1>1, <2>1 DEF UsersKept, SkbInv, TxHeadPrivate, SharesBuf
<1> QED
  BY <1>1 DEF TxHeadPrivate, SharesBuf

\* Transmit: the packet has a head of its own before it is wrapped.
LEMMA XmitKeeps ==
    ASSUME SkbInv, NEW r \in Skbs, NEW s \in Shadows, XmitTake(r, s) \/ XmitRefuse(r, s)
    PROVE  SkbInv'
<1>1. PICK b \in skb_cow_head(r) : /\ buf' = [buf EXCEPT ![r] = b]
                                   /\ wl_skb_wrap(s, r, b, geo[r], \E q \in Skbs \ {r} : buf[q] = b)
  BY DEF XmitTake, XmitRefuse
<1>2. /\ cache = "up" /\ place[r] = "kernel"
      /\ UNCHANGED <<geo, counted, dupped, pktalloced, cache>>
      /\ \/ place' = [place EXCEPT ![r] = "blob"] /\ held' = held \cup {s} /\ notok' = notok
         \/ place' = place /\ held' = held /\ notok < MaxRefused /\ notok' = notok + 1
  BY DEF XmitTake, XmitRefuse
<1>3. b \in Bufs /\ \A q \in Skbs \ {r} : buf[q] # b
  <2>1. buf[r] # None /\ buf[r] \in Bufs
    BY <1>2, Typed DEF SkbInv, BufOwned
  <2> QED
    BY <1>1, <2>1 DEF skb_cow_head, SharesBuf, FreeBufs, InUse
<1>4. /\ place' \in [Skbs -> Places] /\ buf' \in [Skbs -> Bufs \cup {None}] /\ geo' \in [Skbs -> Geo]
      /\ dupped' \subseteq Bufs /\ geo[r] \in Geo
  BY <1>1, <1>2, <1>3, Typed DEF Places
<1>5. BufOwned'
  BY <1>1, <1>2, <1>3, Typed, SkbAssumption DEF SkbInv, BufOwned
<1>6. TxHeadPrivate'
  <2>1. s \notin held /\ real' = [real EXCEPT ![s] = r] /\ real'[s] = r
    BY <1>1, Typed DEF wl_skb_wrap, SkbInv, HeldBacked
  <2>2. \A t \in held : real'[t] = real[t] /\ real[t] \in Skbs /\ real[t] # r
    BY <1>2, <2>1, Typed DEF SkbInv, HeldBacked
  <2>3. buf'[r] = b /\ \A q \in Skbs \ {r} : buf'[q] = buf[q]
    BY <1>1, Typed
  <2>4. UsersKept({r})
    BY <1>2, <1>3, <2>1, <2>2, <2>3 DEF UsersKept
  <2> QED
    BY <1>3, <2>3, <2>4, TxHeadNext
<1>7. /\ place[r] # "blob" /\ \A x \in Skbs \ {r} : place'[x] = "blob" <=> place[x] = "blob"
      /\ IF place'[r] = "blob" THEN held' = held \cup {s} /\ notok' = notok
                               ELSE held' = held /\ notok' = notok + 1 /\ notok < MaxRefused
  BY <1>2, Typed
<1> QED
  BY <1>1, <1>2, <1>4, <1>5, <1>6, <1>7, WrapKeeps

\* New packets of the blob have buffers of their own.
LEMMA AllocKeeps ==
    ASSUME SkbInv, NEW r \in Skbs, NEW b \in Bufs, NEW s \in Shadows,
           DevAllocSkb(r, b, s) \/ \E len \in Lens : PktGet(r, b, s, len)
    PROVE  SkbInv'
<1>1. PICK len \in Lens : /\ geo' = [geo EXCEPT ![r] = Fresh(len)]
                          /\ wl_skb_wrap(s, r, b, Fresh(len), FALSE)
  <2>1. 0 \in Lens
    BY SkbAssumption DEF Lens
  <2> QED
    BY <2>1 DEF DevAllocSkb, PktGet
<1>2. /\ cache = "up" /\ place[r] = "free" /\ b \in FreeBufs
      /\ place' = [place EXCEPT ![r] = "blob"] /\ buf' = [buf EXCEPT ![r] = b]
      /\ held' = held \cup {s} /\ UNCHANGED <<dupped, notok, cache>>
      /\ \/ counted' = counted /\ pktalloced' = pktalloced
         \/ counted' = counted \cup {s} /\ pktalloced' = pktalloced + 1
  BY DEF DevAllocSkb, PktGet
<1>3. Fresh(len) \in Geo /\ \A q \in Skbs : buf[q] # b
  BY <1>2, GeoNew DEF FreeBufs, InUse
<1>4. /\ place' \in [Skbs -> Places] /\ buf' \in [Skbs -> Bufs \cup {None}] /\ geo' \in [Skbs -> Geo]
      /\ dupped' \subseteq Bufs
  BY <1>1, <1>2, <1>3, Typed DEF Places
<1>5. BufOwned'
  BY <1>2, Typed, SkbAssumption DEF SkbInv, BufOwned
<1>6. TxHeadPrivate'
  <2>1. real' = [real EXCEPT ![s] = r] /\ real'[s] = r /\ s \notin held
    BY <1>1, Typed DEF wl_skb_wrap, SkbInv, HeldBacked
  <2>2. \A t \in held : real'[t] = real[t] /\ real[t] \in Skbs /\ real[t] # r
    BY <1>2, <2>1, Typed DEF SkbInv, HeldBacked
  <2>3. buf'[r] = b /\ \A q \in Skbs \ {r} : buf'[q] = buf[q]
    BY <1>2, Typed
  <2>4. UsersKept({r})
    BY <1>2, <1>3, <2>1, <2>2, <2>3 DEF UsersKept
  <2> QED
    BY <1>2, <1>3, <2>1, <2>3, <2>4, TxHeadNext
<1>7. place[r] # "blob" /\ place'[r] = "blob" /\ s \in held'
      /\ \A x \in Skbs \ {r} : place'[x] = "blob" <=> place[x] = "blob"
  BY <1>2, Typed
<1> QED
  BY <1>1, <1>2, <1>3, <1>4, <1>5, <1>6, <1>7, WrapKeeps

\* A duplicate shares its original's buffer, which is marked.
LEMMA PktDupKeeps ==
    ASSUME SkbInv, Faithful, NEW s \in Shadows, NEW t \in Shadows, NEW q \in Skbs, PktDup(s, q, t)
    PROVE  SkbInv'
<1> DEFINE r == real[s]
           g == view[s]
<1>1. s \in held /\ cache = "up" /\ place[q] = "free"
  BY DEF PktDup, Holds
<1>2. r \in Skbs /\ r # q /\ g \in Geo /\ buf[r] \in Bufs /\ buf[r] # None /\ place[r] = "blob"
  BY <1>1, Typed DEF SkbInv, HeldBacked, BufOwned
<1>3. /\ place' = [place EXCEPT ![q] = "blob"] /\ buf' = [buf EXCEPT ![q] = buf[r]]
      /\ geo' = [geo EXCEPT ![r] = g, ![q] = g] /\ dupped' = dupped \cup {buf[r]}
      /\ wl_skb_wrap(t, q, buf[r], g, TRUE) /\ held' = held \cup {t} /\ counted' = counted \cup {t}
      /\ pktalloced' = pktalloced + 1 /\ UNCHANGED <<notok, cache>>
  BY <1>1, <1>2, SyncUpExact DEF PktDup
<1> HIDE DEF r, g
<1>4. /\ place' \in [Skbs -> Places] /\ buf' \in [Skbs -> Bufs \cup {None}] /\ geo' \in [Skbs -> Geo]
      /\ dupped' \subseteq Bufs
  BY <1>2, <1>3, Typed DEF Places
<1>5. BufOwned'
  BY <1>2, <1>3, Typed DEF SkbInv, BufOwned
<1>6. TxHeadPrivate'
  <2>1. real' = [real EXCEPT ![t] = q] /\ real'[t] = q /\ t \notin held
    BY <1>3, Typed DEF wl_skb_wrap, SkbInv, HeldBacked
  <2>2. \A u \in held : real'[u] = real[u] /\ real[u] \in Skbs /\ real[u] # q
    BY <1>1, <2>1, Typed DEF SkbInv, HeldBacked
  <2>3. buf'[q] = buf[r] /\ \A x \in Skbs \ {q} : buf'[x] = buf[x]
    BY <1>3, Typed
  <2>4. ASSUME NEW u \in held', NEW x \in Skbs \ {real'[u]}, buf'[x] = buf'[real'[u]],
               buf'[real'[u]] # None
        PROVE  buf'[real'[u]] \in dupped'
    <3>1. CASE u = t \/ x = q
      BY <1>2, <1>3, <2>1, <2>3, <2>4, <3>1
    <3>2. CASE u # t /\ x # q
      BY <1>3, <2>2, <2>3, <2>4, <3>2 DEF SkbInv, TxHeadPrivate, SharesBuf
    <3> QED
      BY <3>1, <3>2
  <2> QED
    BY <2>4 DEF TxHeadPrivate, SharesBuf
<1>7. place[q] # "blob" /\ place'[q] = "blob" /\ t \in held'
      /\ \A x \in Skbs \ {q} : place'[x] = "blob" <=> place[x] = "blob"
  BY <1>1, <1>3, Typed
<1> QED
  BY <1>1, <1>2, <1>3, <1>4, <1>5, <1>6, <1>7, WrapKeeps

\* Only geometries and the shared bits change.
LEMMA GeometryKeeps ==
    ASSUME SkbInv, geo' \in [Skbs -> Geo], view' \in [Shadows -> Geo], cloned' \subseteq Shadows,
           UNCHANGED <<place, buf, real, held, counted, dupped, live, pktalloced, notok, cache>>
    PROVE  SkbInv'
<1>1. BooksOK' /\ Linear'
  BY Typed, TypedNext
<1> QED
  BY <1>1 DEF SkbInv, BufOwned, HeldBacked, CountedHeld, ShadowsAccounted, LeaksAreRefusals,
              CacheEmptyWhenDestroyed, PktAllocedBalanced, Allocated, TxHeadPrivate, SharesBuf

\* Edits through the kernel, on the shadow only, and the sync_up of a failed duplication.
LEMMA EditKeeps ==
    ASSUME SkbInv, Faithful, NEW s \in Shadows,
           \/ PktDupFail(s) \/ SkbPut(s) \/ SkbPush(s) \/ SkbPull(s)
           \/ \E len \in Lens : PktSetLen(s, len)
    PROVE  SkbInv'
<1>1. s \in held /\ real[s] \in Skbs /\ view[s] \in Geo
  <2>1. Holds(s)
    BY Zenon DEF PktDupFail, SkbPut, SkbPush, SkbPull, PktSetLen
  <2> QED
    BY <2>1, Typed DEF Holds, SkbInv, HeldBacked
<1>2. sync_up(s) = view[s]
  BY <1>1, SyncUpExact
<1>3. ASSUME NEW g \in Geo, NEW i, Edit(s, g, i) PROVE SkbInv'
  <2>1. geo' \in [Skbs -> Geo] /\ view' \in [Shadows -> Geo] /\ cloned' \subseteq Shadows
    BY <1>1, <1>3, Typed DEF Edit, sync_down
  <2> QED
    BY <1>3, <2>1, GeometryKeeps DEF Edit
<1>4. CASE PktDupFail(s)
  <2>1. geo' \in [Skbs -> Geo]
    BY <1>1, <1>2, <1>4, Typed DEF PktDupFail
  <2> QED
    BY <1>4, <2>1, Typed, GeometryKeeps DEF PktDupFail, shadowSide
<1>5. CASE SkbPut(s)
  BY <1>1, <1>2, <1>3, <1>5, EditsLinear DEF SkbPut
<1>6. CASE SkbPush(s)
  BY <1>1, <1>2, <1>3, <1>6, EditsLinear DEF SkbPush
<1>7. CASE SkbPull(s)
  BY <1>1, <1>2, <1>3, <1>7, EditsLinear DEF SkbPull
<1>8. ASSUME NEW len \in Lens, PktSetLen(s, len) PROVE SkbInv'
  <2> DEFINE g == [view[s] EXCEPT !.len = len, !.tail = view[s].data + len]
  <2>1. g \in Geo
    BY <1>1, <1>8, SetLenLinear DEF PktSetLen, trimmed
  <2>2. view' = [view EXCEPT ![s] = g]
    BY <1>8, <1>1, Typed DEF PktSetLen, trimmed
  <2> HIDE DEF g
  <2>3. geo' \in [Skbs -> Geo] /\ view' \in [Shadows -> Geo] /\ cloned' \subseteq Shadows
    BY <1>8, <2>1, <2>2, Typed DEF PktSetLen, kernelSide
  <2> QED
    BY <1>8, <2>3, GeometryKeeps DEF PktSetLen, kernelSide
<1> QED
  BY <1>4, <1>5, <1>6, <1>7, <1>8

\* The count of packets.
LEMMA CountKeeps ==
    ASSUME SkbInv, \/ PktGetFail
                   \/ \E s \in Shadows : PktFrmNative(s) \/ PktToNative(s)
    PROVE  SkbInv'
<1>1. /\ UNCHANGED <<place, buf, geo, real, held, view, cloned, dupped, live, notok, cache>>
      /\ \/ counted' = counted /\ pktalloced' = (pktalloced + 1) - 1
         \/ \E s \in held : \/ s \notin counted /\ counted' = counted \cup {s} /\ pktalloced' = pktalloced + 1
                            \/ s \in counted /\ counted' = counted \ {s} /\ pktalloced' = pktalloced - 1
  BY DEF PktGetFail, PktFrmNative, PktToNative, Holds, kernelSide, shadowSide, pktget_fail_count
<1>2. pktalloced \in Int /\ pktalloced = Cardinality(counted) /\ IsFiniteSet(counted)
  BY Finite, Books, Typed
<1>3. counted' \subseteq held' /\ pktalloced' \in Int
  BY <1>1, <1>2, Typed
<1>4. pktalloced' = Cardinality(counted')
  BY <1>1, <1>2, FS_AddElement, FS_RemoveElement
<1>5. BooksOK' /\ Linear'
  BY <1>1, <1>3, Typed, TypedNext
<1> QED
  BY <1>1, <1>3, <1>4, <1>5 DEF SkbInv, BufOwned, HeldBacked, CountedHeld, ShadowsAccounted,
     LeaksAreRefusals, CacheEmptyWhenDestroyed, PktAllocedBalanced, Allocated, TxHeadPrivate, SharesBuf

\* A packet leaves the blob, upwards or to be freed: its one shadow goes with it.
LEMMA LeaveKeeps ==
    ASSUME SkbInv, Faithful, NEW s \in Shadows, NetifRx(s) \/ PktFree(s)
    PROVE  SkbInv'
<1> DEFINE r == real[s]
<1>1. s \in held /\ cache = "up" /\ cache' = cache /\ notok' = notok /\ wl_skb_shadow_put(s)
      /\ pktalloced' = IF s \in counted THEN pktalloced - 1 ELSE pktalloced
  BY DEF NetifRx, PktFree, Holds
<1>2. r \in Skbs /\ place[r] = "blob" /\ view[s] \in Geo
  BY <1>1, Typed DEF SkbInv, HeldBacked
<1>3. /\ real' = [real EXCEPT ![s] = None] /\ view' = [view EXCEPT ![s] = NoGeometry]
      /\ cloned' = cloned \ {s} /\ held' = held \ {s}
  BY <1>1 DEF wl_skb_shadow_put
<1>4. \A t \in held' : t \in held /\ real'[t] = real[t] /\ real[t] \in Skbs /\ real[t] # r
  BY <1>1, <1>3, Typed DEF SkbInv, HeldBacked
<1>5. /\ place' \in [Skbs -> Places] /\ buf' \in [Skbs -> Bufs \cup {None}] /\ geo' \in [Skbs -> Geo]
      /\ dupped' \subseteq Bufs /\ BufOwned' /\ TxHeadPrivate'
      /\ place'[r] # "blob" /\ \A x \in Skbs \ {r} : place'[x] = place[x]
  <2>1. CASE PktFree(s)
    <3>1. FreeSkb(r)
      BY <2>1 DEF PktFree
    <3>2. place'[r] # "blob" /\ \A x \in Skbs \ {r} : place'[x] = place[x]
      BY <1>2, <3>1, Typed DEF FreeSkb
    <3>3. held' \subseteq held
      BY <1>3
    <3> HIDE DEF r
    <3> QED
      BY <1>1, <1>2, <1>4, <3>1, <3>2, <3>3, FreeSkbKeeps
  <2>2. CASE NetifRx(s)
    <3>1. /\ geo' = [geo EXCEPT ![r] = view[s]] /\ place' = [place EXCEPT ![r] = "kernel"]
          /\ UNCHANGED <<buf, dupped>>
      BY <1>1, <1>2, <2>2, SyncUpExact DEF NetifRx
    <3> HIDE DEF r
    <3>2. BufOwned'
      BY <1>2, <3>1, Typed DEF SkbInv, BufOwned
    <3>3. TxHeadPrivate'
      BY <1>4, <3>1 DEF SkbInv, TxHeadPrivate, SharesBuf
    <3> QED
      BY <1>2, <3>1, <3>2, <3>3, Typed DEF Places
  <2> QED
    BY <2>1, <2>2
<1> HIDE DEF r
<1>6. /\ Allocated' = Allocated \ {s} /\ IsFiniteSet(Allocated')
      /\ live' = Cardinality(Allocated') /\ live' \in Nat
      /\ Cardinality(Allocated' \ held') = notok' /\ counted' \subseteq held'
      /\ pktalloced' = Cardinality(counted')
  BY <1>1, PutBooks
<1>7. BooksOK' /\ Linear'
  <2>1. real' \in [Shadows -> Skbs \cup {None}] /\ view' \in [Shadows -> Geo]
        /\ held' \subseteq Shadows /\ cloned' \subseteq Shadows /\ pktalloced' \in Int
    BY <1>1, <1>3, Typed, GeoNew
  <2> QED
    BY <1>1, <1>5, <1>6, <2>1, Typed, TypedNext
<1>8. HeldBacked'
  BY <1>1, <1>3, <1>4, <1>5 DEF SkbInv, HeldBacked, r
<1> QED
  BY <1>1, <1>5, <1>6, <1>7, <1>8, BooksNext

\* The unload: the cache is destroyed only if no shadow is out.
LEMMA ExitKeeps ==
    ASSUME SkbInv, SkbExit
    PROVE  SkbInv'
<1>1. UNCHANGED <<place, buf, geo, real, held, view, cloned, counted, dupped, live, pktalloced, notok>>
      /\ cache' = IF live = 0 THEN "destroyed" ELSE "kept"
  BY DEF SkbExit, kernelSide, shadowSide
<1>2. live = 0 => Allocated = {}
  BY Books, FS_EmptySet
<1>3. BooksOK' /\ Linear'
  BY <1>1, Typed, TypedNext
<1> QED
  BY <1>1, <1>2, <1>3 DEF SkbInv, BufOwned, HeldBacked, CountedHeld, ShadowsAccounted,
     LeaksAreRefusals, CacheEmptyWhenDestroyed, PktAllocedBalanced, Allocated, TxHeadPrivate, SharesBuf

-----------------------------------------------------------------------------
(* Heads and intents *)

\* A step that only moves buffers of packets nobody holds.
LEMMA FaithfulKept ==
    ASSUME SkbInv, Faithful, UNCHANGED <<head, view, intent, real>>, held' \subseteq held,
           \A t \in held' : buf'[real[t]] = buf[real[t]]
    PROVE  Faithful'
  BY DEF Faithful

\* Only one held shadow is concerned: its head is looked up again, and it shows
\* what the blob asked for.
LEMMA FaithfulOne ==
    ASSUME SkbInv, Faithful, NEW s \in Shadows, NEW b \in Bufs \cup {None}, NEW g \in Geo,
           held' \subseteq held \cup {s},
           head' = [head EXCEPT ![s] = b], view' = [view EXCEPT ![s] = g],
           intent' = [intent EXCEPT ![s] = g],
           s \in held' => buf'[real'[s]] = b,
           \A t \in held' \ {s} : real'[t] = real[t] /\ buf'[real[t]] = buf[real[t]]
    PROVE  Faithful'
  BY Typed DEF Faithful

\* The kernel's packets, and those it takes back from the driver.
LEMMA KernelFaithful ==
    ASSUME SkbInv, Faithful,
           \/ \E r \in Skbs, b \in Bufs, len \in Lens : KernelAlloc(r, b, len)
           \/ \E r, q \in Skbs : KernelClone(r, q)
           \/ \E r \in Skbs : KernelFree(r) \/ XmitDrop(r)
    PROVE  Faithful'
<1>1. PICK r \in Skbs : place[r] # "blob" /\ \E x : buf' = [buf EXCEPT ![r] = x]
  BY DEF KernelAlloc, KernelClone, KernelFree, XmitDrop, FreeSkb
<1>2. UNCHANGED <<head, view, intent, real, held>>
  BY DEF KernelAlloc, KernelClone, KernelFree, XmitDrop, shadowSide
<1>3. \A t \in held : real[t] \in Skbs /\ real[t] # r
  BY <1>1, Typed DEF SkbInv, HeldBacked
<1>4. \A t \in held : buf'[real[t]] = buf[real[t]]
  BY <1>1, <1>3, Typed
<1> QED
  BY <1>2, <1>4, FaithfulKept

\* A new shadow points into the buffer its packet has after the step.
LEMMA WrapFaithful ==
    ASSUME SkbInv, Faithful, NEW r \in Skbs, NEW s \in Shadows, NEW b \in Bufs, NEW g \in Geo, NEW sh,
           wl_skb_wrap(s, r, b, g, sh), held' \subseteq held \cup {s}, place[r] # "blob",
           buf' = [buf EXCEPT ![r] = b]
    PROVE  Faithful'
<1>1. /\ head' = [head EXCEPT ![s] = b] /\ view' = [view EXCEPT ![s] = g]
      /\ intent' = [intent EXCEPT ![s] = g] /\ real' = [real EXCEPT ![s] = r] /\ real[s] = None
  BY DEF wl_skb_wrap, sync_down
<1>2. \A t \in held : real[t] \in Skbs /\ real[t] # r /\ t # s
  BY <1>1, Typed DEF SkbInv, HeldBacked
<1>3. \A t \in held' \ {s} : real'[t] = real[t] /\ buf'[real[t]] = buf[real[t]]
  BY <1>1, <1>2, Typed
<1>4. buf'[real'[s]] = b
  BY <1>1, Typed
<1> QED
  BY <1>1, <1>3, <1>4, FaithfulOne

\* Packets that cross into the blob.
LEMMA CrossFaithful ==
    ASSUME SkbInv, Faithful, NEW r \in Skbs, NEW s \in Shadows,
           \/ XmitTake(r, s) \/ XmitRefuse(r, s)
           \/ \E b \in Bufs : DevAllocSkb(r, b, s) \/ \E len \in Lens : PktGet(r, b, s, len)
    PROVE  Faithful'
<1>1. CASE XmitTake(r, s) \/ XmitRefuse(r, s)
  <2>1. PICK b \in skb_cow_head(r) : /\ buf' = [buf EXCEPT ![r] = b]
                                     /\ wl_skb_wrap(s, r, b, geo[r], \E q \in Skbs \ {r} : buf[q] = b)
    BY <1>1 DEF XmitTake, XmitRefuse
  <2>2. place[r] = "kernel" /\ held' \subseteq held \cup {s} /\ geo[r] \in Geo
    BY <1>1, Typed DEF XmitTake, XmitRefuse
  <2>3. b \in Bufs
    BY <2>1, <2>2, Typed DEF skb_cow_head, FreeBufs, SkbInv, BufOwned
  <2> QED
    BY <2>1, <2>2, <2>3, WrapFaithful
<1>2. ASSUME NEW b \in Bufs, NEW len \in Lens, DevAllocSkb(r, b, s) \/ PktGet(r, b, s, len)
      PROVE  Faithful'
  <2>1. place[r] = "free" /\ held' = held \cup {s} /\ buf' = [buf EXCEPT ![r] = b]
    BY <1>2 DEF DevAllocSkb, PktGet
  <2>2. 0 \in Lens
    BY SkbAssumption DEF Lens
  <2>3. \E l \in Lens : wl_skb_wrap(s, r, b, Fresh(l), FALSE)
    BY <1>2, <2>2 DEF DevAllocSkb, PktGet
  <2> QED
    BY <2>1, <2>3, GeoNew, WrapFaithful
<1>3. 0 \in Lens
  BY SkbAssumption DEF Lens
<1> QED
  BY <1>1, <1>2, <1>3

\* A duplicate points into the buffer of its original.
LEMMA DupFaithful ==
    ASSUME SkbInv, Faithful, NEW s \in Shadows, NEW t \in Shadows, NEW q \in Skbs, PktDup(s, q, t)
    PROVE  Faithful'
<1>1. s \in held /\ place[q] = "free" /\ held' = held \cup {t}
  BY DEF PktDup, Holds
<1>2. real[s] \in Skbs /\ view[s] \in Geo /\ buf[real[s]] \in Bufs
  BY <1>1, Typed DEF SkbInv, HeldBacked, BufOwned
<1>3. wl_skb_wrap(t, q, buf[real[s]], view[s], TRUE) /\ buf' = [buf EXCEPT ![q] = buf[real[s]]]
  BY <1>1, <1>2, SyncUpExact DEF PktDup
<1> QED
  BY <1>1, <1>2, <1>3, WrapFaithful

\* Edits of a packet whose head has not moved give what the blob asks for.
LEMMA EditFaithful ==
    ASSUME SkbInv, Faithful, NEW s \in Shadows,
           \/ PktDupFail(s) \/ SkbPut(s) \/ SkbPush(s) \/ SkbPull(s)
           \/ \E len \in Lens : PktSetLen(s, len)
    PROVE  Faithful'
<1>1. s \in held /\ real[s] \in Skbs /\ view[s] \in Geo
  <2>1. Holds(s)
    BY Zenon DEF PktDupFail, SkbPut, SkbPush, SkbPull, PktSetLen
  <2> QED
    BY <2>1, Typed DEF Holds, SkbInv, HeldBacked
<1>2. sync_up(s) = view[s] /\ intent[s] = view[s] /\ head[s] = buf[real[s]]
  BY <1>1, SyncUpExact DEF Faithful
<1>3. ASSUME NEW g \in Geo, Edit(s, g, g) PROVE Faithful'
  <2>1. /\ head' = [head EXCEPT ![s] = buf[real[s]]] /\ view' = [view EXCEPT ![s] = g]
        /\ intent' = [intent EXCEPT ![s] = g] /\ UNCHANGED <<buf, real, held>>
    BY <1>3 DEF Edit, sync_down
  <2>2. buf[real[s]] \in Bufs \cup {None}
    BY <1>1, Typed
  <2> QED
    BY <1>1, <2>1, <2>2, FaithfulOne
<1>4. CASE PktDupFail(s)
  <2>1. UNCHANGED <<head, view, intent, real, held, buf>>
    BY <1>4 DEF PktDupFail, shadowSide
  <2> QED
    BY <2>1, FaithfulKept
<1>5. CASE SkbPut(s)
  <2>1. skb_put(view[s]) \in Geo /\ Edit(s, skb_put(view[s]), skb_put(view[s]))
    BY <1>1, <1>2, <1>5, EditsLinear DEF SkbPut
  <2> QED
    BY <1>3, <2>1
<1>6. CASE SkbPush(s)
  <2>1. skb_push(view[s]) \in Geo /\ Edit(s, skb_push(view[s]), skb_push(view[s]))
    BY <1>1, <1>2, <1>6, EditsLinear DEF SkbPush
  <2> QED
    BY <1>3, <2>1
<1>7. CASE SkbPull(s)
  <2>1. skb_pull(view[s]) \in Geo /\ Edit(s, skb_pull(view[s]), skb_pull(view[s]))
    BY <1>1, <1>2, <1>7, EditsLinear DEF SkbPull
  <2> QED
    BY <1>3, <2>1
<1>8. ASSUME NEW len \in Lens, PktSetLen(s, len) PROVE Faithful'
  <2> DEFINE g == trimmed(view[s], len)
  <2>1. g \in Geo
    BY <1>1, <1>8, SetLenLinear DEF PktSetLen, trimmed
  <2>2. view' = [view EXCEPT ![s] = g] /\ intent' = [intent EXCEPT ![s] = g]
        /\ UNCHANGED <<head, buf, real, held>>
    BY <1>1, <1>2, <1>8, Typed DEF PktSetLen, kernelSide, Faithful
  <2> HIDE DEF g
  <2>3. head' = [head EXCEPT ![s] = head[s]] /\ head[s] \in Bufs \cup {None}
    BY <2>2 DEF Faithful
  <2> QED
    BY <1>1, <1>2, <2>1, <2>2, <2>3, FaithfulOne
<1> QED
  BY <1>4, <1>5, <1>6, <1>7, <1>8

\* A packet that leaves takes no other packet's buffer along.
LEMMA LeaveFaithful ==
    ASSUME SkbInv, Faithful, NEW s \in Shadows, NetifRx(s) \/ PktFree(s)
    PROVE  Faithful'
<1>1. s \in held /\ wl_skb_shadow_put(s)
  BY DEF NetifRx, PktFree, Holds
<1>2. /\ real' = [real EXCEPT ![s] = None] /\ head' = [head EXCEPT ![s] = None]
      /\ view' = [view EXCEPT ![s] = NoGeometry] /\ intent' = [intent EXCEPT ![s] = NoGeometry]
      /\ held' = held \ {s}
  BY <1>1 DEF wl_skb_shadow_put
<1>3. buf' = buf \/ buf' = [buf EXCEPT ![real[s]] = None]
  BY DEF NetifRx, PktFree, FreeSkb
<1>4. \A t \in held' : t # s /\ real'[t] = real[t] /\ real[t] \in Skbs /\ real[t] # real[s]
  BY <1>1, <1>2, Typed DEF SkbInv, HeldBacked
<1>5. \A t \in held' : buf'[real[t]] = buf[real[t]]
  BY <1>3, <1>4, Typed
<1> QED
  BY <1>2, <1>4, <1>5, GeoNew, FaithfulOne

\* The counts and the unload touch neither.
LEMMA CountFaithful ==
    ASSUME SkbInv, Faithful, \/ PktGetFail \/ SkbExit \/ UNCHANGED vars
                             \/ \E s \in Shadows : PktFrmNative(s) \/ PktToNative(s)
    PROVE  Faithful'
<1>1. UNCHANGED <<head, view, intent, real, held, buf>>
  BY DEF PktGetFail, SkbExit, PktFrmNative, PktToNative, kernelSide, shadowSide, vars
<1> QED
  BY <1>1, FaithfulKept

-----------------------------------------------------------------------------

\* No packet is anybody's at first.
LEMMA SkbInit == Init => SkbInv /\ Faithful
<1> SUFFICES ASSUME Init PROVE SkbInv /\ Faithful
  OBVIOUS
<1>1. BooksOK /\ Linear /\ Faithful
  BY GeoNew, SkbAssumption DEF Init, BooksOK, Linear, Faithful
<1>2. Allocated = {} /\ counted = {} /\ held = {}
  BY DEF Init, Allocated
<1>3. CountedHeld /\ ShadowsAccounted
  BY <1>2, FS_EmptySet DEF Init, CountedHeld, ShadowsAccounted, LeaksAreRefusals,
                           CacheEmptyWhenDestroyed, PktAllocedBalanced
<1>4. BufOwned /\ HeldBacked /\ TxHeadPrivate
  BY DEF Init, BufOwned, HeldBacked, TxHeadPrivate
<1> QED
  BY <1>1, <1>3, <1>4 DEF SkbInv

\* Every step keeps the invariant.
LEMMA SkbStep == SkbInv /\ Faithful /\ [Next]_vars => SkbInv' /\ Faithful'
<1> SUFFICES ASSUME SkbInv, Faithful, [Next]_vars PROVE SkbInv' /\ Faithful'
  OBVIOUS
<1>1. CASE UNCHANGED vars
  BY <1>1, Typed, GeometryKeeps, CountFaithful DEF vars, kernelSide, shadowSide
<1>2. CASE Next
  <2>1. SkbInv'
    BY <1>2, KernelMakesKeeps, DropKeeps, XmitKeeps, AllocKeeps, PktDupKeeps, EditKeeps, CountKeeps,
       LeaveKeeps, ExitKeeps DEF Next
  <2>2. Faithful'
    BY <1>2, KernelFaithful, CrossFaithful, DupFaithful, EditFaithful, LeaveFaithful, CountFaithful
       DEF Next
  <2> QED
    BY <2>1, <2>2
<1> QED
  BY <1>1, <1>2

\* Throughout, packets, buffers, shadows and their counts fit together as SkbInv says,
\* and a held shadow shows what the blob has made of its packet.
THEOREM SkbCorrect == Spec => [](SkbInv /\ Faithful)
  BY SkbInit, SkbStep, PTL DEF Spec

\* Every packet the blob holds has exactly one shadow, and is nobody else's.
THEOREM SkbHeldBacked == Spec => []HeldBacked
<1>1. SkbInv => HeldBacked
  BY DEF SkbInv
<1> QED
  BY <1>1, SkbCorrect, PTL

\* wl_skb_live, pktalloced and the state of the slab cache agree with the shadows
\* and packets there are; only refused transmits leave shadows behind.
THEOREM SkbShadowsAccounted == Spec => []ShadowsAccounted
<1>1. SkbInv => ShadowsAccounted
  BY DEF SkbInv
<1> QED
  BY <1>1, SkbCorrect, PTL

\* A packet taken for transmit has a head of its own.
THEOREM SkbTxHeadPrivate == Spec => []TxHeadPrivate
<1>1. SkbInv => TxHeadPrivate
  BY DEF SkbInv
<1> QED
  BY <1>1, SkbCorrect, PTL

\* What the blob hands up reaches the stack with every edit the blob has made, and
\* no sync_up is ever refused.
THEOREM SkbNoEditLost == Spec => NoEditLost
<1> DEFINE HandedUp == \A s \in held : s \notin held' /\ place'[real[s]] = "kernel"
                                         => geo'[real[s]] = intent[s]
<1>1. SkbInv /\ Faithful /\ [Next]_vars => [HandedUp]_vars
  <2> SUFFICES ASSUME SkbInv, Faithful, Next PROVE HandedUp
    OBVIOUS
  <2>1. CASE held \subseteq held'
    BY <2>1
  <2>2. ASSUME NEW s \in Shadows, PktFree(s) PROVE HandedUp
    <3>1. held' = held \ {s} /\ place' = [place EXCEPT ![real[s]] = "free"]
      BY <2>2 DEF PktFree, wl_skb_shadow_put, FreeSkb
    <3>2. s \in held => place'[real[s]] = "free"
      BY <3>1, Typed DEF SkbInv, HeldBacked
    <3> QED
      BY <3>1, <3>2
  <2>3. ASSUME NEW s \in Shadows, NetifRx(s) PROVE HandedUp
    <3>1. s \in held /\ real[s] \in Skbs /\ view[s] \in Geo
      BY <2>3, Typed DEF NetifRx, Holds, SkbInv, HeldBacked
    <3>2. held' = held \ {s} /\ geo' = [geo EXCEPT ![real[s]] = view[s]]
      BY <2>3, <3>1, SyncUpExact DEF NetifRx, wl_skb_shadow_put
    <3>3. intent[s] = view[s]
      BY <3>1 DEF Faithful
    <3> QED
      BY <3>1, <3>2, <3>3, Typed
  <2> HIDE DEF HandedUp
  <2> QED
    BY <2>1, <2>2, <2>3 DEF Next, KernelAlloc, KernelClone, KernelFree, XmitDrop, XmitTake, XmitRefuse,
       DevAllocSkb, PktGet, PktGetFail, PktDup, PktDupFail, SkbPut, SkbPush, SkbPull, Edit, PktSetLen,
       PktFrmNative, PktToNative, SkbExit
<1> QED
  BY <1>1, SkbCorrect, PTL DEF Spec, NoEditLost


-----------------------------------------------------------------------------
(* Net devices *)

\* A device that is up, or being opened, is registered, and a registered one is
\* present.
UpInv ==
    /\ \A d \in realStart : reg[d] = "registered"
    /\ opening \subseteq realStart
    /\ \A d \in Devs : reg[d] = "registered" => d \in realPresent

\* A bit operation under way has found its device.
OpOnDev == \A c \in Threads : pc[c] # "idle" => dev[c] \in Devs

\* Both sides know a registered device by one name.
OneName == \A d \in Devs : reg[d] = "registered" => realName[d] = shName[d]

NetdevInv == DevTypeOK /\ OpOnDev /\ UpInv /\ OneName /\ ReadinessMirrored /\ MulticastAdmitted

-----------------------------------------------------------------------------
(* The life of a device *)

\* A new device is neither registered nor up.
LEMMA DevAllocKeeps ==
    ASSUME NetdevInv, NEW d \in Devs, Alloc(d)
    PROVE  NetdevInv'
<1> USE DEF NetdevInv, DevTypeOK, state, queues, names, modes,
      calls, Alloc
<1>1. DevTypeOK' /\ OpOnDev'
  BY DEF OpOnDev, Lives
<1>2. UpInv'
  BY DEF UpInv
<1>3. OneName'
  BY DEF OneName
<1>4. ReadinessMirrored'
  BY DEF ReadinessMirrored, ReadySeen, NoReceiveAfterUnregister
<1>5. MulticastAdmitted'
  BY DEF MulticastAdmitted, Settled
<1> QED
  BY <1>1, <1>2, <1>3, <1>4, <1>5

\* The blob renames a device that is not registered yet.
LEMMA BlobRenameKeeps ==
    ASSUME NetdevInv, NEW d \in Devs, BlobRename(d)
    PROVE  NetdevInv'
<1> USE DEF NetdevInv, DevTypeOK, state, queues, names, modes,
      calls, BlobRename
<1>1. DevTypeOK' /\ OpOnDev'
  BY DEF OpOnDev, Names
<1>2. UpInv'
  BY DEF UpInv
<1>3. OneName'
  BY DEF OneName
<1>4. ReadinessMirrored'
  BY DEF ReadinessMirrored, ReadySeen, NoReceiveAfterUnregister
<1>5. MulticastAdmitted'
  BY DEF MulticastAdmitted, Settled
<1> QED
  BY <1>1, <1>2, <1>3, <1>4, <1>5

\* register_netdev: the shadow gets the state bits and the name that results.
LEMMA RegisterKeeps ==
    ASSUME NetdevInv, NEW d \in Devs, Register(d)
    PROVE  NetdevInv'
<1> USE DEF NetdevInv, DevTypeOK, state, queues, names, modes,
      calls, Register, shadow_sync_state, push_name, register_name, Put
<1>1. DevTypeOK' /\ OpOnDev'
  BY DEF OpOnDev, Lives, Names
<1>2. UpInv'
  BY DEF UpInv
<1>3. OneName'
  BY DEF OneName
<1>4. ReadinessMirrored'
  BY DEF ReadinessMirrored, ReadySeen, NoReceiveAfterUnregister
<1>5. MulticastAdmitted'
  BY DEF UpInv, MulticastAdmitted, Settled
<1> QED
  BY <1>1, <1>2, <1>3, <1>4, <1>5

\* A failed registration leaves the device unregistered.
LEMMA RegisterFailKeeps ==
    ASSUME NetdevInv, NEW d \in Devs, RegisterFail(d)
    PROVE  NetdevInv'
<1> USE DEF NetdevInv, DevTypeOK, state, queues, names, modes,
      calls, RegisterFail, push_name
<1>1. DevTypeOK' /\ OpOnDev'
  BY DEF OpOnDev
<1>2. UpInv'
  BY DEF UpInv
<1>3. OneName'
  BY DEF OneName
<1>4. ReadinessMirrored'
  BY DEF ReadinessMirrored, ReadySeen, NoReceiveAfterUnregister
<1>5. MulticastAdmitted'
  BY DEF MulticastAdmitted, Settled
<1> QED
  BY <1>1, <1>2, <1>3, <1>4, <1>5

\* __dev_open: the shadow gets START and PRESENT before the blob's ndo_open.
LEMMA OpenBeginKeeps ==
    ASSUME NetdevInv, NEW d \in Devs, OpenBegin(d)
    PROVE  NetdevInv'
<1> USE DEF NetdevInv, DevTypeOK, state, queues, names, modes,
      calls, OpenBegin, Settled, shadow_sync_state, Put
<1>1. DevTypeOK' /\ OpOnDev'
  BY DEF OpOnDev
<1>2. UpInv'
  BY DEF UpInv
<1>3. OneName'
  BY DEF OneName
<1>4. ReadinessMirrored'
  BY DEF UpInv, ReadinessMirrored, ReadySeen, NoReceiveAfterUnregister
<1>5. MulticastAdmitted'
  BY DEF MulticastAdmitted
<1> QED
  BY <1>1, <1>2, <1>3, <1>4, <1>5

\* The kernel's call of set_rx_mode after ndo_open brings the multicast mode
\* over.
LEMMA OpenOkKeeps ==
    ASSUME NetdevInv, NEW d \in Devs, OpenOk(d)
    PROVE  NetdevInv'
<1> USE DEF NetdevInv, DevTypeOK, state, queues, names, modes,
      calls, OpenOk, wants_multicast, Put
<1>1. DevTypeOK' /\ OpOnDev'
  BY DEF OpOnDev
<1>2. UpInv'
  BY DEF UpInv
<1>3. OneName'
  BY DEF OneName
<1>4. ReadinessMirrored'
  BY DEF ReadinessMirrored, ReadySeen, NoReceiveAfterUnregister
<1>5. MulticastAdmitted'
  BY DEF MulticastAdmitted, Settled
<1> QED
  BY <1>1, <1>2, <1>3, <1>4, <1>5

\* A failed ndo_open: the device is down again.
LEMMA OpenFailKeeps ==
    ASSUME NetdevInv, NEW d \in Devs, OpenFail(d)
    PROVE  NetdevInv'
<1> USE DEF NetdevInv, DevTypeOK, state, queues, names, modes,
      calls, OpenFail
<1>1. DevTypeOK' /\ OpOnDev'
  BY DEF OpOnDev
<1>2. UpInv'
  BY DEF UpInv
<1>3. OneName'
  BY DEF OneName
<1>4. ReadinessMirrored'
  BY DEF ReadinessMirrored, ReadySeen, NoReceiveAfterUnregister
<1>5. MulticastAdmitted'
  BY DEF MulticastAdmitted, Settled
<1> QED
  BY <1>1, <1>2, <1>3, <1>4, <1>5

\* __dev_close takes START away on both sides.
LEMMA StopKeeps ==
    ASSUME NetdevInv, NEW d \in Devs, Stop(d)
    PROVE  NetdevInv'
<1> USE DEF NetdevInv, DevTypeOK, state, queues, names, modes,
      calls, Stop, Settled, shadow_sync_state, Put
<1>1. DevTypeOK' /\ OpOnDev'
  BY DEF OpOnDev
<1>2. UpInv'
  BY DEF UpInv
<1>3. OneName'
  BY DEF OneName
<1>4. ReadinessMirrored'
  BY DEF UpInv, ReadinessMirrored, ReadySeen, NoReceiveAfterUnregister
<1>5. MulticastAdmitted'
  BY DEF MulticastAdmitted
<1> QED
  BY <1>1, <1>2, <1>3, <1>4, <1>5

\* The kernel tells the shadow of each change while the device is up.
LEMMA KernelMulticastKeeps ==
    ASSUME NetdevInv, NEW d \in Devs, KernelMulticast(d)
    PROVE  NetdevInv'
<1> USE DEF NetdevInv, DevTypeOK, state, queues, names, modes,
      calls, KernelMulticast, Settled, wants_multicast, Put
<1>1. DevTypeOK' /\ OpOnDev'
  BY DEF OpOnDev
<1>2. UpInv'
  BY DEF UpInv
<1>3. OneName'
  BY DEF OneName
<1>4. ReadinessMirrored'
  BY DEF ReadinessMirrored, ReadySeen, NoReceiveAfterUnregister
<1>5. MulticastAdmitted'
  BY DEF MulticastAdmitted
<1> QED
  BY <1>1, <1>2, <1>3, <1>4, <1>5

\* unregister_netdev closes the device.
LEMMA UnregisterBeginKeeps ==
    ASSUME NetdevInv, NEW d \in Devs, UnregisterBegin(d)
    PROVE  NetdevInv'
<1> USE DEF NetdevInv, DevTypeOK, state, queues, names, modes,
      calls, UnregisterBegin, Settled, shadow_sync_state, Put
<1>1. DevTypeOK' /\ OpOnDev'
  BY DEF OpOnDev, Lives
<1>2. UpInv'
  BY DEF UpInv
<1>3. OneName'
  BY DEF OneName
<1>4. ReadinessMirrored'
  BY DEF ReadinessMirrored, ReadySeen, NoReceiveAfterUnregister
<1>5. MulticastAdmitted'
  BY DEF MulticastAdmitted
<1> QED
  BY <1>1, <1>2, <1>3, <1>4, <1>5

\* The trailing sync clears START even after a failed open.
LEMMA UnregisterEndKeeps ==
    ASSUME NetdevInv, NEW d \in Devs, UnregisterEnd(d)
    PROVE  NetdevInv'
<1> USE DEF NetdevInv, DevTypeOK, state, queues, names, modes,
      calls, UnregisterEnd, shadow_sync_state, Put
<1>1. DevTypeOK' /\ OpOnDev'
  BY DEF OpOnDev, Lives
<1>2. UpInv'
  BY DEF UpInv
<1>3. OneName'
  BY DEF OneName
<1>4. ReadinessMirrored'
  BY DEF UpInv, ReadinessMirrored, ReadySeen, NoReceiveAfterUnregister
<1>5. MulticastAdmitted'
  BY DEF MulticastAdmitted, Settled
<1> QED
  BY <1>1, <1>2, <1>3, <1>4, <1>5

\* free_netdev of a device that is not registered.
LEMMA FreeKeeps ==
    ASSUME NetdevInv, NEW d \in Devs, Free(d)
    PROVE  NetdevInv'
<1> USE DEF NetdevInv, DevTypeOK, state, queues, names, modes,
      calls, Free, free_netdev, Busy
<1>1. DevTypeOK' /\ OpOnDev'
  BY DEF OpOnDev, Lives, Names
<1>2. UpInv'
  BY DEF UpInv
<1>3. OneName'
  BY DEF OneName
<1>4. ReadinessMirrored'
  BY DEF ReadinessMirrored, ReadySeen, NoReceiveAfterUnregister
<1>5. MulticastAdmitted'
  BY DEF MulticastAdmitted, Settled
<1> QED
  BY <1>1, <1>2, <1>3, <1>4, <1>5

\* The unload frees every device; none is registered.
LEMMA DevExitKeeps ==
    ASSUME NetdevInv, Exit
    PROVE  NetdevInv'
<1>1. DevTypeOK' /\ OpOnDev'
  BY DEF NetdevInv, DevTypeOK, OpOnDev, Exit, calls, Lives, Names
<1> QED
  BY <1>1 DEF NetdevInv, DevTypeOK, Exit, UpInv, OneName, ReadinessMirrored, ReadySeen,
     NoReceiveAfterUnregister, MulticastAdmitted

\* The queue operations touch nothing of this.
LEMMA BitopKeeps ==
    ASSUME NetdevInv, NEW c \in Threads,
           BitopStep(c) \/ (\E d \in Devs, o \in {"set", "test_and_clear"} : BitopFind(c, d, o))
    PROVE  NetdevInv'
<1>1. UNCHANGED <<reg, opening, state, names, modes, unloaded>>
  BY DEF BitopStep, BitopFind, BitopTest, BitopWrite, BitopApply
<1>2. DevTypeOK' /\ OpOnDev'
  <2> USE DEF NetdevInv, DevTypeOK, OpOnDev, state, queues, names, modes
  <2>1. ASSUME NEW d \in Devs, NEW o \in {"set", "test_and_clear"}, BitopFind(c, d, o)
        PROVE DevTypeOK' /\ OpOnDev'
    BY <2>1 DEF BitopFind
  <2>2. CASE BitopTest(c)
    BY <2>2 DEF BitopTest, Put
  <2>3. CASE BitopWrite(c)
    BY <2>3 DEF BitopWrite, Put
  <2>4. CASE BitopApply(c)
    BY <2>4 DEF BitopApply
  <2> QED
    BY <2>1, <2>2, <2>3, <2>4 DEF BitopStep
<1> QED
  BY <1>1, <1>2 DEF NetdevInv, UpInv, OneName, ReadinessMirrored, ReadySeen,
     NoReceiveAfterUnregister, MulticastAdmitted, Settled, state, names, modes

\* No device exists at first.
LEMMA NetdevInit == DevInit => NetdevInv
<1> SUFFICES ASSUME DevInit PROVE NetdevInv
  OBVIOUS
<1>1. DevTypeOK /\ OpOnDev
  BY DEF DevInit, DevTypeOK, OpOnDev, Lives, Names
<1>2. UpInv /\ OneName /\ ReadinessMirrored /\ MulticastAdmitted
  BY DEF DevInit, UpInv, OneName, ReadinessMirrored, ReadySeen, NoReceiveAfterUnregister,
     MulticastAdmitted
<1> QED
  BY <1>1, <1>2 DEF NetdevInv

\* Every step keeps NetdevInv.
LEMMA NetdevStep == NetdevInv /\ [DevNext]_devVars => NetdevInv'
<1> SUFFICES ASSUME NetdevInv, [DevNext]_devVars PROVE NetdevInv'
  OBVIOUS
<1>1. CASE UNCHANGED devVars
  BY <1>1 DEF devVars, state, queues, names, modes, calls, NetdevInv, DevTypeOK, OpOnDev,
     UpInv, OneName, ReadinessMirrored, ReadySeen, NoReceiveAfterUnregister,
     MulticastAdmitted, Settled
<1>2. ASSUME NEW d \in Devs, Alloc(d) \/ BlobRename(d) \/ Register(d) \/ RegisterFail(d)
      PROVE NetdevInv'
  BY <1>2, DevAllocKeeps, BlobRenameKeeps, RegisterKeeps, RegisterFailKeeps
<1>3. ASSUME NEW d \in Devs, OpenBegin(d) \/ OpenOk(d) \/ OpenFail(d) \/ Stop(d)
                                   \/ KernelMulticast(d)
      PROVE NetdevInv'
  BY <1>3, OpenBeginKeeps, OpenOkKeeps, OpenFailKeeps, StopKeeps, KernelMulticastKeeps
<1>4. ASSUME NEW d \in Devs, UnregisterBegin(d) \/ UnregisterEnd(d) \/ Free(d) PROVE NetdevInv'
  BY <1>4, UnregisterBeginKeeps, UnregisterEndKeeps, FreeKeeps
<1> QED
  BY <1>1, <1>2, <1>3, <1>4, BitopKeeps, DevExitKeeps DEF DevNext, Unloaded

\* NetdevInv is an invariant, with or without serialised queue operations.
THEOREM NetdevCorrect == DevSpec => []NetdevInv
<1>1. DevInit => NetdevInv
  BY NetdevInit
<1>2. NetdevInv /\ [DevNext]_devVars => NetdevInv'
  BY NetdevStep
<1> QED
  BY <1>1, <1>2, PTL DEF DevSpec

\* The shadow tells the blob that a running interface is ready, and never that
\* an unregistered one is (shadow_sync_state).
THEOREM ReadinessCorrect == DevSpec => []ReadinessMirrored
<1>1. NetdevInv => ReadinessMirrored
  BY DEF NetdevInv
<1> QED
  BY <1>1, NetdevCorrect, PTL

\* The blob's filter admits the multicast frames that the kernel expects
\* (wl_tramp_set_rx_mode), including addresses added while the device was down.
THEOREM MulticastCorrect == DevSpec => []MulticastAdmitted
<1>1. NetdevInv => MulticastAdmitted
  BY DEF NetdevInv
<1> QED
  BY <1>1, NetdevCorrect, PTL

\* An interface registers under the name the blob chose, and keeps one name on
\* both sides (wl_shim_register_netdev).
THEOREM NamesCorrect == DevSpec => NamesAgree
<1> DEFINE Agree == \A d \in Devs :
                /\ reg[d] # "registered" /\ reg'[d] = "registered" /\ shName[d] = "vif"
                     => realName'[d] = "vif"
                /\ reg'[d] = "registered" => realName'[d] = shName'[d]
<1>1. NetdevInv /\ NetdevInv' /\ [DevNext]_devVars => [Agree]_devVars
  <2> SUFFICES ASSUME NetdevInv, NetdevInv', DevNext, NEW d \in Devs, reg[d] # "registered",
                      reg'[d] = "registered", shName[d] = "vif"
               PROVE  realName'[d] = "vif"
    BY DEF NetdevInv, OneName
  <2>1. Register(d)
    <3>1. ASSUME NEW e \in Devs, e # d, Register(e) PROVE FALSE
      BY <3>1 DEF Register
    <3>2. ASSUME NEW e \in Devs,
                 \/ BlobRename(e) \/ RegisterFail(e) \/ OpenBegin(e) \/ OpenOk(e)
                 \/ OpenFail(e) \/ Stop(e) \/ KernelMulticast(e)
          PROVE  FALSE
      BY <3>2 DEF BlobRename, RegisterFail, OpenBegin, OpenOk, OpenFail, Stop,
         KernelMulticast
    <3>5. ASSUME NEW e \in Devs, Alloc(e) \/ UnregisterBegin(e) \/ UnregisterEnd(e) PROVE FALSE
      <4>1. reg' \in {[reg EXCEPT ![e] = "allocated"], [reg EXCEPT ![e] = "unregistering"],
                       [reg EXCEPT ![e] = "unregistered"]}
        BY <3>5 DEF Alloc, UnregisterBegin, UnregisterEnd
      <4> QED
        BY <4>1 DEF NetdevInv, DevTypeOK
    <3>6. ASSUME NEW e \in Devs, Free(e) PROVE FALSE
      BY <3>6 DEF Free, free_netdev
    <3>3. ~ Exit /\ ~ Unloaded
      BY DEF Exit, Unloaded, devVars
    <3>4. \A c \in Threads : ~ BitopStep(c) /\ \A e \in Devs, o \in {"set", "test_and_clear"} :
                                                  ~ BitopFind(c, e, o)
      BY DEF BitopStep, BitopFind, BitopTest, BitopWrite, BitopApply
    <3> QED
      BY <3>1, <3>2, <3>3, <3>4, <3>5, <3>6 DEF DevNext
  <2> QED
    BY <2>1 DEF Register, push_name, register_name, NetdevInv, DevTypeOK
<1> QED
  BY <1>1, NetdevCorrect, PTL DEF DevSpec, NamesAgree

=============================================================================
