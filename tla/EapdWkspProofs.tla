--------------------------- MODULE EapdWkspProofs ---------------------------
(***************************************************************************)
(* Proofs about EapdWksp: a raw socket that the apps of an interface share *)
(* is open while one of them uses it and no interface has two in use       *)
(* (SocketsCounted), and a radio's event mask has the events of every name *)
(* that event_init could write (EventsCover).                              *)
(*                                                                         *)
(* WkspInv is what makes them inductive: a control block's socket is one   *)
(* of its own interface (OwnSocket), a socket's count is at least the      *)
(* number of apps that hold it, and exactly that if it was never counted   *)
(* twice (Counted), an interface has at most one socket in use             *)
(* (OneSocket), what is still to be opened has none and is listed once     *)
(* (TodoInv), an interface being added has its control block (DifInv), and *)
(* in the middle of event_init the names done and not passed over are      *)
(* served, their radios being known as written to (EventInv): without the  *)
(* latter the next name would start from nothing.                          *)
(***************************************************************************)
EXTENDS EapdWksp, TLAPS, FiniteSetTheorems, WellFoundedInduction, SequenceTheorems

Lans   == {lanifname(i) : i \in AllIfs}
CbList == UNION {[S -> Nat] : S \in SUBSET Lans}
Names  == {NvName[i] : i \in AllIfs}
Raw    == [ifname : Lans, count : Nat, open : BOOLEAN, caps : SUBSET Apps]
Phases == {"off", "opening", "events", "failed", "running", "select", "adding", "stopped"}

WkspTypes ==
    /\ phase \in Phases /\ conf \in [Ifs -> Confs] /\ ifnames \in [Apps -> SUBSET Names]
    /\ cbs \in [Apps -> CbList] /\ brcm \in Seq(Raw) /\ shutdown \in BOOLEAN
    /\ mask = [u \in Units |-> mask[u]]

\* The raw socket of an app on an interface, if it has one.
Sock(a, l) == IF l \in DOMAIN cbs[a] THEN cbs[a][l] ELSE NULL
Uses(a, k) == IF Sock(a, brcm[k].ifname) = k THEN 1 ELSE 0
Users(k)   == Uses("wps", k) + Uses("nas", k) + Uses("ses", k)

\* A control block's socket is for its own interface.
OwnSocket ==
    \A a \in Apps, l \in Lans : Sock(a, l) # NULL =>
        Sock(a, l) \in DOMAIN brcm /\ brcm[Sock(a, l)].ifname = l

\* SocketsCounted, the users counted app by app.
Counted ==
    \A k \in DOMAIN brcm : /\ brcm[k].count >= Users(k)
                           /\ brcm[k].ifname \notin twice => brcm[k].count = Users(k)
                           /\ brcm[k].open <=> brcm[k].count > 0

\* No two sockets in use are for one interface.
OneSocket ==
    \A j, k \in DOMAIN brcm : brcm[j].count > 0 /\ brcm[k].count > 0 /\ brcm[j].ifname = brcm[k].ifname
                              => j = k

SocketInv == OwnSocket /\ Counted /\ OneSocket

\* A list has nothing twice; two lists have nothing in common.
Once(s)     == \A m, n \in DOMAIN s : s[m] = s[n] => m = n
Apart(p, q) == \A m \in DOMAIN p, n \in DOMAIN q : p[m] # q[n]
Join(r, p, q) ==
    \A n \in DOMAIN r : (\E m \in DOMAIN p : r[n] = p[m]) \/ (\E m \in DOMAIN q : r[n] = q[m])

\* What is still to be opened has no socket, and is there once.
TodoInv ==
    phase = "opening" =>
        /\ todo \in Seq(Apps \X Lans)
        /\ \A n \in DOMAIN todo : /\ todo[n][2] \in DOMAIN cbs[todo[n][1]]
                                  /\ Sock(todo[n][1], todo[n][2]) = NULL
        /\ Once(todo)

\* The interface that eapd_add_dif adds has its control block.
DifInv == phase = "adding" => dif \in DynIfs /\ lanifname(dif) \in DOMAIN cbs["nas"]

\* event_init: the names done and not passed over have their events in the mask of a
\* radio that is known to have been written to.
EventInv ==
    phase \in {"events", "adding"} =>
        \A a \in Apps, i \in AllIfs \ (evq \cup unserved) :
            NvName[i] \in ifnames[a] => Unit[i] \in seen /\ bitvec[a] \subseteq mask[Unit[i]]

\* Nothing is there before eapd_wksp_auto_config.
OffInv == phase = "off" => brcm = <<>> /\ \A a \in Apps : DOMAIN cbs[a] = {}

WkspInv == WkspTypes /\ SocketInv /\ TodoInv /\ DifInv /\ OffInv /\ EventInv /\ EventsCover

-----------------------------------------------------------------------------
(* The raw sockets *)

\* A nonempty set of naturals has a least element, which Min is.
LEMMA MinIn ==
    ASSUME NEW S, S \subseteq Nat, S # {}
    PROVE  Min(S) \in S /\ \A y \in S : Min(S) <= y
<1> DEFINE R == {ss \in Nat \X Nat : ss[1] < ss[2]}
<1>1. R = OpToRel(<, Nat)
  BY Zenon DEF OpToRel
<1>2. IsWellFoundedOn(R, Nat)
  BY <1>1, NatLessThanWellFounded, Zenon
<1>3. PICK x \in S : \A y \in S : ~ (<<y, x>> \in R)
  BY <1>2, WFMin
<1>4. \A y \in S : x <= y
  <2> SUFFICES ASSUME NEW y \in S, y < x PROVE FALSE
    OBVIOUS
  <2>1. <<y, x>> \in R
    OBVIOUS
  <2> QED
    BY <1>3, <2>1
<1> QED
  BY <1>4 DEF Min

\* eapd_add_brcm: the socket in use for the interface, else a free slot, else a new one.
LEMMA SlotIs ==
    ASSUME NEW b \in Seq(Raw), NEW l
    PROVE  /\ find_brcm(b, l) # {} => slot(b, l) \in find_brcm(b, l)
           /\ find_brcm(b, l) = {} /\ unused(b) # {} => slot(b, l) \in unused(b)
           /\ find_brcm(b, l) = {} /\ unused(b) = {} => slot(b, l) = Len(b) + 1
<1>1. find_brcm(b, l) \subseteq Nat /\ unused(b) \subseteq Nat
  BY DEF find_brcm, unused
<1>2. find_brcm(b, l) # {} => Min(find_brcm(b, l)) \in find_brcm(b, l)
  BY <1>1, MinIn
<1>3. unused(b) # {} => Min(unused(b)) \in unused(b)
  BY <1>1, MinIn
<1> QED
  BY <1>2, <1>3 DEF slot

\* What the slots are like when an app has got the one for l.
Acquired(a, l, k) ==
    /\ brcm' \in Seq(Raw) /\ k \in Nat \ {0} /\ DOMAIN brcm' = DOMAIN brcm \cup {k}
    /\ \A j \in DOMAIN brcm \ {k} : brcm'[j] = brcm[j]
    /\ brcm'[k].ifname = l /\ brcm'[k].open = TRUE
    /\ \/ /\ k \in DOMAIN brcm /\ brcm[k].ifname = l /\ brcm[k].count > 0
          /\ brcm'[k].count = brcm[k].count + 1
       \/ /\ brcm'[k].count = 1 /\ (k \in DOMAIN brcm => brcm[k].count = 0)
          /\ \A j \in DOMAIN brcm : brcm[j].count > 0 => brcm[j].ifname # l

\* One element of a sequence is replaced, or a new one comes at the end.
LEMMA SeqPut ==
    ASSUME NEW T, NEW b \in Seq(T), NEW k \in DOMAIN b, NEW r \in T
    PROVE  LET c == [b EXCEPT ![k] = r]
           IN  /\ c \in Seq(T) /\ DOMAIN c = DOMAIN b \cup {k} /\ c[k] = r
               /\ \A j \in DOMAIN b \ {k} : c[j] = b[j]
<1> DEFINE c == [b EXCEPT ![k] = r]
<1>1. DOMAIN b = 1..Len(b) /\ Len(b) \in Nat /\ b \in [1..Len(b) -> T]
  OBVIOUS
<1>2. c \in [1..Len(b) -> T] /\ c[k] = r /\ \A j \in DOMAIN b \ {k} : c[j] = b[j]
  BY <1>1
<1>3. DOMAIN c = DOMAIN b \cup {k}
  BY <1>1, <1>2
<1>4. c \in Seq(T)
  BY <1>1, <1>2, SeqDef
<1> QED
  BY <1>2, <1>3, <1>4

\* A sequence with one more.
LEMMA SeqGrow ==
    ASSUME NEW T, NEW b \in Seq(T), NEW r \in T, NEW c, c = Append(b, r)
    PROVE  /\ c \in Seq(T) /\ DOMAIN c = DOMAIN b \cup {Len(b) + 1} /\ c[Len(b) + 1] = r
           /\ \A j \in DOMAIN b \ {Len(b) + 1} : c[j] = b[j]
           /\ Len(b) + 1 \in Nat \ {0} /\ Len(b) + 1 \notin DOMAIN b /\ Len(b) \in Nat
  OBVIOUS

\* A capability is added to a socket.
LEMMA RawMarked ==
    ASSUME NEW r \in Raw, NEW a \in Apps
    PROVE  LET s == [r EXCEPT !.caps = @ \cup {a}]
           IN  s \in Raw /\ s.ifname = r.ifname /\ s.open = r.open /\ s.count = r.count
<1>1. r.caps \cup {a} \in SUBSET Apps
  BY DEF Raw
<1> DEFINE c == r.caps \cup {a}
           s == [r EXCEPT !.caps = c]
<1> HIDE DEF c
<1>2. s \in Raw /\ s.ifname = r.ifname /\ s.open = r.open /\ s.count = r.count
  BY <1>1 DEF Raw, c
<1> QED
  BY <1>2 DEF c

\* eapd_add_brcm succeeds.
LEMMA AddedIs ==
    ASSUME WkspTypes, SocketInv, NEW a \in Apps, NEW l \in Lans, NEW ok \in BOOLEAN,
           added(brcm, l, ok), NEW k, k = slot(brcm, l),
           brcm' = [add_brcm(brcm, l, ok) EXCEPT ![k].caps = @ \cup {a}]
    PROVE  Acquired(a, l, k)
<1>1. brcm \in Seq(Raw) /\ DOMAIN brcm = 1..Len(brcm) /\ Len(brcm) \in Nat
  BY DEF WkspTypes
<1>2. \A j \in DOMAIN brcm : brcm[j] \in Raw
  BY <1>1
<1>3. CASE find_brcm(brcm, l) # {}
  <2> DEFINE r == [brcm[k] EXCEPT !.count = @ + 1]
             r2 == [r EXCEPT !.caps = @ \cup {a}]
  <2>1. k \in DOMAIN brcm /\ brcm[k].count > 0 /\ brcm[k].ifname = l
    BY <1>1, <1>3, SlotIs DEF find_brcm
  <2>2. add_brcm(brcm, l, ok) = [brcm EXCEPT ![k] = r]
    BY <1>3, <2>1 DEF add_brcm
  <2>3. brcm[k] \in Raw /\ brcm[k].open = TRUE
    BY <1>2, <2>1 DEF SocketInv, Counted, Raw
  <2>4. r2 \in Raw /\ r2.ifname = l /\ r2.open = TRUE /\ r2.count = brcm[k].count + 1
    <3>1. r \in Raw /\ r.ifname = l /\ r.open = TRUE /\ r.count = brcm[k].count + 1
      BY <2>1, <2>3 DEF Raw
    <3> HIDE DEF r
    <3> QED
      BY <3>1, RawMarked
  <2> HIDE DEF r
  <2>5. brcm' = [brcm EXCEPT ![k] = r2]
    BY <1>1, <2>1, <2>2
  <2> HIDE DEF r2
  <2>6. /\ brcm' \in Seq(Raw) /\ DOMAIN brcm' = DOMAIN brcm \cup {k} /\ brcm'[k] = r2
        /\ \A j \in DOMAIN brcm \ {k} : brcm'[j] = brcm[j]
    <3>1. LET c == [brcm EXCEPT ![k] = r2]
          IN  /\ c \in Seq(Raw) /\ DOMAIN c = DOMAIN brcm \cup {k} /\ c[k] = r2
              /\ \A j \in DOMAIN brcm \ {k} : c[j] = brcm[j]
      BY <1>1, <2>1, <2>4, SeqPut, Zenon
    <3> QED
      BY <2>5, <3>1, Zenon
  <2>7. k \in Nat \ {0}
    BY <1>1, <2>1
  <2> QED
    BY <2>1, <2>4, <2>6, <2>7, Zenon DEF Acquired
<1>4. CASE find_brcm(brcm, l) = {}
  <2> DEFINE r == brcm_open(l, ok)
             r2 == [r EXCEPT !.caps = @ \cup {a}]
  <2>1. ok /\ k <= MaxBrcm
    BY <1>4 DEF added
  <2>2. r = [ifname |-> l, count |-> 1, open |-> TRUE, caps |-> {}]
    BY <2>1 DEF brcm_open
  <2>3. r2 \in Raw /\ r2.ifname = l /\ r2.open = TRUE /\ r2.count = 1
    <3>1. r \in Raw /\ r.ifname = l /\ r.open = TRUE /\ r.count = 1
      BY <2>2 DEF Raw
    <3> HIDE DEF r
    <3> QED
      BY <3>1, RawMarked
  <2>4. \A j \in DOMAIN brcm : brcm[j].count > 0 => brcm[j].ifname # l
    BY <1>4 DEF find_brcm
  <2>5. CASE unused(brcm) # {}
    <3>1. k \in DOMAIN brcm /\ brcm[k].count = 0
      BY <1>1, <1>4, <2>5, SlotIs DEF unused
    <3>2. ~(k > MaxBrcm) /\ ~(k > Len(brcm))
      BY <1>1, <2>1, <3>1, EapdAssumption
    <3>3. add_brcm(brcm, l, ok) = [brcm EXCEPT ![k] = r]
      BY <1>4, <3>2 DEF add_brcm
    <3> HIDE DEF r
    <3>4. brcm' = [brcm EXCEPT ![k] = r2]
      BY <1>1, <3>1, <3>3
    <3> HIDE DEF r2
    <3>5. /\ brcm' \in Seq(Raw) /\ DOMAIN brcm' = DOMAIN brcm \cup {k} /\ brcm'[k] = r2
          /\ \A j \in DOMAIN brcm \ {k} : brcm'[j] = brcm[j]
      <4>1. LET c == [brcm EXCEPT ![k] = r2]
            IN  /\ c \in Seq(Raw) /\ DOMAIN c = DOMAIN brcm \cup {k} /\ c[k] = r2
                /\ \A j \in DOMAIN brcm \ {k} : c[j] = brcm[j]
        BY <1>1, <2>3, <3>1, SeqPut, Zenon
      <4> QED
        BY <3>4, <4>1, Zenon
    <3>6. k \in Nat \ {0}
      BY <1>1, <3>1
    <3> QED
      BY <2>3, <2>4, <3>1, <3>5, <3>6, Zenon DEF Acquired
  <2>6. CASE unused(brcm) = {}
    <3>1. k = Len(brcm) + 1
      BY <1>1, <1>4, <2>6, SlotIs
    <3>2. ~(k > MaxBrcm) /\ k > Len(brcm)
      BY <1>1, <2>1, <3>1, EapdAssumption
    <3>3. add_brcm(brcm, l, ok) = Append(brcm, r)
      BY <1>4, <3>2 DEF add_brcm
    <3> DEFINE g == Append(brcm, r)
    <3>4. /\ g \in Seq(Raw) /\ DOMAIN g = DOMAIN brcm \cup {k} /\ g[k] = r
          /\ \A j \in DOMAIN brcm \ {k} : g[j] = brcm[j]
          /\ k \in Nat \ {0} /\ k \notin DOMAIN brcm
      <4>1. r \in Raw
        BY <2>2 DEF Raw
      <4> HIDE DEF r
      <4> QED
        BY <1>1, <3>1, <4>1, SeqGrow
    <3> HIDE DEF r, g
    <3>5. brcm' = [g EXCEPT ![k] = r2]
      BY <3>3, <3>4 DEF g
    <3> HIDE DEF r2
    <3>6. /\ brcm' \in Seq(Raw) /\ DOMAIN brcm' = DOMAIN g \cup {k} /\ brcm'[k] = r2
          /\ \A j \in DOMAIN g \ {k} : brcm'[j] = g[j]
      <4>1. k \in DOMAIN g /\ g \in Seq(Raw) /\ r2 \in Raw
        BY <2>3, <3>4, Zenon
      <4>2. LET c == [g EXCEPT ![k] = r2]
            IN  /\ c \in Seq(Raw) /\ DOMAIN c = DOMAIN g \cup {k} /\ c[k] = r2
                /\ \A j \in DOMAIN g \ {k} : c[j] = g[j]
        BY <4>1, SeqPut, Zenon
      <4> QED
        BY <3>5, <4>2, Zenon
    <3>7. DOMAIN brcm' = DOMAIN brcm \cup {k} /\ \A j \in DOMAIN brcm \ {k} : brcm'[j] = brcm[j]
      BY <3>4, <3>6, Zenon
    <3> QED
      BY <2>3, <2>4, <3>4, <3>6, <3>7, Zenon DEF Acquired
  <2> QED
    BY <2>5, <2>6
<1> QED
  BY <1>3, <1>4

\* The socket of a control block is in use.
LEMMA InUse ==
    ASSUME WkspTypes, SocketInv, NEW d \in Apps, NEW m \in Lans, Sock(d, m) # NULL
    PROVE  Sock(d, m) \in DOMAIN brcm /\ brcm[Sock(d, m)].ifname = m /\ brcm[Sock(d, m)].count > 0
<1> DEFINE k == Sock(d, m)
<1>1. k \in DOMAIN brcm /\ brcm[k].ifname = m
  BY DEF SocketInv, OwnSocket
<1>2. Uses(d, k) = 1
  BY <1>1 DEF Uses
<1>3. \A e \in Apps : Uses(e, k) \in {0, 1}
  BY DEF Uses
<1>4. brcm[k].count >= Uses("wps", k) + Uses("nas", k) + Uses("ses", k) /\ brcm[k].count \in Nat
  <2>1. brcm[k] \in Raw
    BY <1>1 DEF WkspTypes
  <2> QED
    BY <1>1, <2>1 DEF SocketInv, Counted, Users, Raw
<1> HIDE DEF k
<1>5. brcm[k].count > 0
  BY <1>2, <1>3, <1>4 DEF Apps
<1> QED
  BY <1>1, <1>5 DEF k

\* The socket of one control block becomes k, the others stay.
Takes(a, l, k) ==
    \A d \in Apps, m \in Lans : Sock(d, m)' = IF d = a /\ m = l THEN k ELSE Sock(d, m)

\* A control block gets a socket; one that it had already is counted twice.
LEMMA AcquireKeeps ==
    ASSUME WkspTypes, SocketInv, NEW a \in Apps, NEW l \in Lans, NEW k, Acquired(a, l, k),
           twice' = IF Sock(a, l) = NULL THEN twice ELSE twice \cup {l}, Takes(a, l, k)
    PROVE  SocketInv'
<1>9. \A d \in Apps, m \in Lans : Sock(d, m)' = IF d = a /\ m = l THEN k ELSE Sock(d, m)
  BY DEF Takes
<1>1. \A j \in DOMAIN brcm : brcm[j] \in Raw /\ j # NULL
  BY DEF WkspTypes, NULL
<1>2. \A j \in DOMAIN brcm' : brcm'[j] \in Raw
  <2>1. brcm' \in Seq(Raw)
    BY DEF Acquired
  <2> QED
    BY <2>1
<1>6. Sock(a, l) # NULL => Sock(a, l) = k
  <2> SUFFICES ASSUME Sock(a, l) # NULL PROVE Sock(a, l) = k
    OBVIOUS
  <2>1. Sock(a, l) \in DOMAIN brcm /\ brcm[Sock(a, l)].ifname = l /\ brcm[Sock(a, l)].count > 0
    BY InUse
  <2> QED
    BY <2>1 DEF Acquired, SocketInv, OneSocket
<1>3. OwnSocket'
  <2> SUFFICES ASSUME NEW d \in Apps, NEW m \in Lans, Sock(d, m)' # NULL
               PROVE  Sock(d, m)' \in DOMAIN brcm' /\ brcm'[Sock(d, m)'].ifname = m
    BY DEF OwnSocket
  <2>1. CASE d = a /\ m = l
    BY <1>9, <2>1 DEF Acquired
  <2>2. CASE ~(d = a /\ m = l)
    <3>1. Sock(d, m)' = Sock(d, m)
      BY <1>9, <2>2
    <3>2. Sock(d, m) \in DOMAIN brcm /\ brcm[Sock(d, m)].ifname = m
      BY <3>1 DEF SocketInv, OwnSocket
    <3>3. CASE Sock(d, m) = k
      <4>1. brcm[k].count > 0
        BY <3>1, <3>3, InUse
      <4> QED
        BY <3>1, <3>2, <3>3, <4>1 DEF Acquired
    <3>4. CASE Sock(d, m) # k
      BY <3>1, <3>2, <3>4 DEF Acquired
    <3> QED
      BY <3>3, <3>4
  <2> QED
    BY <2>1, <2>2
<1>7. twice \subseteq twice'
  OBVIOUS
<1>8. \A d \in Apps, j \in DOMAIN brcm : Uses(d, j) \in {0, 1}
  BY DEF Uses
<1>4. Counted'
  <2> SUFFICES ASSUME NEW j \in DOMAIN brcm'
               PROVE  /\ brcm'[j].count >= Users(j)'
                      /\ brcm'[j].ifname \notin twice' => brcm'[j].count = Users(j)'
                      /\ brcm'[j].open <=> brcm'[j].count > 0
    BY DEF Counted
  <2>1. CASE j # k
    <3>1. j \in DOMAIN brcm /\ brcm'[j] = brcm[j] /\ brcm[j].ifname \in Lans /\ j # NULL
      BY <1>1, <2>1 DEF Acquired, Raw
    <3>2. \A d \in Apps : Uses(d, j)' = Uses(d, j)
      BY <1>1, <1>6, <1>9, <2>1, <3>1 DEF Uses
    <3>3. Users(j)' = Users(j)
      BY <3>2 DEF Users, Apps
    <3> QED
      BY <1>7, <3>1, <3>3 DEF SocketInv, Counted
  <2>2. CASE j = k /\ k \in DOMAIN brcm /\ brcm[k].ifname = l /\ brcm'[k].count = brcm[k].count + 1
    <3>1. \A d \in Apps : Uses(d, k)' = IF d = a THEN 1 ELSE Uses(d, k)
      BY <1>9, <2>2 DEF Uses, Acquired
    <3>2. Sock(a, l) = NULL => Uses(a, k) = 0
      BY <1>1, <2>2 DEF Uses
    <3>3. Users(k)' <= Users(k) + 1 /\ (Uses(a, k) = 0 => Users(k)' = Users(k) + 1) /\ Users(k) \in Nat /\ Users(k)' \in Nat
      BY <1>8, <2>2, <3>1 DEF Apps, Users
    <3>4. /\ brcm[k].count \in Nat /\ brcm[k].count >= Users(k)
          /\ brcm[k].ifname \notin twice => brcm[k].count = Users(k)
      BY <1>1, <2>2 DEF Raw, SocketInv, Counted
    <3>5. brcm'[k].ifname = l /\ brcm'[k].open = TRUE
      BY DEF Acquired
    <3> HIDE DEF Users
    <3>6. brcm'[k].count >= Users(k)'
      BY <2>2, <3>3, <3>4
    <3>7. brcm'[k].ifname \notin twice' => brcm'[k].count = Users(k)'
      <4> SUFFICES ASSUME l \notin twice' PROVE brcm'[k].count = Users(k)'
        BY <3>5
      <4>1. Sock(a, l) = NULL /\ l \notin twice
        OBVIOUS
      <4> QED
        BY <2>2, <3>2, <3>3, <3>4, <4>1
    <3> QED
      BY <2>2, <3>4, <3>5, <3>6, <3>7
  <2>3. CASE j = k /\ brcm'[k].count = 1 /\ (k \in DOMAIN brcm => brcm[k].count = 0)
    <3>1. ASSUME NEW d \in Apps, d # a PROVE Uses(d, k)' = 0
      <4> SUFFICES ASSUME Sock(d, l) = k PROVE FALSE
        BY <1>9, <3>1 DEF Uses, Acquired
      <4>1. k \in DOMAIN brcm /\ brcm[k].count > 0
        BY InUse DEF Acquired, NULL
      <4> QED
        BY <2>3, <4>1
    <3>2. Uses(a, k)' = 1
      BY <1>9 DEF Uses, Acquired
    <3>3. Users(k)' = 1
      BY <3>1, <3>2 DEF Users, Apps
    <3> QED
      BY <2>3, <3>3 DEF Acquired
  <2> QED
    BY <2>1, <2>2, <2>3 DEF Acquired
<1>5. OneSocket'
  <2> SUFFICES ASSUME NEW i \in DOMAIN brcm', NEW j \in DOMAIN brcm', brcm'[i].count > 0,
                      brcm'[j].count > 0, brcm'[i].ifname = brcm'[j].ifname
               PROVE  i = j
    BY DEF OneSocket
  <2>1. CASE i # k /\ j # k
    BY <2>1 DEF Acquired, SocketInv, OneSocket
  <2>2. CASE i = k /\ j # k
    BY <2>2 DEF Acquired, SocketInv, OneSocket
  <2>3. CASE i # k /\ j = k
    BY <2>3 DEF Acquired, SocketInv, OneSocket
  <2> QED
    BY <2>1, <2>2, <2>3
<1> QED
  BY <1>3, <1>4, <1>5 DEF SocketInv

\* The socket cannot be had: a slot that nobody uses is cleared, or nothing happens.
LEMMA RefusedKeeps ==
    ASSUME WkspTypes, SocketInv, NEW l \in Lans, NEW ok \in BOOLEAN, ~added(brcm, l, ok),
           brcm' = add_brcm(brcm, l, ok), twice' = twice,
           \A d \in Apps, m \in Lans : Sock(d, m)' = Sock(d, m)
    PROVE  brcm' \in Seq(Raw) /\ SocketInv'
<1> DEFINE k == slot(brcm, l)
           r == brcm_open(l, ok)
<1>1. brcm \in Seq(Raw) /\ DOMAIN brcm = 1..Len(brcm) /\ Len(brcm) \in Nat
  BY DEF WkspTypes
<1>2. find_brcm(brcm, l) = {} /\ (ok => k > MaxBrcm \/ ~(k <= MaxBrcm))
  BY DEF added
<1>3. CASE brcm' = brcm
  <2>1. \A j \in DOMAIN brcm : brcm[j].ifname \in Lans
    <3>1. \A j \in DOMAIN brcm : brcm[j] \in Raw
      BY <1>1
    <3> QED
      BY <3>1 DEF Raw
  <2>2. \A d \in Apps, j \in DOMAIN brcm : Uses(d, j)' = Uses(d, j)
    BY <1>3, <2>1 DEF Uses
  <2>3. OwnSocket'
    BY <1>3 DEF SocketInv, OwnSocket
  <2>4. Counted'
    BY <1>3, <2>2 DEF SocketInv, Counted, Users, Apps
  <2>5. OneSocket'
    BY <1>3 DEF SocketInv, OneSocket
  <2> QED
    BY <1>1, <1>3, <2>3, <2>4, <2>5 DEF SocketInv
<1>4. CASE ~ok /\ brcm' # brcm
  <2>1. r = [ifname |-> l, count |-> 0, open |-> FALSE, caps |-> {}] /\ r \in Raw
    BY <1>4 DEF brcm_open, Raw
  <2> HIDE DEF r
  <2>2. /\ brcm' \in Seq(Raw) /\ DOMAIN brcm' = DOMAIN brcm \cup {k} /\ brcm'[k] = r
        /\ \A j \in DOMAIN brcm \ {k} : brcm'[j] = brcm[j]
        /\ k \in DOMAIN brcm => brcm[k].count = 0
        /\ k \in Nat \ {0}
    <3>1. CASE unused(brcm) # {}
      <4>1. k \in DOMAIN brcm /\ brcm[k].count = 0 /\ k \in Nat \ {0} /\ ~(k > Len(brcm))
        BY <1>1, <1>2, <3>1, SlotIs DEF unused
      <4>2. brcm' = [brcm EXCEPT ![k] = r]
        BY <1>2, <1>4, <4>1 DEF add_brcm, r
      <4> HIDE DEF k
      <4>3. k \in DOMAIN brcm /\ brcm \in Seq(Raw) /\ r \in Raw
        BY <1>1, <2>1, <4>1, Zenon
      <4>4. LET c == [brcm EXCEPT ![k] = r]
            IN  /\ c \in Seq(Raw) /\ DOMAIN c = DOMAIN brcm \cup {k} /\ c[k] = r
                /\ \A j \in DOMAIN brcm \ {k} : c[j] = brcm[j]
        BY <4>3, SeqPut, Zenon
      <4> QED
        BY <4>1, <4>2, <4>4, Zenon
    <3>2. CASE unused(brcm) = {}
      <4>1. k = Len(brcm) + 1
        BY <1>1, <1>2, <3>2, SlotIs
      <4>2. brcm' = Append(brcm, r)
        <5>1. k > Len(brcm)
          BY <1>1, <4>1
        <5> QED
          BY <1>2, <1>4, <5>1 DEF add_brcm, r
      <4> HIDE DEF k
      <4> QED
        BY <1>1, <2>1, <4>1, <4>2, SeqGrow
    <3> QED
      BY <3>1, <3>2
  <2>3. r.ifname = l /\ r.count = 0 /\ r.open = FALSE
    BY <2>1
  <2> HIDE DEF k
  <2>4. \A d \in Apps, m \in Lans : Sock(d, m)' # k
    BY <2>2, InUse DEF NULL
  <2>5. OwnSocket'
    <3> SUFFICES ASSUME NEW d \in Apps, NEW m \in Lans, Sock(d, m)' # NULL
                 PROVE  Sock(d, m)' \in DOMAIN brcm' /\ brcm'[Sock(d, m)'].ifname = m
      BY DEF OwnSocket
    <3>1. Sock(d, m) \in DOMAIN brcm /\ brcm[Sock(d, m)].ifname = m /\ Sock(d, m) # k
      BY <2>4 DEF SocketInv, OwnSocket
    <3> QED
      BY <2>2, <3>1
  <2>6. Counted'
    <3> SUFFICES ASSUME NEW j \in DOMAIN brcm'
                 PROVE  /\ brcm'[j].count >= Users(j)'
                        /\ brcm'[j].ifname \notin twice' => brcm'[j].count = Users(j)'
                        /\ brcm'[j].open <=> brcm'[j].count > 0
      BY DEF Counted
    <3>1. CASE j = k
      <4>1. \A d \in Apps : Uses(d, j)' = 0
        BY <2>2, <2>3, <2>4, <3>1 DEF Uses
      <4> QED
        BY <2>2, <2>3, <3>1, <4>1 DEF Apps, Users
    <3>2. CASE j # k
      <4>1. j \in DOMAIN brcm /\ brcm'[j] = brcm[j]
        BY <2>2, <3>2
      <4>2. brcm[j].ifname \in Lans
        <5>1. brcm[j] \in Raw
          BY <1>1, <4>1
        <5> QED
          BY <5>1 DEF Raw
      <4>3. \A d \in Apps : Uses(d, j)' = Uses(d, j)
        BY <4>1, <4>2 DEF Uses
      <4> QED
        BY <4>1, <4>3 DEF SocketInv, Counted, Users, Apps
    <3> QED
      BY <3>1, <3>2
  <2>7. OneSocket'
    <3> SUFFICES ASSUME NEW i \in DOMAIN brcm', NEW j \in DOMAIN brcm', brcm'[i].count > 0,
                        brcm'[j].count > 0, brcm'[i].ifname = brcm'[j].ifname
                 PROVE  i = j
      BY DEF OneSocket
    <3>1. i # k /\ j # k
      BY <2>2, <2>3
    <3> QED
      BY <2>2, <3>1 DEF SocketInv, OneSocket
  <2> QED
    BY <2>2, <2>5, <2>6, <2>7 DEF SocketInv
<1>5. CASE ok
  <2>1. k \in Nat
    <3>1. unused(brcm) \subseteq Nat
      BY <1>1 DEF unused
    <3> QED
      BY <1>1, <1>2, <3>1, SlotIs
  <2>2. k > MaxBrcm
    BY <1>2, <1>5, <2>1, EapdAssumption
  <2>3. brcm' = brcm
    BY <1>2, <2>2 DEF add_brcm
  <2> QED
    BY <1>3, <2>3
<1> QED
  BY <1>3, <1>4, <1>5

\* eapd_del_brcm, called n times for a socket with at least n users.
LEMMA DelOne ==
    ASSUME NEW r \in Raw, NEW n \in Nat, n <= r.count
    PROVE  LET q == [r EXCEPT !.count = @ - n, !.open = r.count > n]
           IN  /\ q \in Raw /\ q.ifname = r.ifname /\ q.count = r.count - n
               /\ q.open = (q.count > 0)
<1> DEFINE c == r.count - n
           o == r.count > n
           q == [r EXCEPT !.count = c, !.open = o]
<1>1. c \in Nat /\ o \in BOOLEAN /\ o = (c > 0)
  BY DEF Raw
<1> HIDE DEF c, o
<1>2. q \in Raw /\ q.ifname = r.ifname /\ q.count = c /\ q.open = o
  BY <1>1 DEF Raw
<1> QED
  BY <1>1, <1>2 DEF c, o

\* One app gives up its sockets: of those in use, each loses the app's use of it.
LEMMA DelIs ==
    ASSUME NEW b \in Seq(Raw), NEW uses, NEW n \in [DOMAIN b -> Nat],
           \A k \in DOMAIN b : b[k].open <=> b[k].count > 0,
           \A k \in DOMAIN b : b[k].count > 0 =>
               n[k] <= b[k].count /\ Cardinality({x \in uses : x[2] = b[k].ifname}) = n[k]
    PROVE  LET c == del_brcm(b, uses)
           IN  /\ c \in Seq(Raw) /\ DOMAIN c = DOMAIN b
               /\ \A k \in DOMAIN b : /\ c[k].ifname = b[k].ifname
                                      /\ c[k].count = IF b[k].count = 0 THEN 0 ELSE b[k].count - n[k]
                                      /\ c[k].open <=> c[k].count > 0
<1> DEFINE c == del_brcm(b, uses)
<1>1. DOMAIN b = 1..Len(b) /\ Len(b) \in Nat /\ \A k \in DOMAIN b : b[k] \in Raw
  OBVIOUS
<1>2. ASSUME NEW k \in DOMAIN b
      PROVE  /\ c[k] \in Raw /\ c[k].ifname = b[k].ifname
             /\ c[k].count = IF b[k].count = 0 THEN 0 ELSE b[k].count - n[k]
             /\ c[k].open <=> c[k].count > 0
  <2>1. CASE b[k].count = 0
    <3>1. c[k] = b[k]
      BY <2>1 DEF del_brcm
    <3> QED
      BY <1>1, <2>1, <3>1
  <2>2. CASE b[k].count # 0
    <3>1. b[k] \in Raw /\ b[k].count > 0
      BY <1>1, <2>2 DEF Raw
    <3>2. c[k] = [b[k] EXCEPT !.count = @ - n[k], !.open = b[k].count > n[k]]
      BY <2>2, <3>1 DEF del_brcm
    <3> HIDE DEF c
    <3>3. n[k] \in Nat /\ n[k] <= b[k].count
      BY <3>1
    <3>4. LET q == [b[k] EXCEPT !.count = @ - n[k], !.open = b[k].count > n[k]]
          IN  /\ q \in Raw /\ q.ifname = b[k].ifname /\ q.count = b[k].count - n[k]
              /\ q.open = (q.count > 0)
      BY <3>1, <3>3, DelOne, Zenon
    <3>5. /\ c[k] \in Raw /\ c[k].ifname = b[k].ifname /\ c[k].count = b[k].count - n[k]
          /\ c[k].open = (c[k].count > 0)
      BY <3>2, <3>4, Zenon
    <3> QED
      BY <2>2, <3>5
  <2> QED
    BY <2>1, <2>2
<1>3. DOMAIN c = DOMAIN b /\ c \in [1..Len(b) -> Raw]
  BY <1>1, <1>2 DEF del_brcm
<1> HIDE DEF c
<1>4. c \in Seq(Raw)
  BY <1>1, <1>3, SeqDef
<1> QED
  BY <1>2, <1>3, <1>4 DEF c

\* eapd_delete_dif: a control block goes, and its use of a socket with it.
LEMMA ReleaseKeeps ==
    ASSUME WkspTypes, SocketInv, NEW a \in Apps, NEW l \in Lans, Sock(a, l) # NULL,
           brcm' = del_brcm(brcm, {<<a, l>>}), twice' = twice,
           \A d \in Apps, m \in Lans : Sock(d, m)' = IF d = a /\ m = l THEN NULL ELSE Sock(d, m)
    PROVE  brcm' \in Seq(Raw) /\ SocketInv'
<1> DEFINE k == Sock(a, l)
           n == [j \in DOMAIN brcm |-> IF brcm[j].ifname = l THEN 1 ELSE 0]
<1>1. brcm \in Seq(Raw) /\ DOMAIN brcm \subseteq Nat /\ \A j \in DOMAIN brcm : brcm[j] \in Raw /\ j # NULL
  BY DEF WkspTypes, NULL
<1>2. \A j \in DOMAIN brcm : brcm[j].ifname \in Lans /\ brcm[j].count \in Nat
  BY <1>1 DEF Raw
<1>3. k \in DOMAIN brcm /\ brcm[k].ifname = l /\ brcm[k].count > 0
  BY InUse
<1>4. n \in [DOMAIN brcm -> Nat]
  OBVIOUS
<1>5. \A j \in DOMAIN brcm : brcm[j].open <=> brcm[j].count > 0
  BY DEF SocketInv, Counted
<1>6. ASSUME NEW j \in DOMAIN brcm, brcm[j].count > 0
      PROVE  n[j] <= brcm[j].count /\ Cardinality({x \in {<<a, l>>} : x[2] = brcm[j].ifname}) = n[j]
  <2>1. CASE brcm[j].ifname = l
    <3>1. {x \in {<<a, l>>} : x[2] = brcm[j].ifname} = {<<a, l>>}
      BY <2>1
    <3>2. Cardinality({<<a, l>>}) = 1
      BY FS_Singleton
    <3> QED
      BY <1>2, <1>6, <2>1, <3>1, <3>2
  <2>2. CASE brcm[j].ifname # l
    <3>1. {x \in {<<a, l>>} : x[2] = brcm[j].ifname} = {}
      BY <2>2
    <3> QED
      BY <1>2, <1>6, <2>2, <3>1, FS_EmptySet
  <2> QED
    BY <2>1, <2>2
<1> HIDE DEF n
<1>7. /\ brcm' \in Seq(Raw) /\ DOMAIN brcm' = DOMAIN brcm
      /\ \A j \in DOMAIN brcm : /\ brcm'[j].ifname = brcm[j].ifname
                                /\ brcm'[j].count = IF brcm[j].count = 0 THEN 0 ELSE brcm[j].count - n[j]
                                /\ brcm'[j].open <=> brcm'[j].count > 0
  <2>1. LET c == del_brcm(brcm, {<<a, l>>})
        IN  /\ c \in Seq(Raw) /\ DOMAIN c = DOMAIN brcm
            /\ \A j \in DOMAIN brcm : /\ c[j].ifname = brcm[j].ifname
                                      /\ c[j].count = IF brcm[j].count = 0 THEN 0 ELSE brcm[j].count - n[j]
                                      /\ c[j].open <=> c[j].count > 0
    BY <1>1, <1>4, <1>5, <1>6, DelIs, Zenon
  <2> QED
    BY <2>1, Zenon
<1>8. DOMAIN brcm' = DOMAIN brcm /\ \A j \in DOMAIN brcm : brcm'[j].ifname = brcm[j].ifname
  BY <1>7, Zenon
<1>9. \A j \in DOMAIN brcm : brcm'[j].count = IF brcm[j].count = 0 THEN 0 ELSE brcm[j].count - n[j]
  BY <1>7, Zenon
<1>10. brcm' \in Seq(Raw) /\ \A j \in DOMAIN brcm' : brcm'[j].open <=> brcm'[j].count > 0
  BY <1>7, Zenon
<1>11. \A j \in DOMAIN brcm : brcm[j].count > 0 /\ brcm[j].ifname = l => j = k
  BY <1>3 DEF SocketInv, OneSocket
<1>12. \A d \in Apps, j \in DOMAIN brcm : Uses(d, j) \in {0, 1}
  BY DEF Uses
<1> HIDE DEF k
<1>13. OwnSocket'
  <2> SUFFICES ASSUME NEW d \in Apps, NEW m \in Lans, Sock(d, m)' # NULL
               PROVE  Sock(d, m)' \in DOMAIN brcm' /\ brcm'[Sock(d, m)'].ifname = m
    BY DEF OwnSocket
  <2>1. Sock(d, m)' = Sock(d, m)
    OBVIOUS
  <2>2. Sock(d, m) \in DOMAIN brcm /\ brcm[Sock(d, m)].ifname = m
    BY <2>1 DEF SocketInv, OwnSocket
  <2> QED
    BY <1>8, <2>1, <2>2
<1>14. Counted'
  <2> SUFFICES ASSUME NEW j \in DOMAIN brcm
               PROVE  /\ brcm'[j].count >= Users(j)'
                      /\ brcm[j].ifname \notin twice => brcm'[j].count = Users(j)'
    BY <1>8, <1>10 DEF Counted
  <2>1. /\ brcm[j].count >= Users(j) /\ brcm[j].count \in Nat
        /\ brcm[j].ifname \notin twice => brcm[j].count = Users(j)
    BY <1>2 DEF SocketInv, Counted
  <2>2. \A d \in Apps : Uses(d, j)' = IF d = a /\ brcm[j].ifname = l THEN 0 ELSE Uses(d, j)
    BY <1>1, <1>2, <1>8 DEF Uses
  <2>3. brcm[j].ifname = l /\ brcm[j].count > 0 => Uses(a, j) = 1
    BY <1>3, <1>11 DEF Uses, k
  <2>4. CASE brcm[j].count = 0
    <3>1. Users(j) = 0 /\ Uses("wps", j) = 0 /\ Uses("nas", j) = 0 /\ Uses("ses", j) = 0
      BY <1>12, <2>1, <2>4 DEF Apps, Users
    <3>2. Users(j)' = 0
      BY <2>2, <3>1 DEF Users, Apps
    <3>3. brcm'[j].count = 0
      BY <1>9, <2>4
    <3> QED
      BY <3>2, <3>3
  <2>5. CASE brcm[j].count > 0 /\ brcm[j].ifname = l
    <3>1. brcm'[j].count = brcm[j].count - 1
      BY <1>9, <2>5 DEF n
    <3>2. Users(j)' = Users(j) - 1 /\ Users(j) \in Nat
      BY <1>12, <2>2, <2>3, <2>5 DEF Apps, Users
    <3> QED
      BY <2>1, <3>1, <3>2
  <2>6. CASE brcm[j].count > 0 /\ brcm[j].ifname # l
    <3>1. brcm'[j].count = brcm[j].count
      BY <1>2, <1>9, <2>6 DEF n
    <3>2. Users(j)' = Users(j)
      BY <2>2, <2>6 DEF Apps, Users
    <3> QED
      BY <2>1, <3>1, <3>2
  <2> QED
    BY <1>2, <2>4, <2>5, <2>6
<1>15. OneSocket'
  <2>1. \A j \in DOMAIN brcm : brcm'[j].count > 0 => brcm[j].count > 0
    <3> SUFFICES ASSUME NEW j \in DOMAIN brcm, brcm'[j].count > 0, ~(brcm[j].count > 0) PROVE FALSE
      OBVIOUS
    <3>1. brcm[j].count = 0
      BY <1>2
    <3>2. brcm'[j].count = 0
      BY <1>9, <3>1
    <3> QED
      BY <3>2
  <2> SUFFICES ASSUME NEW i \in DOMAIN brcm, NEW j \in DOMAIN brcm, brcm'[i].count > 0,
                      brcm'[j].count > 0, brcm'[i].ifname = brcm'[j].ifname
               PROVE  i = j
    BY <1>8 DEF OneSocket
  <2>2. brcm[i].count > 0 /\ brcm[j].count > 0 /\ brcm[i].ifname = brcm[j].ifname
    BY <1>8, <2>1
  <2> QED
    BY <2>2 DEF SocketInv, OneSocket
<1> QED
  BY <1>10, <1>13, <1>14, <1>15 DEF SocketInv

\* The calls an app's deinit makes for a socket in use are the app's uses of it.
LEMMA HeldIs ==
    ASSUME WkspTypes, SocketInv, NEW a \in Apps, NEW k \in DOMAIN brcm, brcm[k].count > 0
    PROVE  Cardinality({x \in Held(a) : x[2] = brcm[k].ifname}) = Uses(a, k)
<1> DEFINE l == brcm[k].ifname
           S == {x \in Held(a) : x[2] = l}
<1>1. l \in Lans /\ k # NULL
  <2>1. brcm[k] \in Raw /\ k # NULL
    BY DEF WkspTypes, NULL
  <2> QED
    BY <2>1 DEF Raw
<1> HIDE DEF l
<1>2. CASE Sock(a, l) = NULL
  <2>1. S = {}
    BY <1>2 DEF Held, Sock
  <2>2. Uses(a, k) = 0
    BY <1>1, <1>2 DEF Uses, l
  <2> QED
    BY <2>1, <2>2, FS_EmptySet DEF l
<1>3. CASE Sock(a, l) # NULL
  <2>1. Sock(a, l) = k
    BY <1>1, <1>3, InUse DEF SocketInv, OneSocket, l
  <2>2. Uses(a, k) = 1
    BY <2>1 DEF Uses, l
  <2>3. l \in DOMAIN cbs[a] /\ cbs[a][l] # NULL
    BY <1>3 DEF Sock
  <2>4. S = {<<a, l>>}
    BY <2>3 DEF Held
  <2> QED
    BY <2>2, <2>4, FS_Singleton DEF l
<1> QED
  BY <1>2, <1>3

\* eapd_wksp_cleanup: each app in turn gives up its sockets, and none is left.
LEMMA CleanupKeeps ==
    ASSUME WkspTypes, SocketInv, brcm' = nas_app_deinit(ses_app_deinit(wps_app_deinit(brcm))),
           twice' = twice,
           \A d \in Apps, m \in Lans : Sock(d, m)' = NULL
    PROVE  brcm' \in Seq(Raw) /\ SocketInv'
<1> DEFINE n(a) == [k \in DOMAIN brcm |-> Uses(a, k)]
           b1 == wps_app_deinit(brcm)
           b2 == ses_app_deinit(b1)
<1>1. brcm \in Seq(Raw) /\ DOMAIN brcm \subseteq Nat /\ \A k \in DOMAIN brcm : brcm[k] \in Raw /\ k # NULL
  BY DEF WkspTypes, NULL
<1>2. \A k \in DOMAIN brcm : brcm[k].ifname \in Lans
  BY <1>1 DEF Raw
<1>3. \A a \in Apps : n(a) \in [DOMAIN brcm -> Nat] /\ \A k \in DOMAIN brcm : n(a)[k] = Uses(a, k) /\ Uses(a, k) \in {0, 1}
  BY DEF Uses
<1> DEFINE ex == [k \in DOMAIN brcm |-> brcm[k].count - Users(k)]
<1>4. \A k \in DOMAIN brcm : /\ brcm[k].count = n("wps")[k] + n("nas")[k] + n("ses")[k] + ex[k]
                             /\ ex[k] \in Nat /\ (brcm[k].ifname \notin twice => ex[k] = 0)
                             /\ brcm[k].open <=> brcm[k].count > 0
  <2> SUFFICES ASSUME NEW k \in DOMAIN brcm
               PROVE  /\ brcm[k].count = n("wps")[k] + n("nas")[k] + n("ses")[k] + ex[k]
                      /\ ex[k] \in Nat /\ (brcm[k].ifname \notin twice => ex[k] = 0)
                      /\ brcm[k].open <=> brcm[k].count > 0
    OBVIOUS
  <2>1. brcm[k].count \in Nat
    BY <1>1 DEF Raw
  <2>2. /\ n("wps")[k] = Uses("wps", k) /\ Uses("wps", k) \in {0, 1}
        /\ n("nas")[k] = Uses("nas", k) /\ Uses("nas", k) \in {0, 1}
        /\ n("ses")[k] = Uses("ses", k) /\ Uses("ses", k) \in {0, 1}
    BY <1>3 DEF Apps
  <2>3. Users(k) = n("wps")[k] + n("nas")[k] + n("ses")[k] /\ Users(k) \in Nat
    BY <2>2 DEF Users
  <2>4. /\ brcm[k].count >= Users(k) /\ (brcm[k].ifname \notin twice => brcm[k].count = Users(k))
        /\ brcm[k].open <=> brcm[k].count > 0
    BY DEF SocketInv, Counted
  <2> HIDE DEF n, Users
  <2> QED
    BY <2>1, <2>2, <2>3, <2>4
<1>5. \A a \in Apps : \A k \in DOMAIN brcm : brcm[k].count > 0 =>
          Cardinality({x \in Held(a) : x[2] = brcm[k].ifname}) = n(a)[k]
  BY <1>3, HeldIs
<1>6. \A a \in Apps, k \in DOMAIN brcm : n(a)[k] \in {0, 1}
  BY <1>3
<1>7. \A a \in Apps : n(a) \in [DOMAIN brcm -> Nat]
  BY <1>3
<1> HIDE DEF n, ex
<1>8. /\ b1 \in Seq(Raw) /\ DOMAIN b1 = DOMAIN brcm
      /\ \A k \in DOMAIN brcm : /\ b1[k].ifname = brcm[k].ifname
                                /\ b1[k].count = n("nas")[k] + n("ses")[k] + ex[k]
                                /\ b1[k].open <=> b1[k].count > 0
  <2>1. \A k \in DOMAIN brcm : brcm[k].count > 0 =>
            n("wps")[k] <= brcm[k].count /\ Cardinality({x \in Held("wps") : x[2] = brcm[k].ifname}) = n("wps")[k]
    BY <1>4, <1>5, <1>6 DEF Apps
  <2>2. n("wps") \in [DOMAIN brcm -> Nat]
    BY <1>7 DEF Apps
  <2>5. \A k \in DOMAIN brcm : brcm[k].open <=> brcm[k].count > 0
    BY <1>4
  <2>3. LET c == del_brcm(brcm, Held("wps"))
        IN  /\ c \in Seq(Raw) /\ DOMAIN c = DOMAIN brcm
            /\ \A j \in DOMAIN brcm : /\ c[j].ifname = brcm[j].ifname
                                      /\ c[j].count = IF brcm[j].count = 0 THEN 0 ELSE brcm[j].count - n("wps")[j]
                                      /\ c[j].open <=> c[j].count > 0
    BY <1>1, <2>1, <2>2, <2>5, DelIs, Zenon
  <2>4. /\ b1 \in Seq(Raw) /\ DOMAIN b1 = DOMAIN brcm
        /\ \A j \in DOMAIN brcm : /\ b1[j].ifname = brcm[j].ifname
                                  /\ b1[j].count = IF brcm[j].count = 0 THEN 0 ELSE brcm[j].count - n("wps")[j]
                                  /\ b1[j].open <=> b1[j].count > 0
    BY <2>3, Zenon DEF wps_app_deinit
  <2> QED
    BY <1>4, <1>6, <2>4 DEF Apps
<1> HIDE DEF b1
<1>9. /\ b2 \in Seq(Raw) /\ DOMAIN b2 = DOMAIN brcm
      /\ \A k \in DOMAIN brcm : /\ b2[k].ifname = brcm[k].ifname
                                /\ b2[k].count = n("nas")[k] + ex[k]
                                /\ b2[k].open <=> b2[k].count > 0
  <2>1. \A k \in DOMAIN b1 : b1[k].count > 0 =>
            n("ses")[k] <= b1[k].count /\ Cardinality({x \in Held("ses") : x[2] = b1[k].ifname}) = n("ses")[k]
    BY <1>4, <1>5, <1>6, <1>8 DEF Apps
  <2>2. n("ses") \in [DOMAIN b1 -> Nat] /\ b1 \in Seq(Raw) /\ \A k \in DOMAIN b1 : b1[k].open <=> b1[k].count > 0
    BY <1>7, <1>8 DEF Apps
  <2>3. LET c == del_brcm(b1, Held("ses"))
        IN  /\ c \in Seq(Raw) /\ DOMAIN c = DOMAIN b1
            /\ \A j \in DOMAIN b1 : /\ c[j].ifname = b1[j].ifname
                                    /\ c[j].count = IF b1[j].count = 0 THEN 0 ELSE b1[j].count - n("ses")[j]
                                    /\ c[j].open <=> c[j].count > 0
    BY <2>1, <2>2, DelIs, Zenon
  <2>4. /\ b2 \in Seq(Raw) /\ DOMAIN b2 = DOMAIN b1
        /\ \A j \in DOMAIN b1 : /\ b2[j].ifname = b1[j].ifname
                                /\ b2[j].count = IF b1[j].count = 0 THEN 0 ELSE b1[j].count - n("ses")[j]
                                /\ b2[j].open <=> b2[j].count > 0
    BY <2>3, Zenon DEF ses_app_deinit
  <2> QED
    BY <1>4, <1>6, <1>8, <2>4 DEF Apps
<1> HIDE DEF b2
<1>10. /\ brcm' \in Seq(Raw) /\ DOMAIN brcm' = DOMAIN brcm
       /\ \A k \in DOMAIN brcm : /\ brcm'[k].ifname = brcm[k].ifname
                                 /\ brcm'[k].count = ex[k]
                                 /\ brcm'[k].open <=> brcm'[k].count > 0
  <2>1. \A k \in DOMAIN b2 : b2[k].count > 0 =>
            n("nas")[k] <= b2[k].count /\ Cardinality({x \in Held("nas") : x[2] = b2[k].ifname}) = n("nas")[k]
    BY <1>4, <1>5, <1>6, <1>9 DEF Apps
  <2>2. n("nas") \in [DOMAIN b2 -> Nat] /\ b2 \in Seq(Raw) /\ \A k \in DOMAIN b2 : b2[k].open <=> b2[k].count > 0
    BY <1>7, <1>9 DEF Apps
  <2>3. LET c == del_brcm(b2, Held("nas"))
        IN  /\ c \in Seq(Raw) /\ DOMAIN c = DOMAIN b2
            /\ \A j \in DOMAIN b2 : /\ c[j].ifname = b2[j].ifname
                                    /\ c[j].count = IF b2[j].count = 0 THEN 0 ELSE b2[j].count - n("nas")[j]
                                    /\ c[j].open <=> c[j].count > 0
    BY <2>1, <2>2, DelIs, Zenon
  <2>4. brcm' = del_brcm(b2, Held("nas"))
    BY DEF b1, b2, nas_app_deinit
  <2>5. /\ brcm' \in Seq(Raw) /\ DOMAIN brcm' = DOMAIN b2
        /\ \A j \in DOMAIN b2 : /\ brcm'[j].ifname = b2[j].ifname
                                /\ brcm'[j].count = IF b2[j].count = 0 THEN 0 ELSE b2[j].count - n("nas")[j]
                                /\ brcm'[j].open <=> brcm'[j].count > 0
    BY <2>3, <2>4, Zenon
  <2> QED
    BY <1>4, <1>6, <1>9, <2>5 DEF Apps
<1>11. OwnSocket' /\ OneSocket'
  <2>1. \A k \in DOMAIN brcm : ex[k] > 0 => brcm[k].count > 0
    BY <1>4, <1>6 DEF Apps
  <2> QED
    BY <1>10, <2>1 DEF OwnSocket, OneSocket, SocketInv
<1>12. Counted'
  <2>1. \A a \in Apps, k \in DOMAIN brcm : Uses(a, k)' = 0
    BY <1>1, <1>2, <1>10 DEF Uses
  <2>2. \A k \in DOMAIN brcm : Users(k)' = 0
    BY <2>1 DEF Users, Apps
  <2> QED
    BY <1>4, <1>10, <2>2 DEF Counted
<1> QED
  BY <1>10, <1>11, <1>12 DEF SocketInv

-----------------------------------------------------------------------------
(* What eapd_wksp_auto_config leaves to be opened *)

\* A list of the elements of a finite set has each of them once.
LEMMA ListIs ==
    ASSUME NEW S, IsFiniteSet(S)
    PROVE  /\ Cardinality(S) \in Nat /\ SetToSeq(S) \in [1..Cardinality(S) -> S]
           /\ \A m, n \in 1..Cardinality(S) : SetToSeq(S)[m] = SetToSeq(S)[n] => m = n
<1>1. Cardinality(S) \in Nat /\ \E f \in [1..Cardinality(S) -> S] : IsInjective(f)
  BY FS_CardinalityType DEF ExistsBijection, Bijection, Injection
<1>2. SetToSeq(S) \in [1..Cardinality(S) -> S] /\ IsInjective(SetToSeq(S))
  BY <1>1, Zenon DEF SetToSeq
<1> HIDE DEF SetToSeq
<1> QED
  BY <1>1, <1>2 DEF IsInjective

\* Two lists without a common element, one after the other.
LEMMA JoinIs ==
    ASSUME NEW T, NEW p \in Seq(T), NEW q \in Seq(T), Once(p), Once(q), Apart(p, q)
    PROVE  p \o q \in Seq(T) /\ Once(p \o q) /\ Join(p \o q, p, q)
<1> DEFINE r == p \o q
<1>1. /\ r \in Seq(T) /\ Len(r) = Len(p) + Len(q) /\ Len(p) \in Nat /\ Len(q) \in Nat
      /\ DOMAIN p = 1..Len(p) /\ DOMAIN q = 1..Len(q) /\ DOMAIN r = 1..Len(p) + Len(q)
      /\ \A i \in 1..Len(p) + Len(q) : r[i] = IF i <= Len(p) THEN p[i] ELSE q[i - Len(p)]
  BY ConcatProperties
<1> HIDE DEF r
<1>2. \A n \in DOMAIN r : \/ n \in DOMAIN p /\ r[n] = p[n]
                          \/ n - Len(p) \in DOMAIN q /\ r[n] = q[n - Len(p)] /\ n \notin DOMAIN p
  BY <1>1
<1>3. ASSUME NEW m \in DOMAIN r, NEW n \in DOMAIN r, r[m] = r[n] PROVE m = n
  <2>1. m \in Nat /\ n \in Nat
    BY <1>1
  <2>2. CASE m \in DOMAIN p /\ n \in DOMAIN p /\ r[m] = p[m] /\ r[n] = p[n]
    BY <1>3, <2>2 DEF Once
  <2>3. CASE m - Len(p) \in DOMAIN q /\ n - Len(p) \in DOMAIN q /\ r[m] = q[m - Len(p)] /\ r[n] = q[n - Len(p)]
    <3>1. m - Len(p) = n - Len(p)
      BY <1>3, <2>3 DEF Once
    <3> QED
      BY <1>1, <2>1, <3>1
  <2> QED
    BY <1>2, <1>3, <2>2, <2>3 DEF Apart
<1>4. Once(r)
  BY <1>3 DEF Once
<1>5. Join(r, p, q)
  BY <1>2 DEF Join
<1> QED
  BY <1>1, <1>4, <1>5 DEF r

\* The interfaces of an app are among those present at the start.
LEMMA AutoIfsIn == ASSUME NEW cf, NEW a PROVE auto_ifs(cf, a) \subseteq Ifs
<1> DEFINE on == {i \in Ifs : app_enabled(cf[i], i, a)}
<1>1. on # {} => (CHOOSE i \in on : TRUE) \in on
  <2> HIDE DEF on
  <2> QED
    BY Zenon
<1> QED
  BY <1>1 DEF auto_ifs

\* What eapd_wksp_init has to open for one app.
LEMMA PartIs ==
    ASSUME NEW cf, NEW a \in Apps
    PROVE  /\ lans(cf, a) \subseteq Lans /\ app_init(cf, a) \in Seq(Apps \X Lans)
           /\ Once(app_init(cf, a))
           /\ \A n \in DOMAIN app_init(cf, a) : app_init(cf, a)[n][1] = a /\ app_init(cf, a)[n][2] \in lans(cf, a)
<1> DEFINE S == auto_ifs(cf, a)
           L == lans(cf, a)
           f == [i \in S |-> lanifname(i)]
           g == SetToSeq(L)
<1>1. S \subseteq Ifs /\ L = {lanifname(i) : i \in S}
  BY AutoIfsIn DEF lans
<1>2. L \subseteq Lans
  BY <1>1 DEF Lans, AllIfs
<1>3. IsFiniteSet(S)
  BY <1>1, FS_Subset, EapdAssumption
<1> HIDE DEF S, L
<1>4. f \in Surjection(S, L)
  BY <1>1 DEF Surjection
<1>5. IsFiniteSet(L)
  BY <1>3, <1>4, FS_Surjection
<1>6. /\ Cardinality(L) \in Nat /\ g \in [1..Cardinality(L) -> L]
      /\ \A m, n \in 1..Cardinality(L) : g[m] = g[n] => m = n
  BY <1>5, ListIs
<1>7. app_init(cf, a) = [k \in 1..Cardinality(L) |-> <<a, g[k]>>]
  BY DEF app_init, L
<1> HIDE DEF g
<1>8. app_init(cf, a) \in [1..Cardinality(L) -> Apps \X Lans]
  BY <1>2, <1>6, <1>7
<1>9. app_init(cf, a) \in Seq(Apps \X Lans)
  BY <1>6, <1>8, SeqDef
<1>10. DOMAIN app_init(cf, a) = 1..Cardinality(L) /\ \A n \in DOMAIN app_init(cf, a) : app_init(cf, a)[n] = <<a, g[n]>>
  BY <1>7
<1> QED
  BY <1>2, <1>6, <1>9, <1>10 DEF L, Once

\* Every control block is there once, in its app's part.
LEMMA OpensIs ==
    ASSUME NEW cf
    PROVE  /\ Opens(cf) \in Seq(Apps \X Lans)
           /\ Once(Opens(cf))
           /\ \A n \in DOMAIN Opens(cf) : Opens(cf)[n][2] \in lans(cf, Opens(cf)[n][1])
<1> DEFINE p == app_init(cf, "wps")
           q == app_init(cf, "nas")
           r == app_init(cf, "ses")
           pq == p \o q
           pqr == pq \o r
           T == Apps \X Lans
<1>1. /\ p \in Seq(T) /\ q \in Seq(T) /\ r \in Seq(T)
      /\ Once(p) /\ Once(q) /\ Once(r)
  BY PartIs, Zenon DEF Apps
<1>2. /\ \A n \in DOMAIN p : p[n][1] = "wps" /\ p[n][2] \in lans(cf, "wps")
      /\ \A n \in DOMAIN q : q[n][1] = "nas" /\ q[n][2] \in lans(cf, "nas")
      /\ \A n \in DOMAIN r : r[n][1] = "ses" /\ r[n][2] \in lans(cf, "ses")
  BY PartIs, Zenon DEF Apps
<1>3. Opens(cf) = pqr
  BY DEF Opens, wps_app_init, nas_app_init, ses_app_init
<1> HIDE DEF p, q, r, T
<1>4. pq \in Seq(T) /\ Once(pq) /\ Join(pq, p, q)
  <2>1. Apart(p, q)
    BY <1>2 DEF Apart
  <2> QED
    BY <1>1, <2>1, JoinIs, Zenon
<1> HIDE DEF pq
<1>5. \A n \in DOMAIN pq : pq[n][1] # "ses" /\ pq[n][2] \in lans(cf, pq[n][1])
  BY <1>2, <1>4 DEF Join
<1>6. pqr \in Seq(T) /\ Once(pqr) /\ Join(pqr, pq, r)
  <2>1. Apart(pq, r)
    BY <1>2, <1>5 DEF Apart
  <2> QED
    BY <1>1, <1>4, <2>1, JoinIs, Zenon
<1> HIDE DEF pqr
<1>7. \A n \in DOMAIN pqr : pqr[n][2] \in lans(cf, pqr[n][1])
  BY <1>2, <1>5, <1>6 DEF Join
<1> QED
  BY <1>3, <1>6, <1>7 DEF T

-----------------------------------------------------------------------------
(* The actions *)

\* Control blocks by the names of their interfaces.
LEMMA CbListIs ==
    ASSUME NEW f
    PROVE  /\ f \in CbList => DOMAIN f \subseteq Lans /\ f \in [DOMAIN f -> Nat]
           /\ \A S : S \subseteq Lans /\ f \in [S -> Nat] => f \in CbList
  BY DEF CbList

\* One app's control blocks change.
LEMMA CbsIs ==
    ASSUME WkspTypes, NEW a \in Apps, NEW f \in CbList, cbs' = [cbs EXCEPT ![a] = f]
    PROVE  /\ cbs' \in [Apps -> CbList] /\ cbs'[a] = f
           /\ \A d \in Apps \ {a} : cbs'[d] = cbs[d]
           /\ \A d \in Apps, m \in Lans :
                 Sock(d, m)' = IF d # a THEN Sock(d, m) ELSE IF m \in DOMAIN f THEN f[m] ELSE NULL
<1>1. /\ cbs' \in [Apps -> CbList] /\ cbs'[a] = f
      /\ \A d \in Apps \ {a} : cbs'[d] = cbs[d]
  BY DEF WkspTypes
<1> QED
  BY <1>1 DEF Sock

\* A control block's socket changes.
LEMMA CbPut ==
    ASSUME WkspTypes, NEW a \in Apps, NEW l \in DOMAIN cbs[a], NEW k \in Nat,
           cbs' = [cbs EXCEPT ![a][l] = k]
    PROVE  /\ cbs' \in [Apps -> CbList] /\ l \in Lans
           /\ \A d \in Apps : DOMAIN cbs'[d] = DOMAIN cbs[d]
           /\ Takes(a, l, k)
<1> DEFINE f == [cbs[a] EXCEPT ![l] = k]
<1>1. cbs[a] \in CbList
  BY DEF WkspTypes
<1>2. DOMAIN cbs[a] \subseteq Lans /\ cbs[a] \in [DOMAIN cbs[a] -> Nat]
  BY <1>1, CbListIs
<1>3. f \in [DOMAIN cbs[a] -> Nat] /\ f[l] = k /\ \A m \in DOMAIN cbs[a] \ {l} : f[m] = cbs[a][m]
  BY <1>2
<1>4. f \in CbList /\ DOMAIN f = DOMAIN cbs[a]
  BY <1>2, <1>3, CbListIs
<1>5. cbs' = [cbs EXCEPT ![a] = f]
  OBVIOUS
<1> HIDE DEF f
<1>6. /\ cbs' \in [Apps -> CbList] /\ cbs'[a] = f
      /\ \A d \in Apps \ {a} : cbs'[d] = cbs[d]
      /\ \A d \in Apps, m \in Lans :
            Sock(d, m)' = IF d # a THEN Sock(d, m) ELSE IF m \in DOMAIN f THEN f[m] ELSE NULL
  BY <1>4, <1>5, CbsIs
<1>7. \A m \in Lans : Sock(a, m)' = IF m = l THEN k ELSE Sock(a, m)
  BY <1>3, <1>4, <1>6 DEF Sock
<1> QED
  BY <1>2, <1>4, <1>6, <1>7 DEF Takes

\* The sockets are left alone, and so is every control block's.
LEMMA SameSocks ==
    ASSUME WkspTypes, SocketInv, UNCHANGED <<brcm, twice>>,
           \A d \in Apps, m \in Lans : Sock(d, m)' = Sock(d, m)
    PROVE  SocketInv'
<1>1. \A j \in DOMAIN brcm : brcm[j].ifname \in Lans
  <2>1. \A j \in DOMAIN brcm : brcm[j] \in Raw
    BY DEF WkspTypes
  <2> QED
    BY <2>1 DEF Raw
<1>2. \A d \in Apps, j \in DOMAIN brcm : Uses(d, j)' = Uses(d, j)
  BY <1>1 DEF Uses
<1>3. \A j \in DOMAIN brcm : Users(j)' = Users(j)
  BY <1>2 DEF Users, Apps
<1>4. OwnSocket'
  BY DEF SocketInv, OwnSocket
<1>5. Counted'
  BY <1>3 DEF SocketInv, Counted
<1>6. OneSocket'
  BY DEF SocketInv, OneSocket
<1> QED
  BY <1>4, <1>5, <1>6 DEF SocketInv

\* The sockets and the control blocks are left alone.
LEMMA SameSockets == ASSUME SocketInv, UNCHANGED <<cbs, brcm, twice>> PROVE SocketInv'
  BY DEF SocketInv, OwnSocket, Counted, OneSocket, Sock, Uses, Users

\* event_init begins: no name is done yet.
LEMMA EventsBegin ==
    ASSUME NEW ifn, event_init(ifn), ifnames' = ifn
    PROVE  EventInv'
  BY DEF event_init, EventInv

\* It ends, and what was served stays.
LEMMA EventsEnd ==
    ASSUME EventInv, phase \in {"events", "adding"}, evq = {}, UNCHANGED <<ifnames, mask, unserved>>
    PROVE  EventsCover'
<1>1. \A a \in Apps, i \in AllIfs \ unserved : NvName[i] \in ifnames[a] => bitvec[a] \subseteq mask[Unit[i]]
  BY DEF EventInv
<1> QED
  BY <1>1 DEF EventsCover

\* eapd_wksp_auto_config: control blocks without sockets.
LEMMA InvConfig == ASSUME WkspInv, Config PROVE WkspInv'
<1>1. \A a \in Apps : auto_ifs(conf, a) \subseteq Ifs /\ lans(conf, a) \subseteq Lans
  BY AutoIfsIn, PartIs
<1>2. NULL \in Nat
  BY DEF NULL
<1>3. \A a \in Apps : cbs'[a] = [l \in lans(conf, a) |-> NULL]
  BY DEF Config
<1>4. WkspTypes'
  <2>1. cbs' \in [Apps -> CbList]
    <3>1. \A a \in Apps : [l \in lans(conf, a) |-> NULL] \in CbList
      BY <1>1, <1>2, CbListIs
    <3> QED
      BY <3>1 DEF Config
  <2>2. ifnames' \in [Apps -> SUBSET Names]
    <3>1. \A a \in Apps : {NvName[i] : i \in auto_ifs(conf, a)} \in SUBSET Names
      BY <1>1 DEF Names, AllIfs
    <3> QED
      BY <3>1 DEF Config
  <2>3. phase' \in Phases
    BY DEF Config, Phases
  <2> QED
    BY <2>1, <2>2, <2>3 DEF WkspInv, WkspTypes, Config
<1>5. \A a \in Apps, l \in Lans : Sock(a, l)' = NULL
  BY <1>2, <1>3 DEF Sock
<1>6. SocketInv'
  <2>1. brcm' = <<>>
    BY DEF Config, WkspInv, OffInv
  <2> QED
    BY <1>5, <2>1 DEF SocketInv, OwnSocket, Counted, OneSocket
<1>7. TodoInv'
  <2>1. /\ todo' \in Seq(Apps \X Lans) /\ Once(todo')
        /\ \A n \in DOMAIN todo' : todo'[n][2] \in lans(conf, todo'[n][1])
    <3>1. todo' = Opens(conf)
      BY DEF Config
    <3> QED
      BY <3>1, OpensIs
  <2>2. \A n \in DOMAIN todo' : todo'[n][1] \in Apps /\ todo'[n][2] \in Lans
    BY <2>1
  <2>3. \A n \in DOMAIN todo' : todo'[n][2] \in DOMAIN cbs'[todo'[n][1]]
    BY <1>3, <2>1, <2>2
  <2>4. \A n \in DOMAIN todo' : Sock(todo[n][1], todo[n][2])' = NULL
    BY <1>5, <2>2
  <2>5. Once(todo)'
    BY <2>1 DEF Once
  <2> QED
    BY <2>1, <2>3, <2>4, <2>5 DEF TodoInv
<1>9. phase' \notin {"off", "running", "select", "events", "adding"}
  BY DEF Config
<1> QED
  BY <1>4, <1>6, <1>7, <1>9 DEF WkspInv, OffInv, DifInv, EventInv, EventsCover

\* eapd_wksp_init opens, or fails to open, the socket of one control block.
LEMMA InvOpenSocket ==
    ASSUME WkspInv, NEW ok \in BOOLEAN, OpenSocket(ok)
    PROVE  WkspInv'
<1>1. WkspTypes /\ SocketInv /\ phase = "opening" /\ phase' = phase
  BY DEF WkspInv, OpenSocket
<1>2. /\ todo \in Seq(Apps \X Lans) /\ todo # <<>> /\ Once(todo)
      /\ \A n \in DOMAIN todo : todo[n][2] \in DOMAIN cbs[todo[n][1]] /\ Sock(todo[n][1], todo[n][2]) = NULL
  BY <1>1 DEF WkspInv, TodoInv, OpenSocket
<1>3. /\ Head(todo) = todo[1] /\ 1 \in DOMAIN todo /\ todo[1] \in Apps \X Lans
      /\ Tail(todo) \in Seq(Apps \X Lans)
      /\ \A n \in DOMAIN Tail(todo) : n + 1 \in DOMAIN todo /\ n + 1 # 1 /\ Tail(todo)[n] = todo[n + 1] /\ n \in Nat
  BY <1>2
<1>4. PICK a \in Apps, l \in Lans : todo[1] = <<a, l>>
  BY <1>3
<1>5. PICK k : k = slot(brcm, l)
  OBVIOUS
<1>6. Head(todo)[1] = a /\ Head(todo)[2] = l
  BY <1>3, <1>4
<1>7. a \in Apps /\ l \in Lans /\ l \in DOMAIN cbs[a] /\ Sock(a, l) = NULL
  <2>1. todo[1][2] \in DOMAIN cbs[todo[1][1]] /\ Sock(todo[1][1], todo[1][2]) = NULL
    BY <1>2, <1>3
  <2>2. todo[1][1] = a /\ todo[1][2] = l
    BY <1>4
  <2> QED
    BY <2>1, <2>2, Zenon
<1>8. \A n \in DOMAIN Tail(todo) : ~(Tail(todo)[n][1] = a /\ Tail(todo)[n][2] = l)
  <2> SUFFICES ASSUME NEW n \in DOMAIN Tail(todo), Tail(todo)[n][1] = a, Tail(todo)[n][2] = l PROVE FALSE
    OBVIOUS
  <2>1. todo[n + 1] = todo[1]
    <3>1. Tail(todo)[n] \in Apps \X Lans
      BY <1>3
    <3> QED
      BY <1>3, <1>4, <3>1
  <2> QED
    BY <1>2, <1>3, <2>1 DEF Once
<1>9. /\ added(brcm, l, ok) /\ todo' = Tail(todo)
      /\ UNCHANGED <<phase, ifnames, conf, shutdown, mask, evq, seen, unserved, twice>>
      /\ brcm' = [add_brcm(brcm, l, ok) EXCEPT ![k].caps = @ \cup {a}]
  BY <1>5, <1>6 DEF OpenSocket, events
<1>10. cbs' = [cbs EXCEPT ![a][l] = k]
  BY <1>5, <1>6 DEF OpenSocket
<1>11. Acquired(a, l, k)
  BY <1>1, <1>7, <1>9, <1>5, AddedIs
<1>12. k \in Nat
  BY <1>11 DEF Acquired
<1>16. cbs' \in [Apps -> CbList]
  BY <1>1, <1>7, <1>10, <1>12, CbPut
<1>17. \A d \in Apps : DOMAIN cbs'[d] = DOMAIN cbs[d]
  BY <1>1, <1>7, <1>10, <1>12, CbPut
<1>18. Takes(a, l, k)
  BY <1>1, <1>7, <1>10, <1>12, CbPut
<1>19. SocketInv'
  BY <1>1, <1>7, <1>9, <1>11, <1>18, AcquireKeeps
<1>20. WkspTypes'
  BY <1>1, <1>9, <1>11, <1>16 DEF WkspTypes, Acquired
<1>21. TodoInv'
  <2>1. ASSUME NEW n \in DOMAIN todo'
        PROVE  todo'[n][2] \in DOMAIN cbs'[todo'[n][1]] /\ Sock(todo[n][1], todo[n][2])' = NULL
    <3>1. todo'[n] = todo[n + 1] /\ todo'[n] \in Apps \X Lans /\ n + 1 \in DOMAIN todo
      BY <1>3, <1>9
    <3>2. todo'[n][2] \in DOMAIN cbs[todo'[n][1]] /\ Sock(todo'[n][1], todo'[n][2]) = NULL
      BY <1>2, <3>1
    <3>3. todo'[n][1] \in Apps /\ todo'[n][2] \in Lans /\ ~(todo'[n][1] = a /\ todo'[n][2] = l)
      BY <1>8, <1>9, <3>1
    <3> QED
      BY <1>17, <1>18, <3>2, <3>3 DEF Takes
  <2>2. Once(todo)'
    <3> SUFFICES ASSUME NEW m \in DOMAIN todo', NEW n \in DOMAIN todo', todo'[m] = todo'[n] PROVE m = n
      BY DEF Once
    <3>1. m + 1 = n + 1 /\ m \in Nat /\ n \in Nat
      BY <1>2, <1>3, <1>9 DEF Once
    <3> QED
      BY <3>1
  <2> QED
    BY <1>3, <1>9, <2>1, <2>2 DEF TodoInv
<1> QED
  BY <1>1, <1>19, <1>20, <1>21 DEF WkspInv, OffInv, DifInv, EventInv, EventsCover

\* It gives up and cleans up what it has opened.
LEMMA InvInitFails == ASSUME WkspInv, InitFails PROVE WkspInv'
<1>1. WkspTypes /\ SocketInv /\ phase' = "failed"
  BY DEF WkspInv, InitFails
<1>2. UNCHANGED <<todo, conf, ifnames, cbs, shutdown, mask, twice>>
  BY DEF InitFails
<1>3. brcm' \in Seq(Raw) /\ SocketInv'
  <2>1. CASE UNCHANGED brcm
    BY <1>1, <1>2, <2>1, SameSockets DEF WkspTypes
  <2>2. CASE /\ phase = "opening" /\ todo # <<>> /\ ~added(brcm, Head(todo)[2], FALSE)
             /\ brcm' = add_brcm(brcm, Head(todo)[2], FALSE)
    <3>1. todo \in Seq(Apps \X Lans)
      BY <2>2 DEF WkspInv, TodoInv
    <3>2. Head(todo)[2] \in Lans
      <4>1. Head(todo) \in Apps \X Lans
        BY <2>2, <3>1
      <4> QED
        BY <4>1
    <3>3. \A d \in Apps, m \in Lans : Sock(d, m)' = Sock(d, m)
      BY <1>2 DEF Sock
    <3> QED
      BY <1>1, <1>2, <2>2, <3>2, <3>3, RefusedKeeps
  <2> QED
    BY <2>1, <2>2 DEF InitFails
<1> QED
  BY <1>1, <1>2, <1>3 DEF WkspInv, WkspTypes, Phases, TodoInv, DifInv, OffInv, EventInv, EventsCover

\* A change of phase that leaves sockets, control blocks and masks alone.
LEMMA InvPhase ==
    ASSUME WkspInv, UNCHANGED <<todo, twice, conf, ifnames, cbs, brcm, mask>>, shutdown' \in BOOLEAN,
           phase' \in {"events", "running", "select"}, EventInv', EventsCover'
    PROVE  WkspInv'
<1>1. SocketInv'
  BY SameSockets DEF WkspInv
<1>2. WkspTypes'
  BY DEF WkspInv, WkspTypes, Phases
<1> QED
  BY <1>1, <1>2 DEF WkspInv, TodoInv, DifInv, OffInv

\* The apps are ready, and event_init begins.
LEMMA InvInitEvents == ASSUME WkspInv, InitEvents PROVE WkspInv'
<1>1. EventInv'
  BY EventsBegin DEF InitEvents
<1>2. EventsCover'
  BY DEF InitEvents, EventsCover
<1> QED
  BY <1>1, <1>2, InvPhase DEF InitEvents, WkspInv, WkspTypes

\* It ends.
LEMMA InvInitDone == ASSUME WkspInv, InitDone PROVE WkspInv'
<1>1. EventsCover'
  BY EventsEnd DEF InitDone, WkspInv
<1>2. EventInv'
  BY DEF InitDone, EventInv
<1> QED
  BY <1>1, <1>2, InvPhase DEF InitDone, WkspInv, WkspTypes

\* The main loop.
LEMMA InvLoop == ASSUME WkspInv, Dispatch \/ SelectEnds PROVE WkspInv'
<1>1. EventsCover'
  BY DEF Dispatch, SelectEnds, WkspInv, EventsCover, events
<1>2. EventInv'
  BY DEF Dispatch, SelectEnds, EventInv
<1> QED
  BY <1>1, <1>2, InvPhase DEF Dispatch, SelectEnds, WkspInv, WkspTypes

\* One name of event_init.
LEMMA InvEventName == ASSUME WkspInv, NEW i \in AllIfs, EventName(i) PROVE WkspInv'
<1>1. /\ phase \in {"events", "adding"} /\ i \in evq
      /\ UNCHANGED <<phase, todo, dif, twice, conf, ifnames, cbs, brcm, shutdown>>
      /\ WkspTypes /\ SocketInv
  BY DEF EventName, WkspInv
<1>2. SocketInv'
  BY <1>1, SameSockets
<1> DEFINE u == Unit[i]
<1>3. u \in Units
  BY DEF Units
<1>4. \A a \in Apps, j \in AllIfs \ (evq \cup unserved) :
          NvName[j] \in ifnames[a] => Unit[j] \in seen /\ bitvec[a] \subseteq mask[Unit[j]] /\ Unit[j] \in Units
  BY <1>1 DEF WkspInv, EventInv, Units
<1>5. /\ mask' = [v \in Units |-> mask'[v]]
      /\ \A a \in Apps, j \in AllIfs \ (evq' \cup unserved') :
            NvName[j] \in ifnames[a] => Unit[j] \in seen' /\ bitvec[a] \subseteq mask'[Unit[j]]
  <2>1. CASE EventSkip(i) \/ EventGetFails(i)
    BY <1>1, <1>4, <2>1 DEF EventSkip, EventGetFails, WkspTypes
  <2>2. CASE EventSetFails(i)
    BY <1>1, <1>4, <2>2 DEF EventSetFails, WkspTypes
  <2>3. CASE EventSet(i)
    <3> DEFINE w == (IF u \in seen THEN mask[u] ELSE {}) \cup app_bits(i)
    <3>1. mask' = [mask EXCEPT ![u] = w] /\ seen' = seen \cup {u} /\ evq' = evq \ {i} /\ unserved' = unserved
      BY <2>3 DEF EventSet
    <3>2. mask = [v \in Units |-> mask[v]]
      BY <1>1 DEF WkspTypes
    <3>3. mask'[u] = w /\ \A v \in Units \ {u} : mask'[v] = mask[v]
      BY <1>3, <3>1, <3>2
    <3>4. mask' = [v \in Units |-> mask'[v]]
      BY <3>1, <3>2
    <3>5. ASSUME NEW a \in Apps, NvName[i] \in ifnames[a] PROVE bitvec[a] \subseteq w
      <4>1. a \in {x \in Apps : NvName[i] \in ifnames[x]}
        BY <3>5
      <4>2. bitvec[a] \subseteq app_bits(i)
        <5> DEFINE A == {x \in Apps : NvName[i] \in ifnames[x]}
        <5>1. app_bits(i) = UNION {bitvec[x] : x \in A}
          BY DEF app_bits
        <5> HIDE DEF A
        <5>2. bitvec[a] \in {bitvec[x] : x \in A}
          BY <4>1 DEF A
        <5> QED
          BY <5>1, <5>2
      <4> HIDE DEF u
      <4> QED
        BY <4>2
    <3>6. ASSUME NEW a \in Apps, NEW j \in AllIfs \ (evq' \cup unserved'), NvName[j] \in ifnames[a]
          PROVE  Unit[j] \in seen' /\ bitvec[a] \subseteq mask'[Unit[j]]
      <4>1. CASE j = i
        BY <3>1, <3>3, <3>5, <3>6, <4>1
      <4>2. CASE j # i
        <5>1. j \in AllIfs \ (evq \cup unserved)
          BY <3>1, <4>2
        <5>2. Unit[j] \in seen /\ bitvec[a] \subseteq mask[Unit[j]] /\ Unit[j] \in Units
          BY <1>4, <3>6, <5>1
        <5>3. CASE Unit[j] = u
          <6>1. mask[u] \subseteq w
            <7> HIDE DEF u
            <7> QED
              BY <5>2, <5>3
          <6> QED
            BY <3>1, <3>3, <5>2, <5>3, <6>1
        <5>4. CASE Unit[j] # u
          BY <3>1, <3>3, <5>2, <5>4
        <5> QED
          BY <5>3, <5>4
      <4> QED
        BY <4>1, <4>2
    <3> QED
      BY <3>4, <3>6
  <2> QED
    BY <2>1, <2>2, <2>3 DEF EventName
<1>6. EventInv' /\ EventsCover'
  BY <1>1, <1>5 DEF EventInv, EventsCover
<1>7. WkspTypes'
  BY <1>1, <1>5 DEF WkspTypes
<1>8. TodoInv' /\ DifInv' /\ OffInv'
  BY <1>1 DEF WkspInv, TodoInv, DifInv, OffInv
<1> QED
  BY <1>2, <1>6, <1>7, <1>8 DEF WkspInv

\* An interface comes: its name and, unless there is one, its control block.
LEMMA InvAddDif == ASSUME WkspInv, NEW i \in DynIfs, AddDif(i) PROVE WkspInv'
<1>1. /\ WkspTypes /\ SocketInv /\ phase = "select" /\ phase' = "adding" /\ dif' = i
      /\ UNCHANGED <<todo, twice, conf, brcm, mask, shutdown>> /\ "nas" \in Apps
  BY DEF WkspInv, AddDif, Apps
<1>2. PICK l : l = lanifname(i)
  OBVIOUS
<1>3. i \in AllIfs /\ l \in Lans
  BY <1>2 DEF AllIfs, Lans
<1>4. PICK ifn : ifn = [ifnames EXCEPT !["nas"] = @ \cup {NvName[i]}]
  OBVIOUS
<1>5. ifnames' = ifn /\ event_init(ifn)
  BY <1>4 DEF AddDif
<1>6. ifn \in [Apps -> SUBSET Names]
  <2>1. ifnames \in [Apps -> SUBSET Names] /\ NvName[i] \in Names
    BY <1>1, <1>3 DEF WkspTypes, Names
  <2> QED
    BY <1>1, <1>4, <2>1
<1>7. DOMAIN cbs["nas"] \subseteq Lans /\ cbs["nas"] \in [DOMAIN cbs["nas"] -> Nat]
  <2>1. cbs["nas"] \in CbList
    BY <1>1 DEF WkspTypes
  <2> QED
    BY <2>1, CbListIs
<1>8. PICK g : g = add_cb(cbs["nas"], l)
  OBVIOUS
<1>9. /\ g \in [DOMAIN cbs["nas"] \cup {l} -> Nat] /\ DOMAIN g = DOMAIN cbs["nas"] \cup {l}
      /\ \A m \in DOMAIN g : g[m] = IF m \in DOMAIN cbs["nas"] THEN cbs["nas"][m] ELSE NULL
  <2>1. NULL \in Nat
    BY DEF NULL
  <2> QED
    BY <1>7, <1>8, <2>1 DEF add_cb
<1>10. g \in CbList
  <2>1. DOMAIN cbs["nas"] \cup {l} \subseteq Lans
    BY <1>3, <1>7
  <2> QED
    BY <1>9, <2>1, CbListIs
<1>11. cbs' = [cbs EXCEPT !["nas"] = g]
  BY <1>2, <1>8 DEF AddDif
<1>12. /\ cbs' \in [Apps -> CbList] /\ cbs'["nas"] = g
       /\ \A d \in Apps, m \in Lans :
             Sock(d, m)' = IF d # "nas" THEN Sock(d, m) ELSE IF m \in DOMAIN g THEN g[m] ELSE NULL
  BY <1>1, <1>10, <1>11, CbsIs
<1>13. \A d \in Apps, m \in Lans : Sock(d, m)' = Sock(d, m)
  <2>1. \A m \in Lans : Sock("nas", m)' = Sock("nas", m)
    BY <1>1, <1>9, <1>12 DEF Sock
  <2> QED
    BY <1>12, <2>1
<1>14. SocketInv'
  BY <1>1, <1>13, SameSocks
<1>15. WkspTypes'
  BY <1>1, <1>5, <1>6, <1>12 DEF WkspTypes, Phases
<1>16. DifInv'
  BY <1>1, <1>2, <1>9, <1>12 DEF DifInv
<1>17. EventInv'
  BY <1>5, EventsBegin
<1> QED
  BY <1>1, <1>14, <1>15, <1>16, <1>17 DEF WkspInv, TodoInv, OffInv, EventsCover

\* nas_open_dif_sockets: its socket, new or counted once more.
LEMMA InvOpenDif == ASSUME WkspInv, NEW ok \in BOOLEAN, OpenDif(ok) PROVE WkspInv'
<1>1. /\ WkspTypes /\ SocketInv /\ phase = "adding" /\ evq = {} /\ phase' = "running"
      /\ UNCHANGED <<todo, evq, unserved, conf, ifnames, mask, shutdown>> /\ "nas" \in Apps
  BY DEF WkspInv, OpenDif, Apps
<1>2. PICK l : l = lanifname(dif)
  OBVIOUS
<1>3. l \in DOMAIN cbs["nas"] /\ l \in Lans /\ Sock("nas", l) = cbs["nas"][l]
  BY <1>1, <1>2 DEF WkspInv, DifInv, Lans, AllIfs, Sock
<1>4. PICK k : k = slot(brcm, l)
  OBVIOUS
<1>5. twice' = IF Sock("nas", l) = NULL THEN twice ELSE twice \cup {l}
  BY <1>2, <1>3 DEF OpenDif
<1>6. SocketInv' /\ brcm' \in Seq(Raw) /\ cbs' \in [Apps -> CbList]
  <2>1. CASE added(brcm, l, ok)
    <3>1. /\ brcm' = [add_brcm(brcm, l, ok) EXCEPT ![k].caps = @ \cup {"nas"}]
          /\ cbs' = [cbs EXCEPT !["nas"][l] = k]
      BY <1>2, <1>4, <2>1 DEF OpenDif
    <3>2. Acquired("nas", l, k)
      BY <1>1, <1>3, <1>4, <2>1, <3>1, AddedIs
    <3>3. k \in Nat /\ brcm' \in Seq(Raw)
      BY <3>2 DEF Acquired
    <3>4. /\ cbs' \in [Apps -> CbList]
          /\ Takes("nas", l, k)
      BY <1>1, <1>3, <3>1, <3>3, CbPut
    <3> QED
      BY <1>1, <1>3, <1>5, <3>2, <3>3, <3>4, AcquireKeeps
  <2>2. CASE ~added(brcm, l, ok)
    <3>1. brcm' = add_brcm(brcm, l, ok) /\ cbs' = [cbs EXCEPT !["nas"][l] = NULL]
      BY <1>2, <2>2 DEF OpenDif
    <3>2. Sock("nas", l) = NULL
      <4> SUFFICES ASSUME Sock("nas", l) # NULL PROVE FALSE
        OBVIOUS
      <4>1. Sock("nas", l) \in find_brcm(brcm, l)
        BY <1>1, <1>3, InUse DEF find_brcm
      <4> QED
        BY <2>2, <4>1 DEF added
    <3>3. /\ cbs' \in [Apps -> CbList]
          /\ Takes("nas", l, NULL)
      <4>1. NULL \in Nat
        BY DEF NULL
      <4> QED
        BY <1>1, <1>3, <3>1, <4>1, CbPut
    <3>4. \A d \in Apps, m \in Lans : Sock(d, m)' = Sock(d, m)
      BY <3>2, <3>3 DEF Takes
    <3> QED
      BY <1>1, <1>3, <1>5, <2>2, <3>1, <3>2, <3>3, <3>4, RefusedKeeps
  <2> QED
    BY <2>1, <2>2
<1>7. WkspTypes'
  BY <1>1, <1>6 DEF WkspTypes, Phases
<1>8. EventsCover'
  BY <1>1, EventsEnd DEF WkspInv
<1> QED
  BY <1>1, <1>6, <1>7, <1>8 DEF WkspInv, TodoInv, DifInv, OffInv, EventInv

\* It goes, with its name, its control block and its use of the socket.
LEMMA InvDeleteDif ==
    ASSUME WkspInv, NEW i \in DynIfs, DeleteDif(i)
    PROVE  WkspInv'
<1>1. /\ WkspTypes /\ SocketInv /\ phase = "select" /\ phase' = "running" /\ "nas" \in Apps
      /\ UNCHANGED <<todo, conf, mask, shutdown, twice, unserved>>
  BY DEF WkspInv, DeleteDif, events, Apps
<1>3. i \in DOMAIN cbs["nas"]
  BY DEF DeleteDif
<1>4. DOMAIN cbs["nas"] \subseteq Lans /\ cbs["nas"] \in [DOMAIN cbs["nas"] -> Nat]
  <2>1. cbs["nas"] \in CbList
    BY <1>1 DEF WkspTypes, Apps
  <2> QED
    BY <2>1, CbListIs
<1>2. i \in Lans /\ "nas" \in Apps
  BY <1>1, <1>3, <1>4
<1>5. PICK f : f = [l \in DOMAIN cbs["nas"] \ {i} |-> cbs["nas"][l]]
  OBVIOUS
<1>6. f \in CbList /\ DOMAIN f = DOMAIN cbs["nas"] \ {i} /\ \A l \in DOMAIN f : f[l] = cbs["nas"][l]
  <2>1. f \in [DOMAIN cbs["nas"] \ {i} -> Nat] /\ DOMAIN cbs["nas"] \ {i} \subseteq Lans
    BY <1>4, <1>5
  <2>2. f \in CbList
    BY <2>1, CbListIs
  <2> QED
    BY <1>5, <2>2
<1>7. cbs' = [cbs EXCEPT !["nas"] = f]
  BY <1>5 DEF DeleteDif
<1>8. /\ cbs' \in [Apps -> CbList] /\ cbs'["nas"] = f
      /\ \A d \in Apps, m \in Lans :
            Sock(d, m)' = IF d # "nas" THEN Sock(d, m) ELSE IF m \in DOMAIN f THEN f[m] ELSE NULL
  BY <1>1, <1>2, <1>6, <1>7, CbsIs
<1>9. \A d \in Apps, m \in Lans : Sock(d, m)' = IF d = "nas" /\ m = i THEN NULL ELSE Sock(d, m)
  <2>1. ASSUME NEW m \in Lans PROVE Sock("nas", m)' = IF m = i THEN NULL ELSE Sock("nas", m)
    <3>1. Sock("nas", m)' = IF m \in DOMAIN f THEN f[m] ELSE NULL
      BY <1>2, <1>8
    <3> QED
      BY <1>6, <3>1 DEF Sock
  <2> QED
    BY <1>8, <2>1
<1>10. Sock("nas", i) = cbs["nas"][i] /\ brcm' = nas_close_dif_sockets(brcm, cbs["nas"][i])
  BY <1>3 DEF Sock, DeleteDif
<1>11. brcm' \in Seq(Raw) /\ SocketInv'
  <2>1. CASE Sock("nas", i) # NULL
    <3>1. brcm[Sock("nas", i)].ifname = i
      BY <1>1, <1>2, <2>1, InUse
    <3>2. brcm' = del_brcm(brcm, {<<"nas", i>>})
      BY <1>10, <2>1, <3>1 DEF nas_close_dif_sockets
    <3> QED
      BY <1>1, <1>2, <1>9, <2>1, <3>2, ReleaseKeeps
  <2>2. CASE Sock("nas", i) = NULL
    <3>1. brcm' = brcm
      BY <1>10, <2>2 DEF nas_close_dif_sockets
    <3>2. \A d \in Apps, m \in Lans : Sock(d, m)' = Sock(d, m)
      BY <1>9, <2>2
    <3> QED
      BY <1>1, <3>1, <3>2, SameSocks DEF WkspTypes
  <2> QED
    BY <2>1, <2>2
<1>12. /\ ifnames' \in [Apps -> SUBSET Names] /\ ifnames'["nas"] = ifnames["nas"] \ {OsName[i]}
       /\ \A a \in Apps : ifnames'[a] \subseteq ifnames[a]
  <2>1. ifnames \in [Apps -> SUBSET Names]
    BY <1>1 DEF WkspTypes
  <2>2. ifnames' = [ifnames EXCEPT !["nas"] = @ \ {OsName[i]}]
    BY DEF DeleteDif
  <2> QED
    BY <1>2, <2>1, <2>2
<1>13. WkspTypes'
  BY <1>1, <1>8, <1>11, <1>12 DEF WkspTypes, Phases
<1>15. EventsCover'
  BY <1>1, <1>12 DEF WkspInv, EventsCover
<1> QED
  BY <1>1, <1>11, <1>13, <1>15 DEF WkspInv, TodoInv, OffInv, DifInv, EventInv

\* eapd_wksp_cleanup.
LEMMA InvCleanup == ASSUME WkspInv, Cleanup PROVE WkspInv'
<1>1. /\ WkspTypes /\ SocketInv /\ phase' = "stopped" /\ UNCHANGED <<todo, conf, ifnames, mask, shutdown, twice>>
      /\ cbs' = [a \in Apps |-> <<>>]
  BY DEF WkspInv, Cleanup
<1>2. \A a \in Apps : DOMAIN cbs'[a] = {}
  BY <1>1
<1>3. \A a \in Apps, l \in Lans : Sock(a, l)' = NULL
  BY <1>2 DEF Sock
<1>4. brcm' \in Seq(Raw) /\ SocketInv'
  BY <1>1, <1>3, CleanupKeeps DEF Cleanup
<1>5. cbs' \in [Apps -> CbList]
  <2>1. <<>> \in CbList
    <3>1. <<>> \in [{} -> Nat] /\ {} \subseteq Lans
      OBVIOUS
    <3> QED
      BY <3>1, CbListIs
  <2> QED
    BY <1>1, <2>1
<1>6. WkspTypes'
  BY <1>1, <1>4, <1>5 DEF WkspTypes, Phases
<1> QED
  BY <1>1, <1>2, <1>4, <1>6 DEF WkspInv, TodoInv, DifInv, OffInv, EventInv, EventsCover, Apps

\* A signal, or nothing.
LEMMA InvSame ==
    ASSUME WkspInv, UNCHANGED <<phase, todo, events, dif, twice, conf, ifnames, cbs, brcm, mask>>, shutdown' \in BOOLEAN
    PROVE  WkspInv'
<1>1. SocketInv'
  BY SameSockets DEF WkspInv
<1>2. TodoInv'
  BY DEF WkspInv, TodoInv, Once, Sock
<1> QED
  BY <1>1, <1>2 DEF WkspInv, WkspTypes, DifInv, OffInv, EventInv, EventsCover, events

\* Before the configuration there is nothing.
LEMMA WkspInit == ASSUME Init PROVE WkspInv
<1>1. <<>> \in CbList
  <2>1. <<>> \in [{} -> Nat] /\ {} \subseteq Lans
    OBVIOUS
  <2> QED
    BY <2>1, CbListIs
<1>2. WkspTypes
  <2>1. ifnames \in [Apps -> SUBSET Names] /\ cbs \in [Apps -> CbList] /\ brcm \in Seq(Raw)
    BY <1>1 DEF Init
  <2>2. mask = [u \in Units |-> mask[u]]
    BY DEF Init
  <2> QED
    BY <2>1, <2>2 DEF Init, WkspTypes, Phases
<1>3. \A a \in Apps : DOMAIN cbs[a] = {}
  BY DEF Init
<1>4. \A a \in Apps, l \in Lans : Sock(a, l) = NULL
  BY <1>3 DEF Sock
<1>5. SocketInv
  BY <1>4 DEF Init, SocketInv, OwnSocket, Counted, OneSocket
<1> QED
  BY <1>2, <1>3, <1>5 DEF Init, WkspInv, TodoInv, DifInv, OffInv, EventInv, EventsCover, Apps

\* Every step preserves WkspInv.
LEMMA WkspStep == ASSUME WkspInv, [Next]_vars PROVE WkspInv'
<1>1. ASSUME Term PROVE WkspInv'
  BY <1>1, InvSame DEF Term
<1>2. ASSUME UNCHANGED vars PROVE WkspInv'
  BY <1>2, InvSame DEF vars, WkspInv, WkspTypes
<1>3. ASSUME Done PROVE WkspInv'
  BY <1>2, <1>3 DEF Done
<1> QED
  BY <1>1, <1>2, <1>3, InvConfig, InvOpenSocket, InvInitFails, InvInitEvents, InvInitDone, InvLoop,
     InvEventName, InvAddDif, InvOpenDif, InvDeleteDif, InvCleanup DEF Next, Thread

\* The control blocks that use a socket, counted.
LEMMA UsersAre ==
    ASSUME NEW k \in DOMAIN brcm
    PROVE  LET users == {x \in Apps \X {brcm[k].ifname} :
                           x[2] \in DOMAIN cbs[x[1]] /\ cbs[x[1]][x[2]] = k} IN
           k # NULL => Cardinality(users) = Uses("wps", k) + Uses("nas", k) + Uses("ses", k)
<1> DEFINE l == brcm[k].ifname
           of(A) == {x \in A \X {l} : x[2] \in DOMAIN cbs[x[1]] /\ cbs[x[1]][x[2]] = k}
<1> SUFFICES ASSUME k # NULL PROVE Cardinality(of(Apps)) = Uses("wps", k) + Uses("nas", k) + Uses("ses", k)
  OBVIOUS
<1>1. ASSUME NEW a PROVE of({a}) = IF Uses(a, k) = 1 THEN {<<a, l>>} ELSE {}
  BY DEF Uses, Sock
<1>2. \A a : Uses(a, k) \in {0, 1}
  BY DEF Uses
<1>3. \A a : IsFiniteSet(of({a})) /\ Cardinality(of({a})) = Uses(a, k)
  <2> SUFFICES ASSUME NEW a PROVE IsFiniteSet(of({a})) /\ Cardinality(of({a})) = Uses(a, k)
    OBVIOUS
  <2>1. CASE Uses(a, k) = 1
    BY <1>1, <2>1, FS_Singleton
  <2>2. CASE Uses(a, k) = 0
    <3>1. of({a}) = {}
      BY <1>1, <2>2
    <3> HIDE DEF of
    <3> QED
      BY <2>2, <3>1, FS_EmptySet
  <2> QED
    BY <1>2, <2>1, <2>2
<1>4. of(Apps) = (of({"wps"}) \cup of({"nas"})) \cup of({"ses"})
  BY DEF Apps
<1>5. of({"wps"}) \cap of({"nas"}) = {} /\ (of({"wps"}) \cup of({"nas"})) \cap of({"ses"}) = {}
  OBVIOUS
<1> HIDE DEF of
<1>6. /\ IsFiniteSet(of({"wps"}) \cup of({"nas"}))
      /\ Cardinality(of({"wps"}) \cup of({"nas"})) = Uses("wps", k) + Uses("nas", k)
  <2>1. IsFiniteSet(of({"wps"})) /\ IsFiniteSet(of({"nas"})) /\ Cardinality({}) = 0
    BY <1>3, FS_EmptySet
  <2>2. /\ IsFiniteSet(of({"wps"}) \cup of({"nas"}))
        /\ Cardinality(of({"wps"}) \cup of({"nas"}))
             = Cardinality(of({"wps"})) + Cardinality(of({"nas"})) - Cardinality(of({"wps"}) \cap of({"nas"}))
    BY <2>1, FS_Union
  <2> QED
    BY <1>2, <1>3, <1>5, <2>1, <2>2
<1>7. Cardinality(of(Apps)) = Uses("wps", k) + Uses("nas", k) + Uses("ses", k)
  <2> DEFINE P == of({"wps"}) \cup of({"nas"})
  <2>1. IsFiniteSet(P) /\ IsFiniteSet(of({"ses"})) /\ Cardinality({}) = 0
    BY <1>3, <1>6, FS_EmptySet
  <2>2. Cardinality(P \cup of({"ses"}))
             = Cardinality(P) + Cardinality(of({"ses"})) - Cardinality(P \cap of({"ses"}))
    BY <2>1, FS_Union
  <2> QED
    BY <1>2, <1>3, <1>4, <1>5, <1>6, <2>1, <2>2
<1> QED
  BY <1>7 DEF of

\* The invariant counts the users of a socket, which is what is claimed.
LEMMA WkspCounts == ASSUME WkspInv PROVE SocketsCounted
<1>1. \A k \in DOMAIN brcm : k # NULL
  BY DEF WkspInv, WkspTypes, NULL
<1> SUFFICES ASSUME NEW k \in DOMAIN brcm
             PROVE  LET users == {x \in Apps \X {brcm[k].ifname} :
                                    x[2] \in DOMAIN cbs[x[1]] /\ cbs[x[1]][x[2]] = k} IN
                    /\ brcm[k].count >= Cardinality(users)
                    /\ brcm[k].ifname \notin twice => brcm[k].count = Cardinality(users)
                    /\ brcm[k].open <=> brcm[k].count > 0
                    /\ \A j \in DOMAIN brcm : (j # k /\ brcm[j].count > 0 /\ brcm[k].count > 0)
                                               => brcm[j].ifname # brcm[k].ifname
  BY DEF SocketsCounted
<1> DEFINE users == {x \in Apps \X {brcm[k].ifname} :
                       x[2] \in DOMAIN cbs[x[1]] /\ cbs[x[1]][x[2]] = k}
<1>2. Cardinality(users) = Users(k)
  BY <1>1, UsersAre DEF Users
<1> HIDE DEF users
<1>3. /\ brcm[k].count >= Cardinality(users)
      /\ brcm[k].ifname \notin twice => brcm[k].count = Cardinality(users)
      /\ brcm[k].open <=> brcm[k].count > 0
  BY <1>2 DEF WkspInv, SocketInv, Counted
<1>4. \A j \in DOMAIN brcm : (j # k /\ brcm[j].count > 0 /\ brcm[k].count > 0)
                               => brcm[j].ifname # brcm[k].ifname
  BY DEF WkspInv, SocketInv, OneSocket
<1> QED
  BY <1>3, <1>4 DEF users

\* eapd's workspace invariant holds throughout.
THEOREM EapdWkspCorrect == Spec => []WkspInv
<1>1. Init => WkspInv
  BY WkspInit
<1>2. WkspInv /\ [Next]_vars => WkspInv'
  BY WkspStep
<1> QED
  BY <1>1, <1>2, PTL DEF Spec

\* A raw socket is open while an app uses it, and closed with its last user unless
\* it was counted twice; an interface has one (SocketsCounted).
THEOREM EapdSocketsCounted == Spec => []SocketsCounted
<1>1. WkspInv => SocketsCounted
  BY WkspCounts
<1> QED
  BY <1>1, EapdWkspCorrect, PTL

\* The mask of a radio has the events of every name that event_init could write
\* (EventsCover).
THEOREM EapdEventsCover == Spec => []EventsCover
<1>1. WkspInv => EventsCover
  BY DEF WkspInv
<1> QED
  BY <1>1, EapdWkspCorrect, PTL
=============================================================================
