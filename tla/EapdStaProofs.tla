--------------------------- MODULE EapdStaProofs ---------------------------
(***************************************************************************)
(* Proofs about EapdSta, for any stations, interfaces, hash function and   *)
(* table size: the hashed station table implements the bounded cache of    *)
(* StaCache, and a WPS session stays on its interface.                     *)
(***************************************************************************)
EXTENDS EapdSta, TLAPS, FiniteSetTheorems, WellFoundedInduction

\* Types
Places == 1..MaxSta
Chains == {Hash[a] : a \in Stas}
Addrs == Stas \cup {NoIf}
IfNames == Ifs \cup {NoIf}
Paes == {"INITIALIZE", "IDENTITY"}
StaModes == {"UNKNOW", "WPS", "WPS_ENR", "SES", "NAS", "NAS_PSK"}
Entry == [used : BOOLEAN, ea : Addrs, ifname : IfNames, pae : Paes, mode : StaModes, last : Nat]
Table == [sta : [Places -> Entry], hashed : [Chains -> SUBSET Places]]

\* An entry in use is for a station, is in its chain, and was used by now.
Linked(t) ==
    \A k \in Places : t.sta[k].used => /\ t.sta[k].ea \in Stas /\ k \in t.hashed[Hash[t.sta[k].ea]]
                                       /\ t.sta[k].last <= clock

\* A chain holds entries in use only, of stations that hash to it.
Chained(t) ==
    \A h \in Chains : \A k \in t.hashed[h] : t.sta[k].used /\ Hash[t.sta[k].ea] = h

\* No station has two entries.
OneEach(t) ==
    \A j, k \in Places : t.sta[j].used /\ t.sta[k].used /\ t.sta[j].ea = t.sta[k].ea => j = k

TabOK(t) == t \in Table /\ Linked(t) /\ Chained(t) /\ OneEach(t)

EapdInv == TabOK(tab) /\ clock \in Nat /\ sess \in [Stas -> IfNames]

-----------------------------------------------------------------------------
(* The least element *)

\* A nonempty set of naturals has a least element, which Min is.
LEMMA MinIn ==
    ASSUME NEW S, S \subseteq Nat, S # {}
    PROVE  Min(S) \in S /\ \A y \in S : Min(S) <= y
<1> DEFINE R == {ss \in Nat \X Nat : ss[1] < ss[2]}
<1>1. R = OpToRel(<, Nat)
  BY Zenon DEF OpToRel
<1>2. IsWellFoundedOn(R, Nat)
  BY <1>1, NatLessThanWellFounded, Zenon
<1>3. PICK x \in S : \A y \in S : ~ (<<y, x>> \in R)
  BY <1>2, WFMin
<1>4. \A y \in S : x <= y
  <2> SUFFICES ASSUME NEW y \in S, y < x PROVE FALSE
    OBVIOUS
  <2>1. <<y, x>> \in R
    OBVIOUS
  <2> QED
    BY <1>3, <2>1
<1> QED
  BY <1>4 DEF Min

-----------------------------------------------------------------------------
(* The table's operators *)

\* The values the operators assign are of the fields' types.
LEMMA Values ==
    /\ {"INITIALIZE", "IDENTITY"} \subseteq Paes
    /\ {"UNKNOW", "WPS", "WPS_ENR", "SES", "NAS", "NAS_PSK"} \subseteq StaModes
    /\ NoIf \in Addrs /\ Stas \subseteq Addrs /\ NoIf \in IfNames /\ Ifs \subseteq IfNames
    /\ 0 \in Nat /\ NULL \notin Places /\ Places \subseteq Nat /\ Blank \in Entry /\ ~Blank.used
<1>1. /\ {"INITIALIZE", "IDENTITY"} \subseteq Paes
      /\ {"UNKNOW", "WPS", "WPS_ENR", "SES", "NAS", "NAS_PSK"} \subseteq StaModes
      /\ NoIf \in Addrs /\ Stas \subseteq Addrs /\ NoIf \in IfNames /\ Ifs \subseteq IfNames
  BY DEF Paes, StaModes, Addrs, IfNames
<1>2. NULL \notin Places /\ Places \subseteq Nat
  BY DEF NULL, Places
<1>3. Blank \in Entry /\ ~Blank.used
  BY <1>1 DEF Blank, Entry
<1> QED
  BY <1>1, <1>2, <1>3

\* The fields of a table.
LEMMA TableFields ==
    ASSUME NEW t, TabOK(t)
    PROVE  /\ t \in Table /\ t.sta \in [Places -> Entry] /\ t.hashed \in [Chains -> SUBSET Places]
           /\ \A a \in Stas : Hash[a] \in Chains
           /\ \A k \in Places : t.sta[k] \in Entry /\ t.sta[k].last \in Nat
  BY DEF TabOK, Table, Chains, Entry

\* A search finds the entry of the station, if it has one.
LEMMA FoundIs ==
    ASSUME NEW t, TabOK(t), NEW ea \in Stas
    PROVE  /\ found(t, ea) = {k \in Places : t.sta[k].used /\ t.sta[k].ea = ea}
           /\ found(t, ea) # {} => Min(found(t, ea)) \in found(t, ea)
<1>1. found(t, ea) = {k \in Places : t.sta[k].used /\ t.sta[k].ea = ea}
  BY TableFields DEF found, TabOK, Linked, Chained
<1>2. found(t, ea) \subseteq Nat
  BY <1>1, Values
<1> QED
  BY <1>1, <1>2, MinIn

\* Table t with entry k replaced.
Put(t, k, e) == [t EXCEPT !.sta[k] = e]

\* An entry stays where it is, for the same station.
LEMMA EditedTable ==
    ASSUME NEW t, TabOK(t), NEW k \in Places, NEW e \in Entry, e.used = t.sta[k].used,
           e.ea = t.sta[k].ea, e.last <= clock
    PROVE  LET u == Put(t, k, e) IN
           /\ TabOK(u) /\ u.sta[k] = e /\ \A j \in Places \ {k} : u.sta[j] = t.sta[j]
<1> DEFINE u == Put(t, k, e)
<1>1. u \in Table /\ u.sta = [t.sta EXCEPT ![k] = e] /\ u.hashed = t.hashed
  BY TableFields DEF Table, Put
<1> HIDE DEF u
<1>2. u.sta[k] = e /\ \A j \in Places \ {k} : u.sta[j] = t.sta[j]
  BY <1>1, TableFields
<1>3. \A j \in Places : u.sta[j].used = t.sta[j].used /\ u.sta[j].ea = t.sta[j].ea
  BY <1>2
<1>4. Linked(u)
  BY <1>1, <1>2, <1>3 DEF TabOK, Linked
<1>5. Chained(u)
  BY <1>1, <1>3, TableFields DEF TabOK, Chained
<1>6. OneEach(u)
  BY <1>3 DEF TabOK, OneEach
<1> QED
  BY <1>1, <1>2, <1>4, <1>5, <1>6 DEF TabOK, u

\* sta_remove takes the entry out of the table and out of its chain.
LEMMA RemovedTable ==
    ASSUME NEW t, TabOK(t), NEW k \in Places, t.sta[k].used
    PROVE  LET u == sta_remove(t, k) IN
           /\ TabOK(u) /\ ~u.sta[k].used /\ \A j \in Places \ {k} : u.sta[j] = t.sta[j]
<1> DEFINE u == sta_remove(t, k)
           h == Hash[t.sta[k].ea]
<1>1. h \in Chains
  BY TableFields DEF TabOK, Linked
<1>2. /\ u.sta = [t.sta EXCEPT ![k] = Blank] /\ u.hashed = [t.hashed EXCEPT ![h] = t.hashed[h] \ {k}]
      /\ u = [sta |-> u.sta, hashed |-> u.hashed]
  BY DEF sta_remove
<1> HIDE DEF u
<1>3. u.sta \in [Places -> Entry] /\ u.hashed \in [Chains -> SUBSET Places]
  BY <1>1, <1>2, TableFields, Values
<1>4. u \in Table
  BY <1>2, <1>3 DEF Table
<1>5. u.sta[k] = Blank /\ \A j \in Places \ {k} : u.sta[j] = t.sta[j]
  BY <1>2, TableFields
<1>6. \A c \in Chains : u.hashed[c] \subseteq t.hashed[c] \ {k} /\ t.hashed[c] \ {k} \subseteq u.hashed[c]
  <2>1. \A c \in Chains : c # h => k \notin t.hashed[c]
    BY DEF TabOK, Chained
  <2> QED
    BY <1>1, <1>2, <2>1, TableFields
<1>7. Linked(u)
  BY <1>5, <1>6, TableFields, Values DEF TabOK, Linked
<1>8. Chained(u)
  BY <1>3, <1>5, <1>6, TableFields DEF TabOK, Chained
<1>9. OneEach(u)
  BY <1>5, Values DEF TabOK, OneEach
<1> QED
  BY <1>4, <1>5, <1>7, <1>8, <1>9, Values DEF TabOK, u

\* The entry of a new station, and a table to which it is added.
NewEntry(ea, i) == [Blank EXCEPT !.used = TRUE, !.ea = ea, !.ifname = i, !.last = clock]
Added(t, k, ea, i) == [sta    |-> [t.sta EXCEPT ![k] = NewEntry(ea, i)],
                       hashed |-> [t.hashed EXCEPT ![Hash[ea]] = @ \cup {k}]]

\* A free place is given to a station that has none.
LEMMA AddedTable ==
    ASSUME NEW t, TabOK(t), clock \in Nat, NEW k \in Places, ~t.sta[k].used, NEW ea \in Stas,
           found(t, ea) = {}, NEW i \in Ifs
    PROVE  LET e == NewEntry(ea, i)
               u == Added(t, k, ea, i) IN
           /\ TabOK(u) /\ u.sta[k] = e /\ e.used /\ e.ea = ea /\ e.last = clock
           /\ e.pae = "INITIALIZE" /\ \A j \in Places \ {k} : u.sta[j] = t.sta[j]
<1> DEFINE e == NewEntry(ea, i)
           h == Hash[ea]
           u == Added(t, k, ea, i)
<1>1. e \in Entry /\ e.used /\ e.ea = ea /\ e.last = clock /\ e.pae = "INITIALIZE"
  BY Values DEF NewEntry, Blank, Entry
<1> HIDE DEF e
<1>2. /\ u.sta = [t.sta EXCEPT ![k] = e] /\ u.hashed = [t.hashed EXCEPT ![h] = t.hashed[h] \cup {k}]
      /\ u = [sta |-> u.sta, hashed |-> u.hashed] /\ h \in Chains
  BY TableFields DEF Added, e
<1> HIDE DEF u
<1>3. u.sta \in [Places -> Entry] /\ u.hashed \in [Chains -> SUBSET Places]
  BY <1>1, <1>2, TableFields
<1>4. u \in Table
  BY <1>2, <1>3 DEF Table
<1>5. u.sta[k] = e /\ \A j \in Places \ {k} : u.sta[j] = t.sta[j]
  BY <1>2, TableFields
<1>6. \A c \in Chains : u.hashed[c] = IF c = h THEN t.hashed[c] \cup {k} ELSE t.hashed[c]
  BY <1>2, TableFields
<1>7. Linked(u)
  BY <1>1, <1>2, <1>5, <1>6, TableFields DEF TabOK, Linked
<1>8. Chained(u)
  <2> SUFFICES ASSUME NEW c \in Chains, NEW j \in u.hashed[c]
               PROVE  u.sta[j].used /\ Hash[u.sta[j].ea] = c
    BY DEF Chained
  <2>1. CASE j \in t.hashed[c]
    <3>1. t.sta[j].used /\ Hash[t.sta[j].ea] = c
      BY <2>1 DEF TabOK, Chained
    <3>2. j \in Places \ {k}
      BY <1>3, <3>1
    <3> QED
      BY <1>5, <3>1, <3>2
  <2>2. CASE j \notin t.hashed[c]
    <3>1. c = h /\ j = k
      BY <1>6, <2>2
    <3> QED
      BY <1>1, <1>5, <3>1
  <2> QED
    BY <2>1, <2>2
<1>9. OneEach(u)
  <2>1. \A j \in Places : ~(t.sta[j].used /\ t.sta[j].ea = ea)
    BY FoundIs
  <2> QED
    BY <1>1, <1>5, <2>1 DEF TabOK, OneEach
<1> QED
  BY <1>1, <1>4, <1>5, <1>7, <1>8, <1>9 DEF TabOK, u, e

\* The place for a new entry is free, or the table is full and the place is one
\* of the least recently used, not used in this second.
LEMMA PlaceIs ==
    ASSUME NEW t, TabOK(t), clock \in Nat, place(t) # NULL
    PROVE  /\ place(t) \in Places
           /\ t.sta[place(t)].used =>
                 /\ \A j \in Places : t.sta[j].used /\ t.sta[place(t)].last <= t.sta[j].last
                 /\ t.sta[place(t)].last < clock
<1> DEFINE free == {k \in 1..MaxSta : ~t.sta[k].used}
           old  == {k \in 1..MaxSta : t.sta[k].last < clock}
           lru  == {k \in old : \A j \in old : t.sta[k].last <= t.sta[j].last}
<1>1. free \subseteq Places /\ lru \subseteq Places /\ free \subseteq Nat /\ lru \subseteq Nat
  BY Values DEF Places
<1>2. CASE free # {}
  <2>1. place(t) = Min(free)
    BY <1>2 DEF place
  <2>2. Min(free) \in free
    BY <1>1, <1>2, MinIn
  <2> QED
    BY <1>1, <2>1, <2>2
<1>3. CASE free = {}
  <2>1. place(t) = Min(lru) /\ lru # {}
    BY <1>3 DEF place
  <2>2. Min(lru) \in lru
    BY <1>1, <2>1, MinIn
  <2>3. \A j \in Places : t.sta[j].used /\ t.sta[j].last \in Nat
    BY <1>3, TableFields DEF Places
  <2>4. \A j \in Places : t.sta[Min(lru)].last <= t.sta[j].last
    <3> DEFINE m == Min(lru)
    <3>1. m \in Places /\ t.sta[m].last < clock /\ \A j \in old : t.sta[m].last <= t.sta[j].last
      BY <1>1, <2>2
    <3> HIDE DEF m
    <3>2. ASSUME NEW j \in Places, t.sta[j].last >= clock PROVE t.sta[m].last <= t.sta[j].last
      BY <2>3, <3>1, <3>2
    <3>3. ASSUME NEW j \in Places, ~(t.sta[j].last >= clock) PROVE j \in old
      BY <2>3, <3>3 DEF Places
    <3> QED
      BY <3>1, <3>2, <3>3 DEF m
  <2> QED
    BY <1>1, <2>1, <2>2, <2>3, <2>4
<1> QED
  BY <1>2, <1>3

\* Entry k of table t makes room for a new station: it is free, or all are in use
\* and it is a least recently used one, from an earlier second.
MakesRoom(t, k) ==
    t.sta[k].used => /\ \A j \in Places : t.sta[j].used /\ t.sta[k].last <= t.sta[j].last
                     /\ t.sta[k].last < clock

\* The result r of looking up station ea, heard on interface i, in table t: the
\* station's entry, stamped, either found or new.
Heard(t, r, ea, i) ==
    /\ TabOK(r.t) /\ r.k \in Places
    /\ r.t.sta[r.k].used /\ r.t.sta[r.k].ea = ea /\ r.t.sta[r.k].last = clock
    /\ \A j \in Places \ {r.k} : r.t.sta[j] = t.sta[j]
    /\ \/ /\ t.sta[r.k].used /\ t.sta[r.k].ea = ea
          /\ WpsSession(r.t.sta[r.k]) => /\ WpsSession(t.sta[r.k]) /\ ~moved(t.sta[r.k], i)
                                         /\ r.t.sta[r.k].ifname = t.sta[r.k].ifname
       \/ found(t, ea) = {} /\ MakesRoom(t, r.k) /\ r.t.sta[r.k].pae = "INITIALIZE"

\* A new entry.
LEMMA EnterIs ==
    ASSUME NEW t, TabOK(t), clock \in Nat, NEW ea \in Stas, NEW i \in Ifs, found(t, ea) = {}
    PROVE  LET r == enter(t, ea, i) IN
           IF r.k = NULL THEN r.t = t ELSE Heard(t, r, ea, i)
<1> DEFINE r == enter(t, ea, i)
           k == place(t)
           v == IF k # NULL /\ t.sta[k].used THEN sta_remove(t, k) ELSE t
           e == NewEntry(ea, i)
           u == Added(v, k, ea, i)
<1>1. CASE k = NULL
  <2>1. r.k = NULL /\ r.t = t
    BY <1>1 DEF enter
  <2> QED
    BY <2>1
<1>2. CASE k # NULL
  <2>1. k \in Places /\ MakesRoom(t, k)
    BY <1>2, PlaceIs DEF MakesRoom
  <2>2. TabOK(v) /\ ~v.sta[k].used /\ \A j \in Places \ {k} : v.sta[j] = t.sta[j]
    BY <1>2, <2>1, RemovedTable
  <2>3. found(v, ea) = {}
    <3>1. \A j \in Places : ~(t.sta[j].used /\ t.sta[j].ea = ea)
      BY FoundIs
    <3> HIDE DEF v
    <3>2. \A j \in Places : ~(v.sta[j].used /\ v.sta[j].ea = ea)
      BY <2>2, <3>1
    <3> QED
      BY <2>2, <3>2, FoundIs
  <2>4. r = [t |-> u, k |-> k]
    BY <1>2 DEF enter, Added, NewEntry
  <2>5. r.t = u /\ r.k = k
    BY <2>4
  <2> HIDE DEF v, k, r
  <2>6. /\ TabOK(u) /\ u.sta[k] = e /\ e.used /\ e.ea = ea /\ e.last = clock
        /\ e.pae = "INITIALIZE" /\ \A j \in Places \ {k} : u.sta[j] = v.sta[j]
    BY <2>1, <2>2, <2>3, AddedTable
  <2> HIDE DEF u, e
  <2> QED
    BY <1>2, <2>1, <2>2, <2>5, <2>6, Values DEF Heard, r
<1> QED
  BY <1>1, <1>2

\* sta_lookup.
LEMMA LookupIs ==
    ASSUME NEW t, TabOK(t), clock \in Nat, NEW ea \in Stas, NEW i \in Ifs
    PROVE  LET r == sta_lookup(t, ea, i) IN
           IF r.k = NULL THEN r.t = t ELSE Heard(t, r, ea, i)
<1> DEFINE r == sta_lookup(t, ea, i)
           k == Min(found(t, ea))
           s == t.sta[k]
           e == IF moved(s, i)
                THEN [s EXCEPT !.ifname = i, !.pae = "INITIALIZE", !.mode = "UNKNOW", !.last = clock]
                ELSE [s EXCEPT !.last = clock]
           u == Put(t, k, e)
<1>1. CASE found(t, ea) = {}
  <2>1. r = enter(t, ea, i)
    BY <1>1 DEF sta_lookup
  <2> QED
    BY <1>1, <2>1, EnterIs
<1>2. CASE found(t, ea) # {}
  <2>1. k \in Places /\ s.used /\ s.ea = ea
    BY <1>2, FoundIs
  <2>2. r = [t |-> u, k |-> k]
    BY <1>2 DEF sta_lookup, Put
  <2>3. r.t = u /\ r.k = k
    BY <2>2
  <2> HIDE DEF k, r
  <2>4. s \in Entry
    BY <2>1, TableFields
  <2> HIDE DEF s
  <2>5. /\ e \in Entry /\ e.used /\ e.ea = ea /\ e.last = clock
        /\ e.pae = "IDENTITY" => ~moved(s, i) /\ e.pae = s.pae /\ e.mode = s.mode /\ e.ifname = s.ifname
    <3>1. CASE moved(s, i)
      BY <2>1, <2>4, <3>1, Values DEF Entry
    <3>2. CASE ~moved(s, i)
      BY <2>1, <2>4, <3>2 DEF Entry
    <3> QED
      BY <3>1, <3>2
  <2> HIDE DEF e
  <2>6. clock <= clock /\ e.used = t.sta[k].used /\ e.ea = t.sta[k].ea /\ e.last <= clock
    BY <2>1, <2>5 DEF s
  <2>7. TabOK(u) /\ u.sta[k] = e /\ \A j \in Places \ {k} : u.sta[j] = t.sta[j]
    BY <2>1, <2>5, <2>6, EditedTable
  <2> HIDE DEF u
  <2>8. WpsSession(e) => WpsSession(s) /\ ~moved(s, i) /\ e.ifname = s.ifname
    BY <2>5 DEF WpsSession
  <2>9. r.k # NULL
    BY <2>1, <2>3, Values
  <2> QED
    BY <2>1, <2>3, <2>5, <2>7, <2>8, <2>9 DEF Heard, s, r
<1> QED
  BY <1>1, <1>2

\* sta_lookup that does not enter: the table is the same but for the stamp.
LEMMA SearchIs ==
    ASSUME NEW t, TabOK(t), clock \in Nat, NEW ea \in Stas
    PROVE  LET r == search(t, ea) IN
           IF r.k = NULL THEN r.t = t /\ found(t, ea) = {}
           ELSE /\ TabOK(r.t) /\ r.k \in Places /\ r.k = Min(found(t, ea))
                /\ t.sta[r.k].used /\ t.sta[r.k].ea = ea
                /\ r.t.sta[r.k] = [t.sta[r.k] EXCEPT !.last = clock]
                /\ \A j \in Places \ {r.k} : r.t.sta[j] = t.sta[j]
<1> DEFINE r == search(t, ea)
           k == Min(found(t, ea))
           s == t.sta[k]
           e == [s EXCEPT !.last = clock]
           u == Put(t, k, e)
<1>1. CASE found(t, ea) = {}
  <2>1. r.k = NULL /\ r.t = t
    BY <1>1 DEF search
  <2> QED
    BY <1>1, <2>1
<1>2. CASE found(t, ea) # {}
  <2>1. k \in Places /\ s.used /\ s.ea = ea
    BY <1>2, FoundIs
  <2>2. r = [t |-> u, k |-> k]
    BY <1>2 DEF search, Put
  <2>3. r.t = u /\ r.k = k
    BY <2>2
  <2> HIDE DEF k, r
  <2>4. s \in Entry
    BY <2>1, TableFields
  <2> HIDE DEF s
  <2>5. e \in Entry /\ e.used /\ e.ea = ea /\ e.last = clock
    BY <2>1, <2>4 DEF Entry
  <2> HIDE DEF e
  <2>6. e.used = t.sta[k].used /\ e.ea = t.sta[k].ea /\ e.last <= clock
    BY <2>1, <2>5 DEF s
  <2>7. TabOK(u) /\ u.sta[k] = e /\ \A j \in Places \ {k} : u.sta[j] = t.sta[j]
    BY <2>1, <2>5, <2>6, EditedTable
  <2> HIDE DEF u
  <2>8. r.k # NULL
    BY <2>1, <2>3, Values
  <2> QED
    BY <2>1, <2>3, <2>7, <2>8 DEF s, e, r, k
<1> QED
  BY <1>1, <1>2

-----------------------------------------------------------------------------
(* The table as a cache *)

UsedOf(t) == {k \in Places : t.sta[k].used}
NamesOf(t) == {t.sta[k].ea : k \in UsedOf(t)}
CacheOf(t) == [a \in NamesOf(t) |-> t.sta[CHOOSE k \in UsedOf(t) : t.sta[k].ea = a].last]

\* A cached station has the stamp of its one entry.
LEMMA CacheFields ==
    ASSUME NEW t, TabOK(t)
    PROVE  /\ DOMAIN CacheOf(t) = NamesOf(t) /\ NamesOf(t) \subseteq Stas
           /\ \A k \in UsedOf(t) : t.sta[k].ea \in NamesOf(t) /\ CacheOf(t)[t.sta[k].ea] = t.sta[k].last
<1>1. DOMAIN CacheOf(t) = NamesOf(t) /\ NamesOf(t) \subseteq Stas
  BY DEF CacheOf, NamesOf, UsedOf, TabOK, Linked
<1>2. ASSUME NEW k \in UsedOf(t)
      PROVE  t.sta[k].ea \in NamesOf(t) /\ CacheOf(t)[t.sta[k].ea] = t.sta[k].last
  <2>1. t.sta[k].ea \in NamesOf(t)
    BY DEF NamesOf
  <2>2. \A j \in UsedOf(t) : t.sta[j].ea = t.sta[k].ea => j = k
    BY DEF UsedOf, TabOK, OneEach
  <2>3. (CHOOSE j \in UsedOf(t) : t.sta[j].ea = t.sta[k].ea) = k
    BY <2>2
  <2> QED
    BY <2>1, <2>3 DEF CacheOf
<1> QED
  BY <1>1, <1>2

\* To know a table's cache it is enough to know its entries.
LEMMA CacheIs ==
    ASSUME NEW t, TabOK(t), NEW f, f = [x \in NamesOf(t) |-> f[x]],
           \A k \in UsedOf(t) : f[t.sta[k].ea] = t.sta[k].last
    PROVE  CacheOf(t) = f
<1>1. ASSUME NEW x \in NamesOf(t) PROVE CacheOf(t)[x] = f[x]
  <2>1. PICK k \in UsedOf(t) : x = t.sta[k].ea
    BY DEF NamesOf
  <2> QED
    BY <2>1, CacheFields
<1>2. CacheOf(t) = [x \in NamesOf(t) |-> CacheOf(t)[x]]
  BY DEF CacheOf
<1> QED
  BY <1>1, <1>2

\* The cache of table t, without the stations S, after station a is stamped.
StampedOf(t, S, a) == [x \in (NamesOf(t) \ S) \cup {a} |-> IF x = a THEN clock ELSE CacheOf(t)[x]]

\* The stations of the entries R.
StasOf(t, R) == {t.sta[k].ea : k \in R}

\* The entries but j and those in R, which go, are the same in t and in u.
OthersKept(t, u, j, R) ==
    \A k \in Places \ {j} :
        /\ u.sta[k].used <=> t.sta[k].used /\ k \notin R
        /\ u.sta[k].used => u.sta[k].ea = t.sta[k].ea /\ u.sta[k].last = t.sta[k].last

\* The entries in R go, and station ea has entry j, just stamped.
LEMMA CacheStamped ==
    ASSUME NEW t, TabOK(t), NEW u, TabOK(u), NEW ea \in Stas, NEW j \in Places, NEW R \in SUBSET UsedOf(t),
           u.sta[j].used, u.sta[j].ea = ea, u.sta[j].last = clock, t.sta[j].used => j \in R,
           OthersKept(t, u, j, R)
    PROVE  CacheOf(u) = StampedOf(t, StasOf(t, R), ea)
<1> DEFINE D == (NamesOf(t) \ {t.sta[k].ea : k \in R}) \cup {ea}
           f == [x \in D |-> IF x = ea THEN clock ELSE CacheOf(t)[x]]
<1>1. \A k \in UsedOf(u) : k = j \/ (k \in UsedOf(t) \ R /\ u.sta[k].ea = t.sta[k].ea
                                     /\ u.sta[k].last = t.sta[k].last)
  BY DEF UsedOf, OthersKept
<1>2. \A k \in UsedOf(u) : k # j => u.sta[k].ea # ea
  BY DEF UsedOf, TabOK, OneEach
<1>3. j \in UsedOf(u) /\ \A k \in UsedOf(t) \ R : k \in UsedOf(u) /\ k # j /\ u.sta[k].ea = t.sta[k].ea
  BY DEF UsedOf, OthersKept
<1>4. NamesOf(u) = D
  <2>1. \A k \in UsedOf(t) \ R : t.sta[k].ea \notin {t.sta[m].ea : m \in R}
    BY DEF TabOK, OneEach, UsedOf
  <2>2. NamesOf(u) \subseteq D
    BY <1>1, <2>1 DEF NamesOf
  <2>3. D \subseteq NamesOf(u)
    BY <1>3 DEF NamesOf
  <2> QED
    BY <2>2, <2>3
<1>5. \A k \in UsedOf(u) : f[u.sta[k].ea] = u.sta[k].last
  <2> SUFFICES ASSUME NEW k \in UsedOf(u) PROVE f[u.sta[k].ea] = u.sta[k].last
    OBVIOUS
  <2>1. u.sta[k].ea \in D
    BY <1>4 DEF NamesOf
  <2>2. CASE k = j
    BY <2>1, <2>2
  <2>3. CASE k # j
    <3>1. k \in UsedOf(t) /\ u.sta[k].ea = t.sta[k].ea /\ u.sta[k].last = t.sta[k].last /\ u.sta[k].ea # ea
      BY <1>1, <1>2, <2>3
    <3>2. CacheOf(t)[t.sta[k].ea] = t.sta[k].last
      BY <3>1, CacheFields
    <3> HIDE DEF D
    <3> QED
      BY <2>1, <3>1, <3>2
  <2> QED
    BY <2>2, <2>3
<1>6. f = [x \in D |-> f[x]]
  OBVIOUS
<1> HIDE DEF D, f
<1>7. f = [x \in NamesOf(u) |-> f[x]]
  BY <1>4, <1>6
<1>8. CacheOf(u) = f
  BY <1>5, <1>7, CacheIs
<1> QED
  BY <1>8 DEF D, f, StampedOf, StasOf

\* The cache of table t without station a.
RemovedOf(t, a) == [x \in NamesOf(t) \ {a} |-> CacheOf(t)[x]]

\* Entry k goes.
LEMMA CacheRemoved ==
    ASSUME NEW t, TabOK(t), NEW u, TabOK(u), NEW k \in UsedOf(t), ~u.sta[k].used,
           OthersKept(t, u, k, {})
    PROVE  CacheOf(u) = RemovedOf(t, t.sta[k].ea)
<1> DEFINE D == NamesOf(t) \ {t.sta[k].ea}
           f == [x \in D |-> CacheOf(t)[x]]
<1>1. \A m \in UsedOf(u) : /\ m \in UsedOf(t) \ {k} /\ u.sta[m].ea = t.sta[m].ea
                           /\ u.sta[m].last = t.sta[m].last
  BY DEF UsedOf, OthersKept
<1>2. \A m \in UsedOf(t) \ {k} : m \in UsedOf(u) /\ u.sta[m].ea = t.sta[m].ea
  BY DEF UsedOf, OthersKept
<1>3. NamesOf(u) = D
  <2>1. \A m \in UsedOf(t) \ {k} : t.sta[m].ea # t.sta[k].ea
    BY DEF TabOK, OneEach, UsedOf
  <2>2. NamesOf(u) \subseteq D
    BY <1>1, <2>1 DEF NamesOf
  <2>3. D \subseteq NamesOf(u)
    BY <1>2 DEF NamesOf
  <2> QED
    BY <2>2, <2>3
<1>4. ASSUME NEW m \in UsedOf(u) PROVE f[u.sta[m].ea] = u.sta[m].last
  <2>1. u.sta[m].ea \in D
    BY <1>3 DEF NamesOf
  <2>2. CacheOf(t)[t.sta[m].ea] = t.sta[m].last
    BY <1>1, CacheFields
  <2> HIDE DEF D
  <2> QED
    BY <1>1, <2>1, <2>2
<1>5. f = [x \in D |-> f[x]]
  OBVIOUS
<1> HIDE DEF D, f
<1>6. f = [x \in NamesOf(u) |-> f[x]]
  BY <1>3, <1>5
<1>7. CacheOf(u) = f
  BY <1>4, <1>6, CacheIs
<1> QED
  BY <1>7 DEF D, f, RemovedOf

\* The number of cached stations is the number of entries in use.
LEMMA CacheSize ==
    ASSUME NEW t, TabOK(t)
    PROVE  /\ Cardinality(NamesOf(t)) = Cardinality(UsedOf(t))
           /\ UsedOf(t) = Places => Cardinality(UsedOf(t)) = MaxSta
           /\ UsedOf(t) # Places => Cardinality(UsedOf(t)) < MaxSta
<1>1. IsFiniteSet(Places) /\ Cardinality(Places) = MaxSta
  BY EapdStaAssumption, FS_Interval DEF Places
<1>2. UsedOf(t) \in SUBSET Places
  BY DEF UsedOf
<1>3. /\ IsFiniteSet(UsedOf(t)) /\ Cardinality(UsedOf(t)) <= MaxSta
      /\ Cardinality(UsedOf(t)) = MaxSta => UsedOf(t) = Places
  BY <1>1, <1>2, FS_Subset
<1>4. Cardinality(UsedOf(t)) \in Nat
  BY <1>3, FS_CardinalityType
<1>5. ExistsBijection(UsedOf(t), NamesOf(t))
  <2> DEFINE f == [k \in UsedOf(t) |-> t.sta[k].ea]
  <2>1. f \in Injection(UsedOf(t), NamesOf(t))
    BY DEF Injection, IsInjective, NamesOf, UsedOf, TabOK, OneEach
  <2>2. f \in Surjection(UsedOf(t), NamesOf(t))
    BY DEF Surjection, NamesOf
  <2> QED
    BY <2>1, <2>2 DEF ExistsBijection, Bijection
<1>6. Cardinality(NamesOf(t)) = Cardinality(UsedOf(t))
  BY <1>3, <1>5, FS_Bijection
<1> QED
  BY <1>1, <1>3, <1>4, <1>6, EapdStaAssumption

\* StaCache's terms, in terms of the table.
LEMMA CachedIs ==
    ASSUME NEW S, NEW a
    PROVE  /\ Cache!Cached = NamesOf(tab)
           /\ Cache!Stamped(S, a) = StampedOf(tab, S, a)
<1>1. Cache!Cached = NamesOf(tab)
  BY DEF Cache!Cached, NamesOf, UsedOf, Places, used
<1>2. Cache!Stamped(S, a) = StampedOf(tab, S, a)
  BY <1>1 DEF Cache!Stamped, StampedOf, CacheOf, NamesOf, UsedOf, Places, used
<1> QED
  BY <1>1, <1>2

\* StaCache counts as this module does.
LEMMA CardinalityIs ==
    ASSUME NEW S PROVE Cache!Cardinality(S) = Cardinality(S)
  BY DEF Cache!Cardinality, Cardinality, Cache!IsFiniteSet, IsFiniteSet

\* A cached station is used.
LEMMA TouchStep ==
    ASSUME NEW a \in NamesOf(tab), clock' = clock, CacheOf(tab') = Cache!Stamped({}, a)
    PROVE  Cache!Touch(a)
<1>1. a \in Cache!Cached
  BY CachedIs
<1> QED
  BY <1>1 DEF Cache!Touch, CacheOf, NamesOf, UsedOf, Places, used

\* A new station takes a free place.
LEMMA InsertStep ==
    ASSUME NEW a, a \notin NamesOf(tab), clock' = clock, Cardinality(NamesOf(tab)) < MaxSta,
           CacheOf(tab') = Cache!Stamped({}, a)
    PROVE  Cache!Insert(a)
<1>1. a \notin Cache!Cached /\ Cache!Cardinality(Cache!Cached) < MaxSta
  BY CachedIs, CardinalityIs
<1> QED
  BY <1>1 DEF Cache!Insert, CacheOf, NamesOf, UsedOf, Places, used

\* A new station takes the place of another.
LEMMA ReplaceStep ==
    ASSUME NEW a, a \notin NamesOf(tab), clock' = clock, Cardinality(NamesOf(tab)) = MaxSta,
           NEW v \in NamesOf(tab), CacheOf(tab)[v] < clock,
           \A x \in NamesOf(tab) : CacheOf(tab)[v] <= CacheOf(tab)[x],
           CacheOf(tab') = Cache!Stamped({v}, a)
    PROVE  Cache!Replace(a, v)
<1>1. a \notin Cache!Cached /\ v \in Cache!Cached /\ Cache!Cardinality(Cache!Cached) = MaxSta
  BY CachedIs, CardinalityIs
<1>2. \A x \in Cache!Cached : CacheOf(tab)[v] <= CacheOf(tab)[x]
  BY CachedIs
<1> QED
  BY <1>1, <1>2 DEF Cache!Replace, CacheOf, NamesOf, UsedOf, Places, used

\* A cached station is forgotten.
LEMMA RemoveStep ==
    ASSUME NEW a \in NamesOf(tab), clock' = clock,
           CacheOf(tab') = RemovedOf(tab, a)
    PROVE  Cache!Remove(a)
  BY DEF RemovedOf, Cache!Remove, Cache!Cached, CacheOf, NamesOf, UsedOf, Places, used

\* Tables u and t have the same entries in use, with the same stamps.
Same(t, u) ==
    \A k \in Places : /\ u.sta[k].used = t.sta[k].used /\ u.sta[k].ea = t.sta[k].ea
                      /\ u.sta[k].last = t.sta[k].last

\* A table without an entry for a station does not cache it.
LEMMA NotCached ==
    ASSUME NEW t, TabOK(t), NEW ea \in Stas, found(t, ea) = {}
    PROVE  ea \notin NamesOf(t)
  BY FoundIs DEF NamesOf, UsedOf

\* The result r of looking up station ea in table t, as the cache sees it.
Given(t, r, ea) ==
    /\ r.k \in Places
    /\ r.t.sta[r.k].used /\ r.t.sta[r.k].ea = ea /\ r.t.sta[r.k].last = clock
    /\ \A j \in Places \ {r.k} : r.t.sta[j] = t.sta[j]
    /\ \/ t.sta[r.k].used /\ t.sta[r.k].ea = ea
       \/ found(t, ea) = {} /\ MakesRoom(t, r.k)

\* A station that had an entry has one that is just stamped.
LEMMA TouchedStep ==
    ASSUME EapdInv, NEW a \in NamesOf(tab), clock' = clock, CacheOf(tab') = StampedOf(tab, {a}, a)
    PROVE  Cache!Touch(a)
<1>1. (NamesOf(tab) \ {a}) \cup {a} = (NamesOf(tab) \ {}) \cup {a}
  OBVIOUS
<1>2. CacheOf(tab') = StampedOf(tab, {}, a)
  BY <1>1 DEF StampedOf
<1> QED
  BY <1>2, CachedIs, TouchStep

\* A lookup that finds or enters a station, whatever becomes of the entry's other
\* fields, is a step of the cache.
LEMMA GivenStep ==
    ASSUME EapdInv, NEW ea \in Stas, NEW r, Given(tab, r, ea),
           TabOK(tab'), Same(r.t, tab'), clock' = clock
    PROVE  Cache!Touch(ea) \/ Cache!Insert(ea) \/ \E v \in Stas : Cache!Replace(ea, v)
<1> DEFINE j == r.k
<1>0. PICK R : R = IF tab.sta[j].used THEN {j} ELSE {}
  OBVIOUS
<1>1. /\ j \in Places /\ tab'.sta[j].used /\ tab'.sta[j].ea = ea /\ tab'.sta[j].last = clock
      /\ R \in SUBSET UsedOf(tab) /\ (tab.sta[j].used => j \in R)
  BY <1>0 DEF Given, Same, UsedOf
<1>2. OthersKept(tab, tab', j, R)
  BY <1>0 DEF Given, Same, OthersKept
<1>3. TabOK(tab) /\ clock \in Nat
  BY DEF EapdInv
<1>g. PICK G : G = StasOf(tab, R)
  OBVIOUS
<1>4. CacheOf(tab') = StampedOf(tab, G, ea)
  <2> HIDE DEF j
  <2> QED
    BY <1>1, <1>2, <1>3, <1>g, CacheStamped
<1>5. CASE tab.sta[j].used /\ tab.sta[j].ea = ea
  <2>1. ea \in NamesOf(tab) /\ G = {ea}
    BY <1>0, <1>1, <1>5, <1>g DEF NamesOf, UsedOf, StasOf
  <2> QED
    BY <1>4, <2>1, TouchedStep
<1>6. CASE found(tab, ea) = {} /\ MakesRoom(tab, j)
  <2>1. ea \notin NamesOf(tab)
    BY <1>3, <1>6, NotCached
  <2>2. CASE ~tab.sta[j].used
    <3>1. G = {}
      BY <1>0, <1>g, <2>2 DEF StasOf
    <3>2. UsedOf(tab) # Places
      BY <1>1, <2>2 DEF UsedOf
    <3>3. Cardinality(NamesOf(tab)) < MaxSta
      BY <1>3, <3>2, CacheSize
    <3>4. CacheOf(tab') = Cache!Stamped({}, ea)
      BY <1>4, <3>1, CachedIs
    <3> QED
      BY <2>1, <3>3, <3>4, InsertStep
  <2>3. CASE tab.sta[j].used
    <3>0. PICK v : v = tab.sta[j].ea
      OBVIOUS
    <3>1. G = {v} /\ j \in UsedOf(tab)
      BY <1>0, <1>1, <1>g, <2>3, <3>0 DEF UsedOf, StasOf
    <3>2. UsedOf(tab) = Places /\ tab.sta[j].last < clock /\ \A k \in Places : tab.sta[j].last <= tab.sta[k].last
      BY <1>6, <2>3 DEF MakesRoom, UsedOf
    <3>3. Cardinality(NamesOf(tab)) = MaxSta
      BY <1>3, <3>2, CacheSize
    <3>4. v \in NamesOf(tab) /\ v \in Stas /\ CacheOf(tab)[v] = tab.sta[j].last
      BY <1>3, <3>0, <3>1, CacheFields
    <3>5. ASSUME NEW x \in NamesOf(tab) PROVE CacheOf(tab)[v] <= CacheOf(tab)[x]
      <4>1. PICK k \in UsedOf(tab) : x = tab.sta[k].ea
        BY DEF NamesOf
      <4>2. CacheOf(tab)[x] = tab.sta[k].last
        BY <1>3, <4>1, CacheFields
      <4> QED
        BY <3>2, <3>4, <4>2
    <3>6. CacheOf(tab') = Cache!Stamped({v}, ea)
      BY <1>4, <3>1, CachedIs
    <3>7. CacheOf(tab)[v] < clock
      BY <3>2, <3>4
    <3>8. Cache!Replace(ea, v)
      BY <2>1, <3>3, <3>4, <3>5, <3>6, <3>7, ReplaceStep
    <3> QED
      BY <3>4, <3>8
  <2> QED
    BY <2>2, <2>3
<1> QED
  BY <1>5, <1>6 DEF Given

\* A table in which one entry went out of use is a step of the cache.
LEMMA ForgottenStep ==
    ASSUME EapdInv, NEW ea \in Stas, NEW k \in Places, tab.sta[k].used, tab.sta[k].ea = ea,
           TabOK(tab'), ~tab'.sta[k].used, \A m \in Places \ {k} : tab'.sta[m] = tab.sta[m], clock' = clock
    PROVE  Cache!Remove(ea)
<1>1. TabOK(tab) /\ k \in UsedOf(tab)
  BY DEF EapdInv, UsedOf
<1>2. OthersKept(tab, tab', k, {})
  BY DEF OthersKept
<1>3. CacheOf(tab') = RemovedOf(tab, ea)
  BY <1>1, <1>2, CacheRemoved
<1>4. ea \in NamesOf(tab)
  BY <1>1, CacheFields
<1> QED
  BY <1>3, <1>4, RemoveStep

-----------------------------------------------------------------------------
(* The actions *)

\* Table u is table t but for fields of entry k that the cache does not see.
Edited(t, u, k) == TabOK(u) /\ Same(t, u) /\ \A j \in Places \ {k} : u.sta[j] = t.sta[j]

\* The entry of a lookup is edited.
LEMMA EntryEdited ==
    ASSUME NEW t, TabOK(t), clock \in Nat, NEW k \in Places, t.sta[k].used,
           NEW e \in Entry, e.used = t.sta[k].used, e.ea = t.sta[k].ea, e.last = t.sta[k].last,
           NEW u, u = Put(t, k, e)
    PROVE  Edited(t, u, k) /\ u.sta[k] = e
<1>1. e.last <= clock
  BY DEF TabOK, Linked
<1>2. TabOK(u) /\ u.sta[k] = e /\ \A j \in Places \ {k} : u.sta[j] = t.sta[j]
  <2>1. \A x \in Entry : x.used = t.sta[k].used /\ x.ea = t.sta[k].ea /\ x.last <= clock =>
            /\ TabOK(Put(t, k, x)) /\ Put(t, k, x).sta[k] = x
            /\ \A j \in Places \ {k} : Put(t, k, x).sta[j] = t.sta[j]
    BY EditedTable
  <2> QED
    BY <1>1, <2>1, Zenon
<1> QED
  BY <1>2 DEF Edited, Same

\* set_sta writes the mode and the state.
LEMMA SetSta ==
    ASSUME NEW r, TabOK(r.t), clock \in Nat, r.k \in Places, r.t.sta[r.k].used,
           NEW mode \in StaModes, NEW pae \in Paes, NEW u, u = set_sta(r, mode, pae)
    PROVE  /\ Edited(r.t, u, r.k) /\ u.sta[r.k].mode = mode /\ u.sta[r.k].pae = pae
           /\ u.sta[r.k].ifname = r.t.sta[r.k].ifname
<1>1. PICK s : s = r.t.sta[r.k]
  OBVIOUS
<1>2. PICK e : e = [s EXCEPT !.mode = mode, !.pae = pae]
  OBVIOUS
<1>3. s \in Entry
  BY <1>1, TableFields
<1>4. /\ e \in Entry /\ e.used = s.used /\ e.ea = s.ea /\ e.last = s.last
      /\ e.mode = mode /\ e.pae = pae /\ e.ifname = s.ifname
  BY <1>2, <1>3 DEF Entry
<1>5. u = Put(r.t, r.k, e)
  BY <1>1, <1>2 DEF set_sta, Put
<1>6. Edited(r.t, u, r.k) /\ u.sta[r.k] = e
  BY <1>1, <1>4, <1>5, EntryEdited
<1> QED
  BY <1>1, <1>4, <1>6

\* Table t with the interface of entry k replaced.
PutIf(t, k, i) == [t EXCEPT !.sta[k].ifname = i]

\* The interface is written.
LEMMA SetIf ==
    ASSUME NEW t, TabOK(t), clock \in Nat, NEW k \in Places, t.sta[k].used,
           NEW i \in Ifs, NEW u, u = PutIf(t, k, i)
    PROVE  /\ Edited(t, u, k) /\ u.sta[k].ifname = i
           /\ u.sta[k].mode = t.sta[k].mode /\ u.sta[k].pae = t.sta[k].pae
<1>1. PICK s : s = t.sta[k]
  OBVIOUS
<1>2. PICK e : e = [s EXCEPT !.ifname = i]
  OBVIOUS
<1>3. s \in Entry
  BY <1>1, TableFields
<1>4. /\ e \in Entry /\ e.used = s.used /\ e.ea = s.ea /\ e.last = s.last
      /\ e.mode = s.mode /\ e.pae = s.pae /\ e.ifname = i
  BY <1>2, <1>3, Values DEF Entry
<1>5. u = Put(t, k, e)
  BY <1>1, <1>2, Zenon DEF Put, PutIf
<1>6. \A v : v = Put(t, k, e) => Edited(t, v, k) /\ v.sta[k] = e
  BY <1>1, <1>4, EntryEdited
<1>7. Edited(t, u, k) /\ u.sta[k] = e
  BY <1>5, <1>6, Zenon
<1> QED
  BY <1>1, <1>4, <1>7

\* The mode is written.
LEMMA SetMode ==
    ASSUME NEW t, TabOK(t), clock \in Nat, NEW k \in Places, t.sta[k].used,
           NEW mode \in StaModes, NEW u, u = [t EXCEPT !.sta[k].mode = mode]
    PROVE  Edited(t, u, k) /\ u.sta[k].mode = mode
<1>1. PICK s : s = t.sta[k]
  OBVIOUS
<1>2. PICK e : e = [s EXCEPT !.mode = mode]
  OBVIOUS
<1>3. s \in Entry
  BY <1>1, TableFields
<1>4. e \in Entry /\ e.used = s.used /\ e.ea = s.ea /\ e.last = s.last /\ e.mode = mode
  BY <1>2, <1>3 DEF Entry
<1>5. u = Put(t, k, e)
  BY <1>1, <1>2, Zenon DEF Put
<1>6. \A v : v = Put(t, k, e) => Edited(t, v, k) /\ v.sta[k] = e
  BY <1>1, <1>4, EntryEdited
<1>7. Edited(t, u, k) /\ u.sta[k] = e
  BY <1>5, <1>6, Zenon
<1> QED
  BY <1>4, <1>7

\* Edits compose.
LEMMA EditedTwice ==
    ASSUME NEW t, NEW u, NEW v, NEW k, Edited(t, u, k), Edited(u, v, k)
    PROVE  Edited(t, v, k)
  BY DEF Edited, Same

\* A station in a session after the step was in it before, and the session has
\* the interface it had.
LEMMA KeptIs ==
    ASSUME EapdInv, TabOK(tab')
    PROVE  /\ kept \in [Stas -> IfNames]
           /\ \A j \in Places : LET s == tab'.sta[j] IN
                 s.used /\ WpsSession(s) => s.ea \in Stas /\ kept[s.ea] = sess[s.ea]
<1>1. kept \in [Stas -> IfNames]
  BY Values DEF kept, EapdInv
<1>2. ASSUME NEW j \in Places, tab'.sta[j].used, WpsSession(tab'.sta[j])
      PROVE  tab'.sta[j].ea \in Stas /\ kept[tab'.sta[j].ea] = sess[tab'.sta[j].ea]
  <2>1. PICK a : a = tab'.sta[j].ea
    OBVIOUS
  <2>2. a \in Stas
    BY <1>2, <2>1 DEF TabOK, Linked
  <2>3. j \in found(tab', a)
    BY <1>2, <2>1, <2>2, FoundIs
  <2> QED
    BY <1>2, <2>1, <2>2, <2>3 DEF kept
<1> QED
  BY <1>1, <1>2

\* A session of the entry r.k after a step: it is one the lookup r left alone, on
\* the same interface or, without a valid EAPOL-Start, on i.
SessionOf(r, i) ==
    LET s == tab'.sta[r.k]  o == r.t.sta[r.k] IN
    WpsSession(o) /\ (s.ifname = o.ifname \/ (s.ifname = i /\ i \notin EapolIfs))

\* What a frame or event on interface i does to the table and the sessions: the
\* entry of station ea, which the lookup r gave, is edited, or it is removed when
\* the station was known.
Outcome(r, ea, i) ==
    /\ Heard(tab, r, ea, i) /\ TabOK(tab') /\ clock' = clock /\ sess' \in [Stas -> IfNames]
    /\ \A j \in Places \ {r.k} : tab'.sta[j] = r.t.sta[j]
    /\ \/ Same(r.t, tab')
       \/ ~tab'.sta[r.k].used /\ tab.sta[r.k].used /\ tab.sta[r.k].ea = ea
    /\ \A j \in Places : LET s == tab'.sta[j] IN
          s.used /\ WpsSession(s) => \/ sess'[s.ea] = sess[s.ea] /\ (j = r.k => SessionOf(r, i))
                                    \/ sess'[s.ea] = s.ifname

\* The entry is edited, and no session begins.
LEMMA EditOutcome ==
    ASSUME EapdInv, NEW ea, NEW i, NEW r, Heard(tab, r, ea, i), Edited(r.t, tab', r.k),
           clock' = clock, sess' = kept, WpsSession(tab'.sta[r.k]) => SessionOf(r, i)
    PROVE  Outcome(r, ea, i)
<1>1. TabOK(tab')
  BY DEF Edited
<1>2. /\ sess' \in [Stas -> IfNames]
      /\ \A j \in Places : LET s == tab'.sta[j] IN
             s.used /\ WpsSession(s) => sess'[s.ea] = sess[s.ea]
  BY <1>1, KeptIs
<1> QED
  BY <1>1, <1>2 DEF Outcome, Edited

\* What a lookup gives.
LEMMA LookupGives ==
    ASSUME EapdInv, NEW i \in Ifs, NEW ea \in Stas, NEW r, r = Lookup(i, ea), r.k # NULL
    PROVE  /\ Heard(tab, r, ea, i) /\ TabOK(r.t) /\ clock \in Nat /\ r.k \in Places /\ r.t.sta[r.k].used
           /\ r.t.sta[r.k].ea = ea /\ r.t.sta[r.k] \in Entry /\ Edited(r.t, r.t, r.k)
           /\ r.t.sta[r.k].pae \in Paes /\ r.t.sta[r.k].mode \in StaModes
<1>1. TabOK(tab) /\ clock \in Nat
  BY DEF EapdInv
<1>2. Heard(tab, r, ea, i)
  BY <1>1, LookupIs DEF Lookup
<1>3. TabOK(r.t) /\ r.k \in Places /\ r.t.sta[r.k].used /\ r.t.sta[r.k].ea = ea
  BY <1>2 DEF Heard
<1>4. r.t.sta[r.k] \in Entry
  BY <1>3, TableFields
<1> QED
  BY <1>1, <1>2, <1>3, <1>4 DEF Edited, Same, Entry

\* Frames and events that leave the entry as the lookup gave it.
LEMMA PlainOutcome ==
    ASSUME EapdInv, NEW i \in Ifs, NEW ea \in Stas, NEW r, r = Lookup(i, ea), r.k # NULL,
           tab' = r.t, clock' = clock, sess' = kept
    PROVE  Outcome(r, ea, i)
<1>1. Heard(tab, r, ea, i) /\ Edited(r.t, tab', r.k)
  BY LookupGives
<1>2. WpsSession(tab'.sta[r.k]) => SessionOf(r, i)
  BY DEF SessionOf
<1> QED
  BY <1>1, <1>2, EditOutcome

\* Frames and events that write the mode and the state with set_sta.
LEMMA SetOutcome ==
    ASSUME EapdInv, NEW i \in Ifs, NEW ea \in Stas, NEW r, r = Lookup(i, ea), r.k # NULL,
           NEW mode \in StaModes, NEW pae \in Paes, tab' = set_sta(r, mode, pae), clock' = clock, sess' = kept,
           \/ mode \notin {"WPS", "WPS_ENR"}
           \/ mode = r.t.sta[r.k].mode /\ pae = r.t.sta[r.k].pae
    PROVE  Outcome(r, ea, i)
<1>1. Heard(tab, r, ea, i)
  BY LookupGives
<1>2. /\ Edited(r.t, tab', r.k) /\ tab'.sta[r.k].mode = mode /\ tab'.sta[r.k].pae = pae
      /\ tab'.sta[r.k].ifname = r.t.sta[r.k].ifname
  BY LookupGives, SetSta
<1>3. WpsSession(tab'.sta[r.k]) => SessionOf(r, i)
  BY <1>2 DEF SessionOf, WpsSession
<1> QED
  BY <1>1, <1>2, <1>3, EditOutcome

\* An EAP identity begins a session on the interface it came in through.
LEMMA IdentityOutcome ==
    ASSUME EapdInv, NEW i \in Ifs, NEW ea \in Stas, NEW wsc \in BOOLEAN, RxIdentity(i, ea, wsc),
           NEW r, r = Lookup(i, ea)
    PROVE  Outcome(r, ea, i)
<1>1. PICK to : to = IF wsc \/ r.t.sta[r.k].mode = "WPS_ENR" THEN "wps" ELSE "nas"
  OBVIOUS
<1>2. PICK mode : mode = IF wsc THEN "WPS" ELSE IF to = "wps" THEN "WPS_ENR" ELSE "NAS"
  OBVIOUS
<1>3. PICK u : u = set_sta(r, mode, "IDENTITY")
  OBVIOUS
<1>4. /\ r.k # NULL /\ tab' = [u EXCEPT !.sta[r.k].ifname = i] /\ clock' = clock
      /\ sess' = IF to = "wps" THEN [kept EXCEPT ![ea] = i] ELSE kept
  BY <1>1, <1>2, <1>3, Zenon DEF RxIdentity
<1>5. mode \in StaModes /\ "IDENTITY" \in Paes /\ (to # "wps" => mode \notin {"WPS", "WPS_ENR"})
  BY <1>1, <1>2, Values
<1>6. /\ Heard(tab, r, ea, i) /\ TabOK(r.t) /\ clock \in Nat /\ r.k \in Places /\ r.t.sta[r.k].used
      /\ r.t.sta[r.k].ea = ea
  BY <1>4, LookupGives
<1>7. /\ Edited(r.t, u, r.k) /\ u.sta[r.k].mode = mode
  BY <1>3, <1>5, <1>6, SetSta
<1>8. TabOK(u) /\ u.sta[r.k].used
  BY <1>6, <1>7 DEF Edited, Same
<1>9. Edited(u, tab', r.k) /\ tab'.sta[r.k].ifname = i /\ tab'.sta[r.k].mode = mode
  <2>1. \A v : v = PutIf(u, r.k, i) =>
               Edited(u, v, r.k) /\ v.sta[r.k].ifname = i /\ v.sta[r.k].mode = u.sta[r.k].mode
    BY <1>6, <1>8, SetIf
  <2> QED
    BY <1>4, <1>7, <2>1, Zenon DEF PutIf
<1>10. Edited(r.t, tab', r.k)
  BY <1>7, <1>9, EditedTwice
<1>11. TabOK(tab')
  BY <1>10 DEF Edited
<1>12. CASE to # "wps"
  <2>1. sess' = kept /\ ~WpsSession(tab'.sta[r.k])
    BY <1>4, <1>5, <1>9, <1>12 DEF WpsSession
  <2> QED
    BY <1>4, <1>6, <1>10, <2>1, EditOutcome
<1>13. CASE to = "wps"
  <2>1. sess' = [kept EXCEPT ![ea] = i]
    BY <1>4, <1>13
  <2>2. /\ kept \in [Stas -> IfNames]
        /\ \A j \in Places : LET s == tab'.sta[j] IN
              s.used /\ WpsSession(s) => s.ea \in Stas /\ kept[s.ea] = sess[s.ea]
    BY <1>11, KeptIs
  <2>3. tab'.sta[r.k].used /\ tab'.sta[r.k].ea = ea
    BY <1>6, <1>10 DEF Edited, Same
  <2>4. \A j \in Places \ {r.k} : tab'.sta[j].used => tab'.sta[j].ea # ea
    BY <1>6, <1>11, <2>3 DEF TabOK, OneEach
  <2>5. sess' \in [Stas -> IfNames] /\ sess'[ea] = i /\ \A a \in Stas : a # ea => sess'[a] = kept[a]
    BY <2>1, <2>2, Values
  <2>6. \A j \in Places : LET s == tab'.sta[j] IN
           s.used /\ WpsSession(s) => IF j = r.k THEN sess'[s.ea] = s.ifname ELSE sess'[s.ea] = sess[s.ea]
    BY <1>9, <2>2, <2>3, <2>4, <2>5
  <2> QED
    BY <1>4, <1>6, <1>10, <1>11, <2>5, <2>6 DEF Outcome, Edited
<1> QED
  BY <1>12, <1>13

\* An EAPOL-Start takes the station to its interface, and out of a session where
\* it is answered.
LEMMA StartOutcome ==
    ASSUME EapdInv, NEW i \in Ifs, NEW ea \in Stas, RxStart(i, ea), NEW r, r = Lookup(i, ea)
    PROVE  Outcome(r, ea, i)
<1>1. PICK t : t = PutIf(r.t, r.k, i)
  OBVIOUS
<1>2. PICK ask \in BOOLEAN : ask <=> i \in EapolIfs /\ r.t.sta[r.k].mode # "NAS_PSK"
  OBVIOUS
<1>3. /\ r.k # NULL /\ clock' = clock /\ sess' = kept
      /\ tab' = IF ask THEN [t EXCEPT !.sta[r.k].mode = "UNKNOW"] ELSE t
  BY <1>1, <1>2 DEF RxStart, valid_eapol_start, PutIf
<1>4. /\ Heard(tab, r, ea, i) /\ TabOK(r.t) /\ clock \in Nat /\ r.k \in Places /\ r.t.sta[r.k].used
  BY <1>3, LookupGives
<1>5. /\ Edited(r.t, t, r.k) /\ t.sta[r.k].ifname = i
      /\ t.sta[r.k].mode = r.t.sta[r.k].mode /\ t.sta[r.k].pae = r.t.sta[r.k].pae
  BY <1>1, <1>4, SetIf
<1>6. TabOK(t) /\ t.sta[r.k].used
  BY <1>4, <1>5 DEF Edited, Same
<1>7. CASE ask
  <2>1. \A v : v = [t EXCEPT !.sta[r.k].mode = "UNKNOW"] => Edited(t, v, r.k) /\ v.sta[r.k].mode = "UNKNOW"
    BY <1>4, <1>6, Values, SetMode
  <2>2. Edited(t, tab', r.k) /\ tab'.sta[r.k].mode = "UNKNOW"
    BY <1>3, <1>7, <2>1, Zenon
  <2>3. Edited(r.t, tab', r.k)
    BY <1>5, <2>2, EditedTwice
  <2>4. ~WpsSession(tab'.sta[r.k])
    BY <2>2 DEF WpsSession
  <2> QED
    BY <1>3, <1>4, <2>3, <2>4, EditOutcome
<1>8. CASE ~ask
  <2>1. tab' = t
    BY <1>3, <1>8
  <2>2. WpsSession(tab'.sta[r.k]) => SessionOf(r, i)
    BY <1>2, <1>5, <1>8, <2>1 DEF WpsSession, SessionOf
  <2> QED
    BY <1>3, <1>4, <1>5, <2>1, <2>2, EditOutcome
<1> QED
  BY <1>7, <1>8

\* A frame of a session leaves the entry alone, or, a failure, removes it.
LEMMA WpsSessionOutcome ==
    ASSUME EapdInv, NEW i \in Ifs, NEW ea \in Stas, NEW code \in {"REQUEST", "RESPONSE", "FAILURE"},
           RxWpsSession(i, ea, code), NEW r, r = Lookup(i, ea)
    PROVE  Outcome(r, ea, i)
<1>1. /\ r.k # NULL /\ WpsSession(r.t.sta[r.k]) /\ clock' = clock /\ sess' = kept
      /\ tab' = r.t \/ tab' = sta_remove(r.t, r.k)
  BY DEF RxWpsSession
<1>2. CASE tab' = r.t
  BY <1>1, <1>2, PlainOutcome
<1>3. CASE tab' = sta_remove(r.t, r.k)
  <2>1. /\ Heard(tab, r, ea, i) /\ TabOK(r.t) /\ r.k \in Places /\ r.t.sta[r.k].used
    BY <1>1, LookupGives
  <2>2. /\ TabOK(tab') /\ ~tab'.sta[r.k].used /\ \A j \in Places \ {r.k} : tab'.sta[j] = r.t.sta[j]
    BY <1>3, <2>1, RemovedTable
  <2>3. tab.sta[r.k].used /\ tab.sta[r.k].ea = ea
    BY <1>1, <2>1 DEF Heard, WpsSession
  <2>4. /\ sess' \in [Stas -> IfNames]
        /\ \A j \in Places : LET s == tab'.sta[j] IN
               s.used /\ WpsSession(s) => j # r.k /\ sess'[s.ea] = sess[s.ea]
    BY <1>1, <2>2, KeptIs
  <2> QED
    BY <1>1, <2>1, <2>2, <2>3, <2>4 DEF Outcome
<1> QED
  BY <1>1, <1>2, <1>3

\* Every frame and event on an interface.
LEMMA RxOutcome ==
    ASSUME EapdInv, NEW i \in Ifs, NEW ea \in Stas, Rx(i, ea)
    PROVE  UNCHANGED <<tab, clock, sess>> \/ \E r : Outcome(r, ea, i)
<1>1. PICK r : r = Lookup(i, ea)
  OBVIOUS
<1>2. /\ \A m \in {"UNKNOW", "SES", "NAS_PSK"} : m \in StaModes /\ m \notin {"WPS", "WPS_ENR"}
      /\ "IDENTITY" \in Paes
  BY Values
<1>3. ASSUME NEW c \in {"REQUEST", "RESPONSE", "FAILURE"}, RxWpsSession(i, ea, c) PROVE Outcome(r, ea, i)
  BY <1>1, <1>3, WpsSessionOutcome
<1>4. ASSUME NEW b \in BOOLEAN, RxIdentity(i, ea, b) PROVE Outcome(r, ea, i)
  BY <1>1, <1>4, IdentityOutcome
<1>5. ASSUME NEW b \in BOOLEAN, RxOtherEap(i, ea, b) PROVE Outcome(r, ea, i)
  <2>1. r.k # NULL /\ tab' = set_sta(r, "UNKNOW", r.t.sta[r.k].pae) /\ sess' = kept /\ clock' = clock
    BY <1>1, <1>5 DEF RxOtherEap
  <2> QED
    BY <1>1, <1>2, <2>1, LookupGives, SetOutcome
<1>6. ASSUME RxSes(i, ea) PROVE Outcome(r, ea, i)
  <2>1. r.k # NULL /\ tab' = set_sta(r, "SES", "IDENTITY") /\ sess' = kept /\ clock' = clock
    BY <1>1, <1>6 DEF RxSes
  <2> QED
    BY <1>1, <1>2, <2>1, SetOutcome
<1>7. ASSUME RxStart(i, ea) PROVE Outcome(r, ea, i)
  BY <1>1, <1>7, StartOutcome
<1>8. ASSUME RxLogoff(i, ea) \/ RxKey(i, ea) \/ RxShort(i, ea) PROVE Outcome(r, ea, i)
  <2>1. r.k # NULL /\ tab' = r.t /\ sess' = kept /\ clock' = clock
    BY <1>1, <1>8 DEF RxLogoff, RxKey, RxShort
  <2> QED
    BY <1>1, <2>1, PlainOutcome
<1>9. ASSUME RxDropped(i, ea) PROVE UNCHANGED <<tab, clock, sess>>
  BY <1>9 DEF RxDropped
<1>10. ASSUME RxDisassoc(i, ea) PROVE Outcome(r, ea, i)
  <2>1. r.k # NULL /\ tab' = set_sta(r, "UNKNOW", r.t.sta[r.k].pae) /\ sess' = kept /\ clock' = clock
    BY <1>1, <1>10 DEF RxDisassoc
  <2> QED
    BY <1>1, <1>2, <2>1, LookupGives, SetOutcome
<1>11. ASSUME NEW ie \in IEs, RxAssoc(i, ea, ie) PROVE Outcome(r, ea, i)
  <2>1. PICK mode : mode = IF nas_app_find_wpsie(ie) THEN "UNKNOW"
                           ELSE IF nas_app_parse_ie(ie) THEN "NAS_PSK" ELSE r.t.sta[r.k].mode
    OBVIOUS
  <2>2. r.k # NULL /\ tab' = set_sta(r, mode, r.t.sta[r.k].pae) /\ sess' = kept /\ clock' = clock
    BY <1>1, <1>11, <2>1, Zenon DEF RxAssoc
  <2>3. r.t.sta[r.k].mode \in StaModes /\ r.t.sta[r.k].pae \in Paes
    BY <1>1, <2>2, LookupGives
  <2>4. mode \in StaModes /\ (mode \notin {"WPS", "WPS_ENR"} \/ mode = r.t.sta[r.k].mode)
    BY <1>2, <2>1, <2>3
  <2> QED
    BY <1>1, <2>2, <2>3, <2>4, SetOutcome
<1> QED
  BY <1>3, <1>4, <1>5, <1>6, <1>7, <1>8, <1>9, <1>10, <1>11 DEF Rx

\* What a frame or event does, as the cache sees it.
LEMMA OutcomeStep ==
    ASSUME EapdInv, NEW i \in Ifs, NEW ea \in Stas, NEW r, Outcome(r, ea, i)
    PROVE  Cache!Next
<1>1. TabOK(tab') /\ clock' = clock
  BY DEF Outcome
<1>2. CASE Same(r.t, tab')
  <2>1. Given(tab, r, ea)
    BY DEF Outcome, Heard, Given
  <2>2. Cache!Touch(ea) \/ Cache!Insert(ea) \/ \E v \in Stas : Cache!Replace(ea, v)
    BY <1>1, <1>2, <2>1, GivenStep
  <2> QED
    BY <2>2 DEF Cache!Next
<1>3. CASE ~tab'.sta[r.k].used /\ tab.sta[r.k].used /\ tab.sta[r.k].ea = ea
  <2>1. r.k \in Places /\ \A m \in Places \ {r.k} : tab'.sta[m] = tab.sta[m]
    BY DEF Outcome, Heard
  <2>2. Cache!Remove(ea)
    BY <1>1, <1>3, <2>1, ForgottenStep
  <2> QED
    BY <2>2 DEF Cache!Next
<1> QED
  BY <1>2, <1>3 DEF Outcome

\* No session begins or moves.
SessionsKept ==
    /\ sess' \in [Stas -> IfNames]
    /\ \A j \in Places : LET s == tab'.sta[j]  o == tab.sta[j] IN
          s.used /\ WpsSession(s) => /\ o.used /\ WpsSession(o) /\ o.ea = s.ea /\ o.ifname = s.ifname
                                     /\ sess'[s.ea] = sess[s.ea]

\* A frame from a daemon stamps the entry of its station or removes it.
LEMMA AppSendStep ==
    ASSUME EapdInv, NEW ea \in Stas, NEW result \in BOOLEAN, AppSend(ea, result)
    PROVE  /\ TabOK(tab') /\ clock' = clock /\ SessionsKept
           /\ Cache!Next \/ tab' = tab
<1>1. PICK r : r = search(tab, ea)
  OBVIOUS
<1>2. /\ clock' = clock /\ sess' = kept
      /\ tab' = IF result /\ r.k # NULL THEN sta_remove(r.t, r.k) ELSE r.t
  BY <1>1 DEF AppSend
<1>3. TabOK(tab) /\ clock \in Nat
  BY DEF EapdInv
<1>4. IF r.k = NULL THEN r.t = tab /\ found(tab, ea) = {}
      ELSE /\ TabOK(r.t) /\ r.k \in Places
           /\ tab.sta[r.k].used /\ tab.sta[r.k].ea = ea
           /\ r.t.sta[r.k] = [tab.sta[r.k] EXCEPT !.last = clock]
           /\ \A j \in Places \ {r.k} : r.t.sta[j] = tab.sta[j]
  BY <1>1, <1>3, SearchIs
<1>5. ASSUME TabOK(tab'), \A j \in Places : LET s == tab'.sta[j]  o == tab.sta[j] IN
                s.used => /\ o.used /\ o.ea = s.ea /\ o.ifname = s.ifname
                          /\ o.pae = s.pae /\ o.mode = s.mode
      PROVE  SessionsKept
  BY <1>2, <1>5, KeptIs DEF SessionsKept, WpsSession
<1>6. CASE r.k = NULL
  <2>1. tab' = tab
    BY <1>2, <1>4, <1>6
  <2> QED
    BY <1>2, <1>3, <1>5, <2>1
<1>7. CASE r.k # NULL
  <2>1. PICK s : s = tab.sta[r.k]
    OBVIOUS
  <2>2. s \in Entry
    BY <1>3, <1>4, <1>7, <2>1, TableFields
  <2>3. LET e == r.t.sta[r.k] IN /\ e.used = s.used /\ e.ea = s.ea /\ e.ifname = s.ifname /\ e.pae = s.pae
                                 /\ e.mode = s.mode /\ e.last = clock
    BY <1>4, <1>7, <2>1, <2>2 DEF Entry
  <2>4. CASE ~result
    <3>1. tab' = r.t
      BY <1>2, <2>4
    <3>2. TabOK(tab') /\ Same(r.t, tab') /\ Given(tab, r, ea)
      BY <1>4, <1>7, <2>1, <2>3, <3>1 DEF Same, Given
    <3>3. Cache!Touch(ea) \/ Cache!Insert(ea) \/ \E v \in Stas : Cache!Replace(ea, v)
      BY <1>2, <3>2, GivenStep
    <3>4. Cache!Next
      BY <3>3 DEF Cache!Next
    <3>5. SessionsKept
      BY <1>4, <1>5, <1>7, <2>1, <2>3, <3>1, <3>2
    <3> QED
      BY <1>2, <3>2, <3>4, <3>5
  <2>5. CASE result
    <3>1. tab' = sta_remove(r.t, r.k)
      BY <1>2, <1>7, <2>5
    <3>2. r.t.sta[r.k].used /\ TabOK(r.t) /\ r.k \in Places
      BY <1>4, <1>7, <2>1, <2>3
    <3>3. TabOK(tab') /\ ~tab'.sta[r.k].used /\ \A j \in Places \ {r.k} : tab'.sta[j] = r.t.sta[j]
      BY <3>1, <3>2, RemovedTable
    <3>4. \A j \in Places \ {r.k} : tab'.sta[j] = tab.sta[j]
      BY <1>4, <1>7, <3>3
    <3>5. Cache!Remove(ea)
      BY <1>2, <1>4, <1>7, <3>3, <3>4, ForgottenStep
    <3>6. Cache!Next
      BY <3>5 DEF Cache!Next
    <3>7. SessionsKept
      BY <1>5, <3>3, <3>4
    <3> QED
      BY <1>2, <3>3, <3>6, <3>7
  <2> QED
    BY <2>4, <2>5
<1> QED
  BY <1>6, <1>7

\* wps as an enrollee makes the entry of its station anew: the station is stamped,
\* entered or, without a place for it, forgotten.
LEMMA WpsStartStep ==
    ASSUME EapdInv, NEW i \in Ifs, NEW ea \in Stas, WpsStart(i, ea)
    PROVE  /\ TabOK(tab') /\ clock' = clock /\ SessionsKept
           /\ Cache!Next \/ tab' = tab
<1>1. PICK r : r = search(tab, ea)
  OBVIOUS
<1>2. PICK v : v = IF r.k # NULL THEN sta_remove(r.t, r.k) ELSE r.t
  OBVIOUS
<1>3. PICK e : e = sta_lookup(v, ea, i)
  OBVIOUS
<1>4. /\ clock' = clock /\ sess' = [kept EXCEPT ![ea] = NoIf]
      /\ tab' = IF e.k = NULL THEN e.t ELSE set_sta(e, "WPS_ENR", "INITIALIZE")
  BY <1>1, <1>2, <1>3, Zenon DEF WpsStart
<1>5. TabOK(tab) /\ clock \in Nat
  BY DEF EapdInv
<1>6. IF r.k = NULL THEN r.t = tab /\ found(tab, ea) = {}
      ELSE /\ TabOK(r.t) /\ r.k \in Places /\ tab.sta[r.k].used /\ tab.sta[r.k].ea = ea
           /\ r.t.sta[r.k] = [tab.sta[r.k] EXCEPT !.last = clock]
           /\ \A j \in Places \ {r.k} : r.t.sta[j] = tab.sta[j]
  BY <1>1, <1>5, SearchIs
\* the table without the station
<1>7. /\ TabOK(v) /\ found(v, ea) = {}
      /\ r.k # NULL => ~v.sta[r.k].used /\ \A j \in Places \ {r.k} : v.sta[j] = tab.sta[j]
      /\ r.k = NULL => v = tab
  <2>1. CASE r.k = NULL
    BY <1>2, <1>5, <1>6, <2>1
  <2>2. CASE r.k # NULL
    <3>1. PICK s : s = tab.sta[r.k]
      OBVIOUS
    <3>2. s \in Entry
      BY <1>5, <1>6, <2>2, <3>1, TableFields
    <3>3. r.t.sta[r.k].used /\ r.t.sta[r.k].ea = ea
      BY <1>6, <2>2, <3>1, <3>2 DEF Entry
    <3>4. TabOK(v) /\ ~v.sta[r.k].used /\ \A j \in Places \ {r.k} : v.sta[j] = r.t.sta[j]
      BY <1>2, <1>6, <2>2, <3>3, RemovedTable
    <3>5. \A j \in Places \ {r.k} : v.sta[j] = tab.sta[j]
      BY <1>6, <2>2, <3>4
    <3>6. \A j \in Places : ~(v.sta[j].used /\ v.sta[j].ea = ea)
      BY <1>5, <1>6, <2>2, <3>4, <3>5 DEF TabOK, OneEach
    <3>7. found(v, ea) = {}
      BY <3>4, <3>6, FoundIs
    <3> QED
      BY <2>2, <3>4, <3>5, <3>7
  <2> QED
    BY <2>1, <2>2
\* the table with its new entry
<1>8. IF e.k = NULL THEN tab' = v
      ELSE /\ Heard(v, e, ea, i) /\ Edited(e.t, tab', e.k) /\ e.k \in Places
           /\ tab'.sta[e.k].pae = "INITIALIZE" /\ tab'.sta[e.k].used /\ tab'.sta[e.k].ea = ea
  <2>1. IF e.k = NULL THEN e.t = v ELSE Heard(v, e, ea, i)
    BY <1>3, <1>5, <1>7, LookupIs
  <2>2. CASE e.k = NULL
    BY <1>4, <2>1, <2>2
  <2>3. CASE e.k # NULL
    <3>1. TabOK(e.t) /\ e.k \in Places /\ e.t.sta[e.k].used /\ e.t.sta[e.k].ea = ea
      BY <2>1, <2>3 DEF Heard
    <3>2. tab' = set_sta(e, "WPS_ENR", "INITIALIZE")
      BY <1>4, <2>3
    <3>3. Edited(e.t, tab', e.k) /\ tab'.sta[e.k].pae = "INITIALIZE"
      BY <1>5, <3>1, <3>2, Values, SetSta
    <3> QED
      BY <2>1, <2>3, <3>1, <3>3 DEF Edited, Same
  <2> QED
    BY <2>2, <2>3
<1>9. TabOK(tab')
  BY <1>7, <1>8 DEF Edited
<1>10. SessionsKept
  <2>1. /\ kept \in [Stas -> IfNames]
        /\ \A j \in Places : LET s == tab'.sta[j] IN
              s.used /\ WpsSession(s) => s.ea \in Stas /\ kept[s.ea] = sess[s.ea]
    BY <1>9, KeptIs
  <2>2. sess' \in [Stas -> IfNames] /\ \A a \in Stas : a # ea => sess'[a] = kept[a]
    BY <1>4, <2>1, Values
  <2>3. \A j \in Places : ~(v.sta[j].used /\ v.sta[j].ea = ea)
    BY <1>7, FoundIs
  <2>4. ASSUME NEW j \in Places, tab'.sta[j].used, WpsSession(tab'.sta[j])
        PROVE  tab'.sta[j] = v.sta[j]
    BY <1>8, <2>4 DEF Edited, Heard, WpsSession
  <2>5. \A j \in Places : v.sta[j].used => v.sta[j] = tab.sta[j]
    BY <1>7
  <2> QED
    BY <2>1, <2>2, <2>3, <2>4, <2>5 DEF SessionsKept
<1>11. CASE r.k = NULL /\ e.k = NULL
  BY <1>4, <1>7, <1>8, <1>9, <1>10, <1>11
<1>12. CASE r.k = NULL /\ e.k # NULL
  <2>1. Given(tab, e, ea) /\ Same(e.t, tab')
    BY <1>7, <1>8, <1>12 DEF Heard, Given, Edited
  <2>2. Cache!Touch(ea) \/ Cache!Insert(ea) \/ \E x \in Stas : Cache!Replace(ea, x)
    BY <1>4, <1>9, <2>1, GivenStep
  <2>3. Cache!Next
    BY <2>2 DEF Cache!Next
  <2> QED
    BY <1>4, <1>9, <1>10, <2>3
<1>13. CASE r.k # NULL /\ e.k = NULL
  <2>1. Cache!Remove(ea)
    BY <1>4, <1>6, <1>7, <1>8, <1>9, <1>13, ForgottenStep
  <2>2. Cache!Next
    BY <2>1 DEF Cache!Next
  <2> QED
    BY <1>4, <1>9, <1>10, <2>2
<1>14. CASE r.k # NULL /\ e.k # NULL
  <2>1. PICK k \in Places, j \in Places : k = r.k /\ j = e.k
    BY <1>6, <1>8, <1>14
  <2>2. ~v.sta[k].used /\ (\A m \in Places \ {k} : v.sta[m] = tab.sta[m]) /\ tab.sta[k].used /\ tab.sta[k].ea = ea
    BY <1>6, <1>7, <1>14, <2>1
  <2>3. ~v.sta[j].used
    <3>1. \A m \in Places : ~(v.sta[m].used /\ v.sta[m].ea = ea)
      BY <1>7, FoundIs
    <3> QED
      BY <1>8, <1>14, <2>1, <2>2, <3>1 DEF Heard, MakesRoom
  <2>4. /\ tab'.sta[j].used /\ tab'.sta[j].ea = ea /\ tab'.sta[j].last = clock
        /\ \A m \in Places \ {j} : tab'.sta[m] = v.sta[m]
    BY <1>8, <1>14, <2>1 DEF Heard, Edited, Same
  <2>r. PICK R : R = {k}
    OBVIOUS
  <2>5. tab.sta[j].used => j \in R
    BY <2>2, <2>3, <2>r
  <2>6. OthersKept(tab, tab', j, R)
    BY <2>2, <2>4, <2>r DEF OthersKept
  <2>7. R \in SUBSET UsedOf(tab) /\ k \in UsedOf(tab)
    BY <2>2, <2>r DEF UsedOf
  <2>8. CacheOf(tab') = StampedOf(tab, {ea}, ea)
    <3>1. CacheOf(tab') = StampedOf(tab, StasOf(tab, R), ea)
      BY <1>5, <1>9, <2>4, <2>5, <2>6, <2>7, CacheStamped
    <3>2. StasOf(tab, R) = {ea}
      BY <2>2, <2>r DEF StasOf
    <3> QED
      BY <3>1, <3>2
  <2>9. ea \in NamesOf(tab)
    BY <1>5, <2>2, <2>7, CacheFields
  <2>10. Cache!Touch(ea)
    BY <1>4, <2>8, <2>9, TouchedStep
  <2>11. Cache!Next
    BY <2>10 DEF Cache!Next
  <2> QED
    BY <1>4, <1>9, <1>10, <2>11
<1> QED
  BY <1>11, <1>12, <1>13, <1>14

\* Every step.
LEMMA StepIs ==
    ASSUME EapdInv, Next
    PROVE  \/ UNCHANGED <<tab, sess>> /\ clock' \in {clock, clock + 1}
           \/ \E i \in Ifs, ea \in Stas : \E r : Outcome(r, ea, i)
           \/ TabOK(tab') /\ clock' = clock /\ SessionsKept /\ (Cache!Next \/ tab' = tab)
<1>1. CASE Tick
  BY <1>1 DEF Tick
<1>2. ASSUME NEW i \in Ifs, NEW ea \in Stas, Rx(i, ea)
      PROVE  UNCHANGED <<tab, clock, sess>> \/ \E r : Outcome(r, ea, i)
  BY <1>2, RxOutcome
<1>3. ASSUME NEW i \in Ifs, NEW ea \in Stas, WpsStart(i, ea)
      PROVE  TabOK(tab') /\ clock' = clock /\ SessionsKept /\ (Cache!Next \/ tab' = tab)
  BY <1>3, WpsStartStep
<1>4. ASSUME NEW ea \in Stas, NEW b \in BOOLEAN, AppSend(ea, b)
      PROVE  TabOK(tab') /\ clock' = clock /\ SessionsKept /\ (Cache!Next \/ tab' = tab)
  BY <1>4, AppSendStep
<1>5. CASE RxEvent
  BY <1>5 DEF RxEvent, nas_app_handle_event, wps_app_handle_event, NoStation
<1> QED
  BY <1>1, <1>2, <1>3, <1>4, <1>5 DEF Next

-----------------------------------------------------------------------------
(* Theorems *)

\* The chains hold exactly the entries in use, each under its station's hash, and
\* no station has two (sta_lookup, sta_remove).
THEOREM EapdCorrect == Spec => []EapdInv
<1>1. Init => EapdInv
  <2> SUFFICES ASSUME Init PROVE EapdInv
    OBVIOUS
  <2>1. tab = EmptyTab /\ clock = 0 /\ sess = [a \in Stas |-> NoIf]
    BY DEF Init
  <2>2. /\ EmptyTab.sta = [k \in Places |-> Blank] /\ EmptyTab.hashed = [h \in Chains |-> {}]
        /\ EmptyTab = [sta |-> EmptyTab.sta, hashed |-> EmptyTab.hashed]
    BY DEF EmptyTab, Places, Chains
  <2>3. EmptyTab.sta \in [Places -> Entry] /\ EmptyTab.hashed \in [Chains -> SUBSET Places]
    BY <2>2, Values
  <2>4. EmptyTab \in Table
    BY <2>2, <2>3 DEF Table
  <2>5. \A k \in Places : ~EmptyTab.sta[k].used
    BY <2>2, Values
  <2>6. TabOK(EmptyTab)
    BY <2>2, <2>4, <2>5 DEF TabOK, Linked, Chained, OneEach
  <2> QED
    BY <2>1, <2>6, Values DEF EapdInv
<1>2. EapdInv /\ [Next]_vars => EapdInv'
  <2> SUFFICES ASSUME EapdInv, [Next]_vars PROVE EapdInv'
    OBVIOUS
  <2>1. TabOK(tab) /\ clock \in Nat /\ sess \in [Stas -> IfNames]
    BY DEF EapdInv
  <2>2. CASE UNCHANGED <<tab, sess>> /\ clock' \in {clock, clock + 1}
    <3>1. clock' \in Nat /\ clock <= clock'
      BY <2>1, <2>2
    <3>2. Linked(tab)'
      BY <2>1, <2>2, <3>1, TableFields DEF TabOK, Linked
    <3> QED
      BY <2>1, <2>2, <3>1, <3>2 DEF EapdInv, TabOK, Chained, OneEach
  <2>3. ASSUME TabOK(tab'), clock' = clock, sess' \in [Stas -> IfNames] PROVE EapdInv'
    BY <2>1, <2>3 DEF EapdInv, TabOK, Linked, Chained, OneEach
  <2>4. CASE Next
    BY <2>2, <2>3, <2>4, StepIs DEF Outcome, SessionsKept
  <2>5. CASE UNCHANGED vars
    BY <2>2, <2>5 DEF vars
  <2> QED
    BY <2>4, <2>5
<1> QED
  BY <1>1, <1>2, PTL DEF Spec

\* The hashed station table implements the bounded cache: a station has one entry
\* at most, a new one takes a free place or that of a station used least recently
\* and not in this second, and nothing else is lost (sta_lookup, sta_remove).
THEOREM EapdImplementsCache == Spec => ImplementsCache
<1>1. Init => Cache!Init
  <2> SUFFICES ASSUME Init PROVE Cache!Init
    OBVIOUS
  <2>1. used = {}
    BY Values DEF Init, EmptyTab, used, Blank
  <2>2. PICK S : S = {tab.sta[k].ea : k \in used}
    OBVIOUS
  <2>3. S = {}
    BY <2>1, <2>2
  <2>4. [a \in S |-> tab.sta[CHOOSE k \in used : tab.sta[k].ea = a].last] = <<>>
    BY <2>3
  <2>5. clock \in Nat
    BY DEF Init
  <2> QED
    BY <2>2, <2>4, <2>5, Zenon DEF Cache!Init
<1>2. EapdInv /\ [Next]_vars => [Cache!Next]_(Cache!vars)
  <2> SUFFICES ASSUME EapdInv, [Next]_vars PROVE Cache!Next \/ UNCHANGED Cache!vars
    OBVIOUS
  <2>1. ASSUME tab' = tab, clock' = clock PROVE UNCHANGED Cache!vars
    BY <2>1 DEF Cache!vars, used
  <2>2. ASSUME tab' = tab, clock' = clock + 1 PROVE Cache!Next
    BY <2>2 DEF Cache!Next, Cache!Tick, used
  <2>3. ASSUME NEW i \in Ifs, NEW ea \in Stas, NEW r, Outcome(r, ea, i) PROVE Cache!Next
    BY <2>3, OutcomeStep
  <2>4. CASE Next
    BY <2>1, <2>2, <2>3, <2>4, StepIs
  <2>5. CASE UNCHANGED vars
    BY <2>1, <2>5 DEF vars
  <2> QED
    BY <2>4, <2>5
<1> QED
  BY <1>1, <1>2, EapdCorrect, PTL DEF Spec, ImplementsCache, Cache!Spec

\* A WPS session stays on the interface on which the station gave its identity,
\* where there are no proxy stations or every other interface is one that answers
\* an EAPOL-Start (eapd_eapol_dispatch, sta_lookup).
THEOREM EapdSessionStaysPut ==
    ASSUME Psta = {} \/ Ifs \ Psta \subseteq EapolIfs
    PROVE  Spec => []SessionStaysPut
<1>1. Init => SessionStaysPut
  <2> SUFFICES ASSUME Init PROVE SessionStaysPut
    OBVIOUS
  <2>1. \A k \in 1..MaxSta : ~tab.sta[k].used
    BY DEF Init, EmptyTab, Blank
  <2> QED
    BY <2>1 DEF SessionStaysPut
<1>2. EapdInv /\ SessionStaysPut /\ [Next]_vars => SessionStaysPut'
  <2> SUFFICES ASSUME EapdInv, SessionStaysPut, [Next]_vars PROVE SessionStaysPut'
    OBVIOUS
  <2>1. ASSUME tab' = tab, sess' = sess PROVE SessionStaysPut'
    BY <2>1 DEF SessionStaysPut
  <2>2. ASSUME SessionsKept PROVE SessionStaysPut'
    BY <2>2 DEF SessionStaysPut, SessionsKept, Places
  <2>3. ASSUME NEW i \in Ifs, NEW ea \in Stas, NEW r, Outcome(r, ea, i) PROVE SessionStaysPut'
    <3> SUFFICES ASSUME NEW k \in Places, tab'.sta[k].used, WpsSession(tab'.sta[k]),
                        {tab'.sta[k].ifname, sess'[tab'.sta[k].ea]} \cap Psta = {}
                 PROVE  sess'[tab'.sta[k].ea] = tab'.sta[k].ifname
      BY DEF SessionStaysPut, Places
    <3>1. SUFFICES ASSUME sess'[tab'.sta[k].ea] = sess[tab'.sta[k].ea], k = r.k => SessionOf(r, i)
                   PROVE  sess'[tab'.sta[k].ea] = tab'.sta[k].ifname
      BY <2>3 DEF Outcome
    <3>2. Heard(tab, r, ea, i) /\ \A j \in Places \ {r.k} : tab'.sta[j] = r.t.sta[j]
      BY <2>3 DEF Outcome
    <3>3. CASE k # r.k
      <4>1. tab'.sta[k] = tab.sta[k]
        BY <3>2, <3>3 DEF Heard
      <4> QED
        BY <3>1, <4>1 DEF SessionStaysPut, Places
    <3>4. CASE k = r.k
      <4> DEFINE s == tab'.sta[k]
                 o == tab.sta[k]
      <4>1. /\ WpsSession(r.t.sta[k])
            /\ s.ifname = r.t.sta[k].ifname \/ (s.ifname = i /\ i \notin EapolIfs)
        BY <3>1, <3>4 DEF SessionOf
      <4>2. o.used /\ o.ea = ea /\ WpsSession(o) /\ ~moved(o, i) /\ r.t.sta[k].ifname = o.ifname
        BY <3>2, <3>4, <4>1 DEF Heard, WpsSession
      <4>3. s.ea = ea
        BY <2>3, <3>2, <3>4 DEF Outcome, Heard, Same
      <4>4. {o.ifname, sess[ea]} \cap Psta = {} => sess[ea] = o.ifname
        BY <4>2 DEF SessionStaysPut, Places
      <4>5. CASE s.ifname = o.ifname
        BY <3>1, <4>3, <4>4, <4>5
      <4>6. CASE s.ifname = i /\ i \notin EapolIfs
        <5>1. i \notin Psta
          BY <4>6
        <5>2. Psta = {}
          BY <4>6, <5>1
        <5>3. o.ifname = i
          BY <4>2, <5>2 DEF moved
        <5> QED
          BY <3>1, <4>3, <4>4, <4>6, <5>2, <5>3
      <4> QED
        BY <4>1, <4>2, <4>5, <4>6
    <3> QED
      BY <3>3, <3>4
  <2>4. CASE Next
    BY <2>1, <2>2, <2>3, <2>4, StepIs
  <2>5. CASE UNCHANGED vars
    BY <2>1, <2>5 DEF vars
  <2> QED
    BY <2>4, <2>5
<1> QED
  BY <1>1, <1>2, EapdCorrect, PTL DEF Spec

=============================================================================
