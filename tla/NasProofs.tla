------------------------------ MODULE NasProofs ------------------------------
(***************************************************************************)
(* Proofs about nas.  NasRadius, for any number of stations and places,    *)
(* any timeouts and any bounds: a station is authenticated by the answer   *)
(* to a request of its own, and the driver's ports belong to stations that *)
(* nas still has in its table.  NasWksp, for any set of interfaces and any *)
(* settings: every open RADIUS socket belongs to a control block, messages *)
(* make no second block for an interface, and group keys have the index    *)
(* that the standard allows.                                               *)
(***************************************************************************)
EXTENDS NasRadius, NasWksp, TLAPS, FiniteSetTheorems, SequenceTheorems, WellFoundedInduction

States == {"INITIALIZE", "CONNECTING", "AUTHENTICATING", "HELD", "AUTHENTICATED"}
Addresses == Stas \cup {NoSta}
Clocks == 0..MaxClock
Retries == 0..ReauthMax + 1
Requests == 0..MaxReq
Sessions == 0..SsnTo
Modes == {"NONE", "RADIUS", "WPA2", "PSK"}

\* What TypeOK says of an entry, and of one whose request is being aborted.
EntryOf(S) == [used : BOOLEAN, ea : Addresses, last : Clocks, state : S, timer : Nat,
               rxauths : Retries, request : Requests, success : BOOLEAN, ssnto : Sessions,
               mode : Modes, preauth : BOOLEAN, by : Addresses]
Entry == EntryOf(States)

\* A place in use holds a station; one that is not holds nothing.
EntriesSane == \A k \in Places : IF sta[k].used THEN sta[k].ea \in Stas ELSE sta[k] = Blank

\* No station has two places.
OnePlace == \A j, k \in Places : sta[j].used /\ sta[k].used /\ sta[j].ea = sta[k].ea => j = k

\* The Request Authenticators sent so far are below the next one.
SentBounded == IsFiniteSet(sent) /\ \A m \in sent : m.vector <= Cardinality(sent)

\* The request a place holds has been sent, and for the station it holds.
RequestOwn == \A k \in Places :
                 /\ sta[k].request <= Cardinality(sent)
                 /\ \A m \in sent : m.vector = sta[k].request => m.for = sta[k].ea

RadiusInv == /\ TypeOK /\ EntriesSane /\ OnePlace /\ SentBounded /\ RequestOwn
             /\ AcceptedIsOwn /\ PortTracked

-----------------------------------------------------------------------------
(* The operators *)

\* A non-empty set of naturals has a least element, so Min picks one of its
\* members (the searches of lookup_sta take the first place that fits).
LEMMA MinIn ==
    ASSUME NEW S, S \subseteq Nat, S # {}
    PROVE  Min(S) \in S /\ \A y \in S : Min(S) <= y
<1> DEFINE R == {ss \in Nat \X Nat : ss[1] < ss[2]}
<1>1. R = OpToRel(<, Nat)
  BY Zenon DEF OpToRel
<1>2. IsWellFoundedOn(R, Nat)
  BY <1>1, NatLessThanWellFounded, Zenon
<1>3. PICK x \in S : \A y \in S : ~ (<<y, x>> \in R)
  BY <1>2, WFMin
<1>4. \A y \in S : x <= y
  <2> SUFFICES ASSUME NEW y \in S, y < x PROVE FALSE
    OBVIOUS
  <2>1. <<y, x>> \in R
    OBVIOUS
  <2> QED
    BY <1>3, <2>1
<1> QED
  BY <1>4 DEF Min

\* The states that 802.1X leaves a port open in, and the entries whose port may be.
Open == {"CONNECTING", "AUTHENTICATING", "AUTHENTICATED"}
MayOpen(r) == \/ r.state \in Open
              \/ r.state = "INITIALIZE" /\ r.mode \in {"WPA2", "PSK"}
              \/ AtOnce /\ "NONE" \in Kinds[r.ea]

\* q is what becomes of r without an answer of the server: the same station, the
\* same request or none, and authenticated only if r was.
Follows(r, q) ==
    /\ q \in Entry /\ q.used = r.used /\ q.ea = r.ea /\ q.request \in {r.request, NULL}
    /\ q.state = "AUTHENTICATED" => r.state = "AUTHENTICATED" /\ q.by = r.by

\* The values that the operators assign are of the fields' types.
LEMMA Values ==
    /\ NoSta \in Addresses /\ Stas \subseteq Addresses /\ 0 \in Clocks /\ 0 \in Nat
    /\ {TxPeriod, AuthWhile, QuietWhile} \subseteq Nat
    /\ 0 \in Retries /\ NULL \in Requests /\ 0 \in Sessions /\ SsnTo \in Sessions
    /\ {"NONE", "RADIUS", "WPA2", "PSK"} \subseteq Modes
  BY NasRadiusAssumption DEF Addresses, Clocks, Retries, Requests, Sessions, Modes, NULL

\* An entry that is not in use.
LEMMA BlankEntry == Blank \in Entry /\ Blank.request = NULL /\ Blank.state = "INITIALIZE"
  BY Values DEF Blank, Entry, EntryOf, States

\* The retry count of connecting stays within its bound.
LEMMA RetryBound ==
    ASSUME NEW n \in Retries
    PROVE  Min({n + 1, ReauthMax + 1}) \in Retries
<1> USE NasRadiusAssumption DEF Retries
<1>1. {n + 1, ReauthMax + 1} \subseteq Nat
  OBVIOUS
<1>2. Min({n + 1, ReauthMax + 1}) \in {n + 1, ReauthMax + 1} /\ Min({n + 1, ReauthMax + 1}) <= ReauthMax + 1
  BY MinIn
<1> QED
  BY <1>2

\* connecting, of an entry whose request may just have been aborted.
LEMMA ConnectingFields ==
    ASSUME NEW S, NEW r \in EntryOf(S)
    PROVE  /\ connecting(r) \in Entry /\ connecting(r).state = "CONNECTING"
           /\ connecting(r).used = r.used /\ connecting(r).ea = r.ea
           /\ connecting(r).request = r.request
<1> DEFINE n == Min({r.rxauths + 1, ReauthMax + 1})
<1>1. n \in Retries
  BY RetryBound DEF EntryOf
<1>2. connecting(r) = [r EXCEPT !.state = "CONNECTING", !.success = FALSE, !.ssnto = 0,
                                !.rxauths = n, !.timer = TxPeriod, !.by = NoSta]
  BY DEF connecting
<1> HIDE DEF n
<1> QED
  BY <1>1, <1>2, Values DEF Entry, EntryOf, States

\* Every change of PAE state but the one an answer causes.
LEMMA PaeFollows ==
    ASSUME NEW r \in Entry, NEW s \in {"HELD", "DISCONNECTED", "CONNECTING", "AUTHENTICATING"}
    PROVE  /\ Follows(r, pae_state(r, s))
           /\ pae_state(r, s).state = IF s = "DISCONNECTED" THEN "CONNECTING" ELSE s
<1>1. CASE s = "HELD"
  BY <1>1, Values DEF pae_state, Follows, Entry, EntryOf, States
<1>2. CASE s = "AUTHENTICATING"
  BY <1>2, Values DEF pae_state, Follows, Entry, EntryOf, States
<1>3. CASE s = "CONNECTING"
  <2>1. pae_state(r, s) = connecting(r)
    BY <1>3 DEF pae_state
  <2> QED
    BY <1>3, <2>1, ConnectingFields DEF Follows, Entry
<1>4. CASE s = "DISCONNECTED"
  <2> DEFINE q == [r EXCEPT !.rxauths = 0]
  <2>1. pae_state(r, s) = connecting(q)
    BY <1>4 DEF pae_state
  <2>2. /\ q \in Entry
        /\ q.used = r.used /\ q.ea = r.ea /\ q.request = r.request
    BY Values DEF Entry, EntryOf
  <2> HIDE DEF q
  <2> QED
    BY <1>4, <2>1, <2>2, ConnectingFields DEF Follows, Entry
<1> QED
  BY <1>1, <1>2, <1>3, <1>4

\* The same after the request is aborted.
LEMMA AbortFollows ==
    ASSUME NEW r \in Entry, NEW s \in {"DISCONNECTED", "CONNECTING"}
    PROVE  LET q == pae_state(pae_state(r, "ABORTING"), s) IN Follows(r, q) /\ q.state = "CONNECTING"
<1> DEFINE a == pae_state(r, "ABORTING")
           n == [a EXCEPT !.rxauths = 0]
<1>1. a = [r EXCEPT !.state = "ABORTING", !.request = NULL]
  BY DEF pae_state
<1>2. pae_state(a, s) = IF s = "CONNECTING" THEN connecting(a) ELSE connecting(n)
  BY DEF pae_state
<1> HIDE DEF a
<1>3. a \in EntryOf({"ABORTING"}) /\ a.used = r.used /\ a.ea = r.ea /\ a.request = NULL
  BY <1>1, Values DEF Entry, EntryOf
<1>4. n \in EntryOf({"ABORTING"}) /\ n.used = r.used /\ n.ea = r.ea /\ n.request = NULL
  BY <1>3, Values DEF EntryOf
<1> HIDE DEF n
<1>5. Follows(r, pae_state(a, s)) /\ pae_state(a, s).state = "CONNECTING"
  BY <1>2, <1>3, <1>4, ConnectingFields DEF Follows
<1> QED
  BY <1>5 DEF a

\* EAPOL_START and EAPOL_LOGOFF leave the station connecting.
LEMMA StartFollows ==
    ASSUME NEW r \in Entry
    PROVE  /\ Follows(r, start(r)) /\ start(r).state = "CONNECTING"
           /\ Follows(r, logoff(r)) /\ logoff(r).state = "CONNECTING"
  BY PaeFollows, AbortFollows DEF start, logoff

\* A request for the identity leaves the station connecting, or is ignored.
LEMMA AskedFollows ==
    ASSUME NEW r \in Entry
    PROVE  /\ Follows(r, send_identity_req(r))
           /\ send_identity_req(r).state \in {r.state, "CONNECTING"}
<1> DEFINE p == [r EXCEPT !.preauth = FALSE]
<1>1. p \in Entry /\ p.used = r.used /\ p.ea = r.ea /\ p.request = r.request
  BY DEF Entry, EntryOf
<1>2. send_identity_req(r) = r \/ send_identity_req(r) = start(p)
  BY DEF send_identity_req, marked
<1> HIDE DEF p
<1>3. Follows(p, start(p)) /\ start(p).state = "CONNECTING"
  BY <1>1, StartFollows
<1> QED
  BY <1>1, <1>2, <1>3 DEF Follows

\* One second of an entry closes no port.
LEMMA WatchedFollows ==
    ASSUME TypeOK, NEW r \in Entry
    PROVE  Follows(r, watched(r)) /\ (MayOpen(r) => MayOpen(watched(r)))
<1> USE DEF MayOpen, Open
<1>1. CASE r.state = "AUTHENTICATED" /\ r.ssnto > 0 /\ r.ssnto > 1
  <2>1. r.ssnto - 1 \in Sessions
    BY <1>1, NasRadiusAssumption DEF Entry, EntryOf, Sessions
  <2>2. watched(r) = [r EXCEPT !.ssnto = r.ssnto - 1]
    BY <1>1 DEF watched
  <2> QED
    BY <2>1, <2>2 DEF Follows, Entry, EntryOf, States
<1>2. CASE r.state = "AUTHENTICATED" /\ r.ssnto > 0 /\ ~(r.ssnto > 1)
  <2> DEFINE q == [r EXCEPT !.ssnto = 0, !.last = clock]
  <2>1. /\ q \in Entry /\ q.used = r.used /\ q.ea = r.ea /\ q.request = r.request
        /\ q.state = "AUTHENTICATED" /\ q.by = r.by
    BY <1>2, Values DEF Entry, EntryOf, TypeOK, Clocks
  <2>2. watched(r) = send_identity_req(q)
    BY <1>2 DEF watched
  <2> HIDE DEF q
  <2>3. Follows(q, watched(r)) /\ watched(r).state \in {q.state, "CONNECTING"}
    BY <2>1, <2>2, AskedFollows
  <2> QED
    BY <1>2, <2>1, <2>3 DEF Follows
<1>3. CASE r.state # "AUTHENTICATED" /\ r.timer > 1
  <2>1. r.timer - 1 \in Nat
    BY <1>3 DEF Entry, EntryOf
  <2>2. watched(r) = [r EXCEPT !.timer = r.timer - 1]
    BY <1>3 DEF watched
  <2> QED
    BY <2>1, <2>2 DEF Follows, Entry, EntryOf, States
<1>4. CASE r.state = "HELD" /\ r.timer = 1
  BY <1>4, PaeFollows DEF watched
<1>5. CASE r.state = "CONNECTING" /\ r.timer = 1
  BY <1>5, PaeFollows DEF watched
<1>6. CASE r.state = "AUTHENTICATING" /\ r.timer = 1
  BY <1>6, AbortFollows DEF watched
<1>7. CASE \/ r.state = "AUTHENTICATED" /\ ~(r.ssnto > 0)
           \/ r.state # "AUTHENTICATED" /\ ~(r.timer > 1) /\ r.timer # 1
           \/ r.state = "INITIALIZE" /\ r.timer = 1
  BY <1>7 DEF watched, Follows, Entry, EntryOf, States
<1> QED
  BY <1>1, <1>2, <1>3, <1>4, <1>5, <1>6, <1>7 DEF Entry, EntryOf, States

-----------------------------------------------------------------------------
(* The table *)

\* The table's type, with the fields' types named.
LEMMA TableTyped ==
    ASSUME RadiusInv
    PROVE  sta \in [Places -> Entry] /\ clock \in Clocks
  BY DEF RadiusInv, TypeOK, Clocks, Entry, EntryOf, States, Addresses, Retries,
     Requests, Sessions, Modes

\* What lookup_sta returns: a place of the table, whose other places are not the
\* station's.  A place that was another station's has closed that station's port.
LEMMA LookupPlace ==
    ASSUME RadiusInv, NEW ea \in Stas, lookup_sta(ea).k # NULL
    PROVE  LET l == lookup_sta(ea) IN
           /\ l.k \in Places
           /\ \A j \in Places : j # l.k /\ sta[j].used => sta[j].ea # ea
           /\ found(ea) # {} => l.out = {} /\ sta[l.k].used /\ sta[l.k].ea = ea
           /\ found(ea) = {} /\ sta[l.k].used => l.out = {sta[l.k].ea} /\ sta[l.k].ea # ea
           /\ l.out \subseteq Stas \ {ea}
<1> DEFINE l == lookup_sta(ea)
           free == {k \in Places : ~sta[k].used}
           old == {k \in Places : sta[k].last < clock}
           lru == {k \in old : \A j \in old : sta[k].last <= sta[j].last}
<1>1. Places \subseteq Nat
  BY DEF Places
<1>2. CASE found(ea) # {}
  <2>1. Min(found(ea)) \in found(ea)
    BY <1>1, <1>2, MinIn DEF found
  <2>2. l.k = Min(found(ea)) /\ l.out = {}
    BY <1>2 DEF lookup_sta
  <2> QED
    BY <1>2, <2>1, <2>2 DEF found, RadiusInv, OnePlace
<1>3. CASE found(ea) = {} /\ free # {}
  <2>1. Min(free) \in free
    BY <1>1, <1>3, MinIn
  <2>2. l.k = Min(free) /\ l.out = {}
    BY <1>3 DEF lookup_sta
  <2> QED
    BY <1>3, <2>1, <2>2 DEF found
<1>4. CASE found(ea) = {} /\ free = {}
  <2>1. l.k = victim /\ l.out = {sta[victim].ea} /\ victim # NULL
    BY <1>4 DEF lookup_sta
  <2>2. victim = Min(lru) /\ lru # {}
    BY <2>1 DEF victim
  <2>3. Min(lru) \in lru
    BY <1>1, <2>2, MinIn
  <2> QED
    BY <1>4, <2>1, <2>2, <2>3 DEF found, RadiusInv, EntriesSane
<1> QED
  BY <1>2, <1>3, <1>4

\* An entry for which no answer counts: the station's own place, or a new one.
LEMMA EntryOfStation ==
    ASSUME RadiusInv, NEW ea \in Stas, lookup_sta(ea).k # NULL
    PROVE  LET k == lookup_sta(ea).k
               e == entry(ea, k)
           IN  /\ e \in Entry /\ e.used /\ e.ea = ea
               /\ e.request \in {NULL, sta[k].request}
               /\ e.request # NULL => sta[k].ea = ea
               /\ e.state = "AUTHENTICATED" => e.by = ea
               /\ found(ea) # {} => e.state = sta[k].state /\ e.mode = sta[k].mode
<1> DEFINE k == lookup_sta(ea).k
           e == entry(ea, k)
<1>0. k \in Places /\ clock \in Clocks /\ sta[k] \in Entry
  BY LookupPlace, TableTyped
<1>1. CASE found(ea) # {}
  <2>1. sta[k].used /\ sta[k].ea = ea
    BY <1>1, LookupPlace
  <2>2. e = [sta[k] EXCEPT !.last = clock]
    BY <1>1 DEF entry
  <2>3. sta[k].state = "AUTHENTICATED" => sta[k].by = ea
    BY <1>0, <2>1 DEF RadiusInv, AcceptedIsOwn
  <2> HIDE DEF e, k
  <2>4. e \in Entry /\ e.used /\ e.ea = ea /\ e.request = sta[k].request
        /\ e.state = sta[k].state /\ e.by = sta[k].by /\ e.mode = sta[k].mode
    BY <1>0, <2>1, <2>2 DEF Entry, EntryOf
  <2> QED
    BY <2>1, <2>3, <2>4 DEF e, k
<1>2. CASE found(ea) = {}
  <2> DEFINE n == IF Wep /\ "RADIUS" \in NasMode THEN "RADIUS" ELSE "NONE"
             b == [Blank EXCEPT !.used = TRUE, !.ea = ea, !.last = clock]
  <2>1. e = [b EXCEPT !.mode = n]
    BY <1>2 DEF entry, Blank
  <2>3. n \in Modes
    BY Values
  <2>4. b \in Entry /\ b.used /\ b.ea = ea /\ b.request = NULL /\ b.state = "INITIALIZE"
    BY <1>0, BlankEntry, Values DEF Entry, EntryOf
  <2> HIDE DEF n, b, e
  <2>2. e \in Entry /\ e.used /\ e.ea = ea /\ e.request = NULL /\ e.state = "INITIALIZE"
    BY <2>1, <2>3, <2>4 DEF Entry, EntryOf
  <2> QED
    BY <1>2, <2>2 DEF e
<1> QED
  BY <1>1, <1>2

\* One place changes to q.  It keeps its station or closes that station's port; a
\* station it is new for has no other place; what it holds as request was sent
\* for its station; a new request has an Authenticator that no place holds.
LEMMA UpdateEntry ==
    ASSUME RadiusInv, NEW k \in Places, NEW q \in Entry, sta' = [sta EXCEPT ![k] = q],
           IF q.used THEN q.ea \in Stas ELSE q = Blank,
           \A j \in Places : j # k /\ sta[j].used /\ q.used => sta[j].ea # q.ea,
           q.state = "AUTHENTICATED" => q.by = q.ea,
           q.request <= Cardinality(sent'),
           \A m \in sent' : m.vector = q.request => m.for = q.ea,
           SentBounded', sent' \subseteq [id : Places, vector : 1..MaxReq, for : Stas],
           Cardinality(sent) <= Cardinality(sent'),
           \A m \in sent' \ sent : m.vector > Cardinality(sent),
           clock' = clock, assoc' \subseteq Stas, port' \subseteq assoc',
           \A ea \in port' : ea \in port \/ (q.used /\ ea = q.ea),
           sta[k].used /\ sta[k].ea \in port' => q.used /\ q.ea = sta[k].ea,
           q.used /\ q.ea \in port' => MayOpen(q)
    PROVE  RadiusInv'
<1>1. sta \in [Places -> Entry]
  BY TableTyped
<1>2. sta'[k] = q /\ \A j \in Places : j # k => sta'[j] = sta[j]
  BY <1>1
<1>3. TypeOK'
  <2>1. sta' \in [Places -> Entry]
    BY <1>1
  <2> QED
    BY DEF RadiusInv, TypeOK, Clocks, Entry, EntryOf, States, Addresses, Retries,
       Requests, Sessions, Modes
<1>4. EntriesSane' /\ OnePlace' /\ AcceptedIsOwn'
  BY DEF RadiusInv, EntriesSane, OnePlace, AcceptedIsOwn
<1>5. RequestOwn'
  <2> SUFFICES ASSUME NEW j \in Places
               PROVE  /\ sta'[j].request <= Cardinality(sent')
                      /\ \A m \in sent' : m.vector = sta'[j].request => m.for = sta'[j].ea
    BY DEF RequestOwn
  <2>1. CASE j = k
    BY <1>2, <2>1
  <2>2. CASE j # k
    <3>1. sta'[j] = sta[j] /\ sta[j].request \in Nat
      BY <1>1, <2>2, NasRadiusAssumption DEF Entry, EntryOf, Requests
    <3>2. Cardinality(sent) \in Nat /\ Cardinality(sent') \in Nat
      BY FS_CardinalityType DEF RadiusInv, SentBounded
    <3>3. /\ sta[j].request <= Cardinality(sent)
          /\ \A m \in sent : m.vector = sta[j].request => m.for = sta[j].ea
      BY DEF RadiusInv, RequestOwn
    <3>4. \A m \in sent' \ sent : m.vector # sta[j].request
      BY <3>2, <3>3, NasRadiusAssumption
    <3> QED
      BY <3>1, <3>2, <3>3, <3>4
  <2> QED
    BY <2>1, <2>2
<1>6. PortTracked'
  <2> SUFFICES ASSUME NEW ea \in port'
               PROVE  \E j \in Places : sta'[j].used /\ sta'[j].ea = ea /\ MayOpen(sta'[j])
    BY DEF PortTracked, found, MayOpen, Open
  <2>1. CASE q.used /\ ea = q.ea
    BY <1>2, <2>1
  <2>2. CASE ~(q.used /\ ea = q.ea)
    <3>1. PICK j \in Places : sta[j].used /\ sta[j].ea = ea /\ MayOpen(sta[j])
      BY <2>2 DEF RadiusInv, PortTracked, found, MayOpen, Open
    <3>2. j # k
      BY <2>2, <3>1
    <3> QED
      BY <3>1, <3>2
  <2> QED
    BY <2>1, <2>2
<1> QED
  BY <1>3, <1>4, <1>5, <1>6 DEF RadiusInv

\* A place is cleared, with the port of the station it held.
LEMMA BlankKeeps ==
    ASSUME RadiusInv, NEW k \in Places, sta' = [sta EXCEPT ![k] = Blank], sent' = sent,
           clock' = clock, assoc' \subseteq Stas, port' \subseteq assoc', port' \subseteq port,
           ~(sta[k].used /\ sta[k].ea \in port')
    PROVE  RadiusInv'
<1> DEFINE q == Blank
<1>1. q \in Entry /\ q.used = FALSE /\ q.request = NULL /\ q.state = "INITIALIZE"
  BY BlankEntry DEF Blank
<1>2. Cardinality(sent) \in Nat /\ \A m \in sent : m.vector # NULL
  BY FS_CardinalityType DEF RadiusInv, SentBounded, TypeOK, NULL
<1>3. sta' = [sta EXCEPT ![k] = q] /\ q = Blank
  OBVIOUS
<1> HIDE DEF q
<1>4. /\ SentBounded' /\ sent' \subseteq [id : Places, vector : 1..MaxReq, for : Stas]
      /\ Cardinality(sent) <= Cardinality(sent') /\ q.request <= Cardinality(sent')
      /\ \A m \in sent' \ sent : m.vector > Cardinality(sent)
      /\ \A m \in sent' : m.vector = q.request => m.for = q.ea
  BY <1>1, <1>2 DEF RadiusInv, SentBounded, TypeOK, NULL
<1>5. /\ IF q.used THEN q.ea \in Stas ELSE q = Blank
      /\ \A j \in Places : j # k /\ sta[j].used /\ q.used => sta[j].ea # q.ea
      /\ q.state = "AUTHENTICATED" => q.by = q.ea
      /\ \A e \in port' : e \in port \/ (q.used /\ e = q.ea)
      /\ sta[k].used /\ sta[k].ea \in port' => q.used /\ q.ea = sta[k].ea
      /\ q.used /\ q.ea \in port' => MayOpen(q)
  BY <1>1, <1>3
<1> QED
  BY <1>1, <1>3, <1>4, <1>5, UpdateEntry

\* A place keeps its station, with its request or none.
LEMMA SamePlaceKeeps ==
    ASSUME RadiusInv, NEW k \in Places, NEW q \in Entry, sta' = [sta EXCEPT ![k] = q],
           sta[k].used, q.used, q.ea = sta[k].ea, q.request \in {NULL, sta[k].request},
           q.state = "AUTHENTICATED" => q.by = q.ea,
           sent' = sent, clock' = clock, assoc' \subseteq Stas, port' \subseteq assoc',
           port' \subseteq port \cup {sta[k].ea}, q.ea \in port' => MayOpen(q)
    PROVE  RadiusInv'
<1>1. Cardinality(sent) \in Nat /\ \A m \in sent : m.vector # NULL
  BY FS_CardinalityType DEF RadiusInv, SentBounded, TypeOK, NULL
<1>2. /\ SentBounded' /\ sent' \subseteq [id : Places, vector : 1..MaxReq, for : Stas]
      /\ Cardinality(sent) <= Cardinality(sent') /\ q.request <= Cardinality(sent')
      /\ \A m \in sent' \ sent : m.vector > Cardinality(sent)
      /\ \A m \in sent' : m.vector = q.request => m.for = q.ea
  BY <1>1 DEF RadiusInv, SentBounded, TypeOK, RequestOwn, NULL
<1>3. /\ IF q.used THEN q.ea \in Stas ELSE q = Blank
      /\ \A j \in Places : j # k /\ sta[j].used /\ q.used => sta[j].ea # q.ea
      /\ \A e \in port' : e \in port \/ (q.used /\ e = q.ea)
      /\ sta[k].used /\ sta[k].ea \in port' => q.used /\ q.ea = sta[k].ea
      /\ q.used /\ q.ea \in port' => MayOpen(q)
  BY DEF RadiusInv, EntriesSane, OnePlace
<1> QED
  BY <1>2, <1>3, UpdateEntry

\* An open port is that of a station whose place lookup_sta finds, in a state
\* that has an open port.
LEMMA PortOpen ==
    ASSUME RadiusInv, NEW ea \in port
    PROVE  /\ ea \in Stas /\ found(ea) # {}
           /\ \A k \in found(ea) : MayOpen(sta[k])
<1>1. PICK j \in found(ea) : MayOpen(sta[j])
  BY DEF RadiusInv, PortTracked, MayOpen, Open, found
<1>2. \A k \in found(ea) : k = j
  BY DEF found, RadiusInv, OnePlace
<1> QED
  BY <1>1, <1>2 DEF RadiusInv, TypeOK

\* The requests with another: its Authenticator is new.
LEMMA SendKeeps ==
    ASSUME RadiusInv, NEW k \in Places, NEW ea \in Stas, Cardinality(sent) + 1 <= MaxReq,
           sent' = sent \cup {[id |-> k, vector |-> Cardinality(sent) + 1, for |-> ea]}
    PROVE  /\ SentBounded' /\ sent' \subseteq [id : Places, vector : 1..MaxReq, for : Stas]
           /\ Cardinality(sent) <= Cardinality(sent') /\ Cardinality(sent) + 1 <= Cardinality(sent')
           /\ \A m \in sent' \ sent : m.vector > Cardinality(sent)
           /\ \A m \in sent' : m.vector = Cardinality(sent) + 1 => m.for = ea
<1> DEFINE v == Cardinality(sent) + 1
           new == [id |-> k, vector |-> v, for |-> ea]
<1>1. Cardinality(sent) \in Nat /\ IsFiniteSet(sent) /\ MaxReq \in Nat
  BY FS_CardinalityType, NasRadiusAssumption DEF RadiusInv, SentBounded
<1>2. \A m \in sent : m.vector \in Nat /\ m.vector <= Cardinality(sent)
  BY DEF RadiusInv, TypeOK, SentBounded
<1>3. new.vector = v /\ new.for = ea /\ new \notin sent
  BY <1>1, <1>2
<1>4. IsFiniteSet(sent') /\ Cardinality(sent') = v
  BY <1>1, <1>3, FS_AddElement
<1>5. new \in [id : Places, vector : 1..MaxReq, for : Stas]
  BY <1>1
<1>6. sent' = sent \cup {new}
  OBVIOUS
<1> HIDE DEF new
<1>7. /\ \A m \in sent' \ sent : m.vector > Cardinality(sent)
      /\ \A m \in sent' : m.vector = Cardinality(sent) + 1 => m.for = ea
      /\ \A m \in sent' : m.vector <= Cardinality(sent')
  BY <1>1, <1>2, <1>3, <1>4, <1>6
<1>8. sent' \subseteq [id : Places, vector : 1..MaxReq, for : Stas]
  BY <1>5, <1>6 DEF RadiusInv, TypeOK
<1> QED
  BY <1>1, <1>4, <1>7, <1>8 DEF SentBounded

\* A frame or event of station ea turns its place into q, which is an entry of
\* that station, with the request it had, none, or a new one.
LEMMA LookupKeeps ==
    ASSUME RadiusInv, NEW ea \in Stas, lookup_sta(ea).k # NULL, NEW q \in Entry,
           sta' = [sta EXCEPT ![lookup_sta(ea).k] = q],
           q.used, q.ea = ea, q.state = "AUTHENTICATED" => q.by = ea,
           \/ sent' = sent /\ q.request \in {NULL, entry(ea, lookup_sta(ea).k).request}
           \/ /\ Cardinality(sent) + 1 <= MaxReq /\ q.request = Cardinality(sent) + 1
              /\ sent' = sent \cup {[id |-> lookup_sta(ea).k, vector |-> Cardinality(sent) + 1,
                                     for |-> ea]},
           clock' = clock, assoc' \subseteq Stas, port' \subseteq assoc',
           port' \subseteq port \ lookup_sta(ea).out,
           ea \in port' => MayOpen(q)
    PROVE  RadiusInv'
<1> DEFINE k == lookup_sta(ea).k
<1>1. /\ k \in Places
      /\ \A j \in Places : j # k /\ sta[j].used => sta[j].ea # ea
      /\ found(ea) # {} => sta[k].used /\ sta[k].ea = ea
      /\ found(ea) = {} /\ sta[k].used => lookup_sta(ea).out = {sta[k].ea}
  BY LookupPlace
<1>2. sta[k].used /\ sta[k].ea \in port' => ea = sta[k].ea
  BY <1>1
<1>3. /\ q.request <= Cardinality(sent')
      /\ \A m \in sent' : m.vector = q.request => m.for = ea
      /\ SentBounded' /\ sent' \subseteq [id : Places, vector : 1..MaxReq, for : Stas]
      /\ Cardinality(sent) <= Cardinality(sent')
      /\ \A m \in sent' \ sent : m.vector > Cardinality(sent)
  <2>1. Cardinality(sent) \in Nat
    BY FS_CardinalityType DEF RadiusInv, SentBounded
  <2>2. \A m \in sent : m.vector # NULL
    BY DEF RadiusInv, TypeOK, NULL
  <2>3. CASE sent' = sent /\ q.request = NULL
    BY <2>1, <2>3 DEF RadiusInv, SentBounded, TypeOK, NULL
  <2>4. CASE sent' = sent /\ q.request # NULL /\ q.request = entry(ea, k).request
    <3>1. sta[k].ea = ea /\ q.request = sta[k].request
      BY <2>4, EntryOfStation
    <3> QED
      BY <1>1, <2>1, <2>4, <3>1 DEF RadiusInv, SentBounded, TypeOK, RequestOwn
  <2>5. CASE /\ Cardinality(sent) + 1 <= MaxReq /\ q.request = Cardinality(sent) + 1
             /\ sent' = sent \cup {[id |-> k, vector |-> Cardinality(sent) + 1, for |-> ea]}
    <3> HIDE DEF k
    <3>1. /\ SentBounded' /\ sent' \subseteq [id : Places, vector : 1..MaxReq, for : Stas]
          /\ Cardinality(sent) <= Cardinality(sent') /\ Cardinality(sent) + 1 <= Cardinality(sent')
          /\ \A m \in sent' \ sent : m.vector > Cardinality(sent)
          /\ \A m \in sent' : m.vector = Cardinality(sent) + 1 => m.for = ea
      <4>1. k \in Places /\ Cardinality(sent) + 1 <= MaxReq
        BY <1>1, <2>5
      <4>2. sent' = sent \cup {[id |-> k, vector |-> Cardinality(sent) + 1, for |-> ea]}
        BY <2>5
      <4> QED
        BY <4>1, <4>2, SendKeeps, Zenon
    <3> QED
      BY <2>5, <3>1
  <2> QED
    BY <2>3, <2>4, <2>5
<1> HIDE DEF k
<1>4. sta' = [sta EXCEPT ![k] = q]
  BY DEF k
<1>5. /\ IF q.used THEN q.ea \in Stas ELSE q = Blank
      /\ \A j \in Places : j # k /\ sta[j].used /\ q.used => sta[j].ea # q.ea
      /\ q.state = "AUTHENTICATED" => q.by = q.ea
      /\ \A m \in sent' : m.vector = q.request => m.for = q.ea
      /\ \A e \in port' : e \in port \/ (q.used /\ e = q.ea)
      /\ sta[k].used /\ sta[k].ea \in port' => q.used /\ q.ea = sta[k].ea
      /\ q.used /\ q.ea \in port' => MayOpen(q)
  BY <1>1, <1>3
<1> QED
  BY <1>1, <1>3, <1>4, <1>5, UpdateEntry

-----------------------------------------------------------------------------
(* The actions *)

\* The entry that a frame meets is the station's.
LEMMA MetFields ==
    ASSUME RadiusInv, NEW ea \in Stas, NEW pre \in BOOLEAN, lookup_sta(ea).k # NULL
    PROVE  LET e == entry(ea, lookup_sta(ea).k)
               r == met(ea, pre)
           IN  /\ r \in Entry /\ r.used /\ r.ea = ea /\ r.request = e.request
               /\ r.state = e.state /\ (r.state = "AUTHENTICATED" => r.by = ea)
               /\ r.mode \in {e.mode, "WPA2"}
<1> DEFINE e == entry(ea, lookup_sta(ea).k)
<1>1. e \in Entry /\ e.used /\ e.ea = ea /\ (e.state = "AUTHENTICATED" => e.by = ea)
  BY EntryOfStation
<1> HIDE DEF e
<1>2. CASE pre
  <2>1. met(ea, pre) = [e EXCEPT !.preauth = TRUE, !.mode = "WPA2"]
    BY <1>2 DEF met, marked, e
  <2>2. /\ met(ea, pre) \in Entry /\ met(ea, pre).used /\ met(ea, pre).ea = ea
        /\ met(ea, pre).request = e.request /\ met(ea, pre).state = e.state /\ met(ea, pre).by = e.by
        /\ met(ea, pre).mode \in {e.mode, "WPA2"}
    <3> DEFINE p == [e EXCEPT !.preauth = TRUE]
    <3>1. /\ p \in Entry /\ p.used /\ p.ea = ea /\ p.request = e.request
          /\ p.state = e.state /\ p.by = e.by
      BY <1>1 DEF Entry, EntryOf
    <3>2. met(ea, pre) = [p EXCEPT !.mode = "WPA2"]
      BY <2>1 DEF Entry, EntryOf
    <3> HIDE DEF p
    <3> QED
      BY <3>1, <3>2, Values DEF Entry, EntryOf
  <2> QED
    BY <1>1, <2>2 DEF e
<1>3. CASE ~pre
  <2>1. met(ea, pre) = [e EXCEPT !.preauth = FALSE]
    BY <1>3 DEF met, marked, e
  <2>2. /\ met(ea, pre) \in Entry /\ met(ea, pre).used /\ met(ea, pre).ea = ea
        /\ met(ea, pre).request = e.request /\ met(ea, pre).state = e.state /\ met(ea, pre).by = e.by
        /\ met(ea, pre).mode \in {e.mode, "WPA2"}
    BY <1>1, <2>1 DEF Entry, EntryOf
  <2> QED
    BY <1>1, <2>2 DEF e
<1> QED
  BY <1>2, <1>3

\* A station with an open port has its own place, in a state with an open port.
LEMMA EntryOpen ==
    ASSUME RadiusInv, NEW ea \in port, lookup_sta(ea).k # NULL
    PROVE  MayOpen(entry(ea, lookup_sta(ea).k))
<1> DEFINE k == lookup_sta(ea).k
<1>1. ea \in Stas /\ found(ea) # {} /\ \A j \in found(ea) : MayOpen(sta[j])
  BY PortOpen
<1>2. k \in Places /\ sta[k].used /\ sta[k].ea = ea
  BY <1>1, LookupPlace
<1>3. entry(ea, k).state = sta[k].state /\ entry(ea, k).mode = sta[k].mode /\ entry(ea, k).ea = ea
  BY <1>1, EntryOfStation
<1> HIDE DEF k
<1>4. MayOpen(sta[k])
  BY <1>1, <1>2 DEF found
<1> QED
  BY <1>2, <1>3, <1>4 DEF k, MayOpen

\* The same of the entry that a frame meets.
LEMMA MetOpen ==
    ASSUME RadiusInv, NEW ea \in port, NEW pre \in BOOLEAN, lookup_sta(ea).k # NULL
    PROVE  MayOpen(met(ea, pre))
<1>1. MayOpen(entry(ea, lookup_sta(ea).k)) /\ ea \in Stas
  BY EntryOpen, PortOpen
<1> QED
  BY <1>1, MetFields, EntryOfStation DEF MayOpen

\* eapol_dispatch of a frame that turns the entry into r.
LEMMA DispatchKeeps ==
    ASSUME RadiusInv, NEW ea \in Stas, NEW pre \in BOOLEAN, NEW r \in Entry, eapol_dispatch(ea, pre, r),
           r.used, r.ea = ea, r.state = "AUTHENTICATED" => r.by = ea,
           \/ sent' = sent /\ r.request \in {NULL, entry(ea, lookup_sta(ea).k).request}
           \/ sent' = sent /\ Dropped(ea, pre)
           \/ /\ ~Dropped(ea, pre) /\ Cardinality(sent) + 1 <= MaxReq /\ r.request = Cardinality(sent) + 1
              /\ sent' = sent \cup {[id |-> lookup_sta(ea).k, vector |-> Cardinality(sent) + 1,
                                     for |-> ea]},
           clock' = clock, port' \subseteq port \ lookup_sta(ea).out,
           ea \in port' => Dropped(ea, pre) \/ MayOpen(r)
    PROVE  RadiusInv'
<1> DEFINE e == entry(ea, lookup_sta(ea).k)
           q == IF Dropped(ea, pre) THEN e ELSE r
<1>1. lookup_sta(ea).k # NULL /\ sta' = [sta EXCEPT ![lookup_sta(ea).k] = q]
      /\ assoc' = assoc \ lookup_sta(ea).out
  BY DEF eapol_dispatch
<1>2. e \in Entry /\ e.used /\ e.ea = ea /\ (e.state = "AUTHENTICATED" => e.by = ea)
  BY <1>1, EntryOfStation
<1>3. q \in Entry /\ q.used /\ q.ea = ea /\ (q.state = "AUTHENTICATED" => q.by = ea)
  BY <1>2
<1>4. ea \in port' => MayOpen(q)
  <2> SUFFICES ASSUME ea \in port' PROVE MayOpen(q)
    OBVIOUS
  <2>1. MayOpen(e)
    BY <1>1, EntryOpen
  <2> QED
    BY <2>1
<1>5. assoc' \subseteq Stas /\ port' \subseteq assoc'
  BY <1>1 DEF RadiusInv, TypeOK
<1>6. \/ sent' = sent /\ q.request \in {NULL, e.request}
      \/ /\ Cardinality(sent) + 1 <= MaxReq /\ q.request = Cardinality(sent) + 1
         /\ sent' = sent \cup {[id |-> lookup_sta(ea).k, vector |-> Cardinality(sent) + 1,
                                for |-> ea]}
  OBVIOUS
<1>7. sta' = [sta EXCEPT ![lookup_sta(ea).k] = q]
  BY <1>1
<1> HIDE DEF q
<1> QED
  BY <1>1, <1>3, <1>4, <1>5, <1>6, <1>7, LookupKeeps

\* EAPOL_START.
LEMMA RxStartKeeps ==
    ASSUME RadiusInv, NEW ea \in Stas, NEW pre \in BOOLEAN, RxStart(ea, pre)
    PROVE  RadiusInv'
<1> DEFINE r == start(met(ea, pre))
<1>1. lookup_sta(ea).k # NULL /\ eapol_dispatch(ea, pre, r)
  BY DEF RxStart, eapol_dispatch
<1>2. Follows(met(ea, pre), r) /\ r.state = "CONNECTING"
  BY <1>1, MetFields, StartFollows
<1>3. /\ r \in Entry /\ r.used /\ r.ea = ea /\ r.state = "CONNECTING"
      /\ r.request \in {NULL, entry(ea, lookup_sta(ea).k).request}
  BY <1>1, <1>2, MetFields DEF Follows
<1> HIDE DEF r
<1> QED
  BY <1>1, <1>3, DispatchKeeps DEF RxStart, MayOpen, Open

\* EAPOL_LOGOFF, which closes the port.
LEMMA RxLogoffKeeps ==
    ASSUME RadiusInv, NEW ea \in Stas, NEW pre \in BOOLEAN, RxLogoff(ea, pre)
    PROVE  RadiusInv'
<1> DEFINE r == logoff(met(ea, pre))
<1>1. lookup_sta(ea).k # NULL /\ eapol_dispatch(ea, pre, r)
  BY DEF RxLogoff, eapol_dispatch
<1>2. Follows(met(ea, pre), r) /\ r.state = "CONNECTING"
  BY <1>1, MetFields, StartFollows
<1>3. /\ r \in Entry /\ r.used /\ r.ea = ea /\ r.state = "CONNECTING"
      /\ r.request \in {NULL, entry(ea, lookup_sta(ea).k).request}
  BY <1>1, <1>2, MetFields DEF Follows
<1> HIDE DEF r
<1> QED
  BY <1>1, <1>3, DispatchKeeps DEF RxLogoff, MayOpen, Open

\* A frame that changes nothing but the entry's time of use.
LEMMA RxIgnoredKeeps ==
    ASSUME RadiusInv, NEW ea \in Stas, NEW pre \in BOOLEAN, eapol_dispatch(ea, pre, met(ea, pre)),
           port' = port \ lookup_sta(ea).out, UNCHANGED <<clock, sent>>
    PROVE  RadiusInv'
<1> DEFINE r == met(ea, pre)
<1>1. lookup_sta(ea).k # NULL
  BY DEF eapol_dispatch
<1>2. /\ r \in Entry /\ r.used /\ r.ea = ea /\ r.state = entry(ea, lookup_sta(ea).k).state
      /\ r.request = entry(ea, lookup_sta(ea).k).request
      /\ r.state = "AUTHENTICATED" => r.by = ea
  BY <1>1, MetFields
<1>3. ea \in port' => MayOpen(r)
  BY <1>1, MetOpen
<1> HIDE DEF r
<1>4. eapol_dispatch(ea, pre, r)
  BY DEF r
<1> QED
  BY <1>2, <1>3, <1>4, DispatchKeeps

\* radius_forward: a request is kept only if it was sent, for this station.
LEMMA ForwardKeeps ==
    ASSUME RadiusInv, NEW ea \in Stas, NEW pre \in BOOLEAN, NEW ok \in BOOLEAN, NEW r \in Entry,
           radius_forward(ea, pre, r, ok), r.used, r.ea = ea, r.state = "AUTHENTICATED" => r.by = ea,
           ea \in port' => MayOpen(r),
           port' = port \ lookup_sta(ea).out, clock' = clock
    PROVE  RadiusInv'
<1> DEFINE v == Cardinality(sent) + 1
           q == [r EXCEPT !.request = IF ok THEN v ELSE NULL]
<1>1. eapol_dispatch(ea, pre, q)
  BY DEF radius_forward
<1>2. Cardinality(sent) \in Nat /\ (ok => v <= MaxReq)
  BY FS_CardinalityType DEF RadiusInv, SentBounded, radius_forward
<1>3. (IF ok THEN v ELSE NULL) \in Requests
  BY <1>2, NasRadiusAssumption DEF Requests, NULL
<1>4. /\ q \in Entry /\ q.used /\ q.ea = ea /\ q.state = r.state /\ q.by = r.by /\ q.mode = r.mode
      /\ q.request = IF ok THEN v ELSE NULL
  BY <1>3 DEF Entry, EntryOf
<1>5. \/ sent' = sent /\ q.request \in {NULL, entry(ea, lookup_sta(ea).k).request}
      \/ sent' = sent /\ Dropped(ea, pre)
      \/ /\ ~Dropped(ea, pre) /\ Cardinality(sent) + 1 <= MaxReq /\ q.request = Cardinality(sent) + 1
         /\ sent' = sent \cup {[id |-> lookup_sta(ea).k, vector |-> Cardinality(sent) + 1,
                                for |-> ea]}
  BY DEF radius_forward
<1>6. ea \in port' => MayOpen(q)
  BY <1>4 DEF MayOpen
<1> HIDE DEF q
<1> QED
  BY <1>1, <1>4, <1>5, <1>6, DispatchKeeps

\* An EAP identity response starts an authentication, unless one is under way.
LEMMA RxIdentityKeeps ==
    ASSUME RadiusInv, NEW ea \in Stas, NEW pre \in BOOLEAN, NEW ok \in BOOLEAN,
           RxIdentity(ea, pre, ok)
    PROVE  RadiusInv'
<1> DEFINE r == pae_state(met(ea, pre), "AUTHENTICATING")
<1>1. CASE radius_forward(ea, pre, r, ok)
  <2>1. lookup_sta(ea).k # NULL
    BY <1>1 DEF radius_forward, eapol_dispatch
  <2>2. Follows(met(ea, pre), r) /\ r.state = "AUTHENTICATING"
    BY <2>1, MetFields, PaeFollows
  <2>3. r \in Entry /\ r.used /\ r.ea = ea /\ r.state = "AUTHENTICATING"
    BY <2>1, <2>2, MetFields DEF Follows
  <2> HIDE DEF r
  <2> QED
    BY <1>1, <2>3, ForwardKeeps DEF RxIdentity, MayOpen, Open
<1>2. CASE eapol_dispatch(ea, pre, met(ea, pre)) /\ UNCHANGED sent
  BY <1>2, RxIgnoredKeeps DEF RxIdentity
<1> QED
  BY <1>1, <1>2 DEF RxIdentity

\* Any other EAP packet is forwarded.
LEMMA RxEapKeeps ==
    ASSUME RadiusInv, NEW ea \in Stas, NEW pre \in BOOLEAN, NEW ok \in BOOLEAN,
           RxEap(ea, pre, ok)
    PROVE  RadiusInv'
<1>1. lookup_sta(ea).k # NULL
  BY DEF RxEap, radius_forward, eapol_dispatch
<1>2. ea \in port' => MayOpen(met(ea, pre))
  BY <1>1, MetOpen DEF RxEap
<1> QED
  BY <1>1, <1>2, MetFields, ForwardKeeps DEF RxEap

\* The driver reports an association, which makes the place q: nothing, or an
\* entry of the station, which has its port open only if it may.
LEMMA AssociatedKeeps ==
    ASSUME RadiusInv, NEW ea \in Stas, lookup_sta(ea).k # NULL, NEW q,
           sta' = [sta EXCEPT ![lookup_sta(ea).k] = q], UNCHANGED <<clock, sent>>,
           assoc' \subseteq Stas, port' \subseteq assoc', port' \subseteq (port \ lookup_sta(ea).out) \cup {ea},
           \/ q = Blank
           \/ /\ q \in Entry /\ q.used /\ q.ea = ea
              /\ q.request \in {NULL, entry(ea, lookup_sta(ea).k).request}
              /\ q.state = "AUTHENTICATED" => q.by = ea,
           ea \in port' => q.used /\ MayOpen(q)
    PROVE  RadiusInv'
<1> DEFINE l == lookup_sta(ea)
<1>1. /\ l.k \in Places
      /\ \A j \in Places : j # l.k /\ sta[j].used => sta[j].ea # ea
      /\ found(ea) = {} /\ sta[l.k].used => l.out = {sta[l.k].ea} /\ sta[l.k].ea # ea
      /\ found(ea) # {} => sta[l.k].used /\ sta[l.k].ea = ea
  BY LookupPlace
<1>2. CASE q = Blank
  <2>1. ea \notin port'
    BY <1>2 DEF Blank
  <2>2. ~(sta[l.k].used /\ sta[l.k].ea \in port')
    BY <1>1, <2>1
  <2> HIDE DEF l
  <2>3. l.k \in Places /\ sta' = [sta EXCEPT ![l.k] = Blank] /\ port' \subseteq port
    BY <1>1, <1>2, <2>1 DEF l
  <2> QED
    BY <2>2, <2>3, BlankKeeps
<1>3. CASE q # Blank
  <2>1. /\ q \in Entry /\ q.used /\ q.ea = ea /\ (q.state = "AUTHENTICATED" => q.by = ea)
        /\ q.request \in {NULL, entry(ea, l.k).request}
    BY <1>3
  <2>2. /\ q.request <= Cardinality(sent)
        /\ \A m \in sent : m.vector = q.request => m.for = ea
    <3>1. Cardinality(sent) \in Nat /\ \A m \in sent : m.vector # NULL
      BY FS_CardinalityType DEF RadiusInv, SentBounded, TypeOK, NULL
    <3>2. q.request # NULL => q.request = sta[l.k].request /\ sta[l.k].ea = ea
      BY <2>1, EntryOfStation
    <3> HIDE DEF l
    <3> QED
      BY <1>1, <3>1, <3>2 DEF RadiusInv, RequestOwn, NULL
  <2>3. /\ SentBounded' /\ sent' \subseteq [id : Places, vector : 1..MaxReq, for : Stas]
        /\ Cardinality(sent) <= Cardinality(sent')
        /\ \A m \in sent' \ sent : m.vector > Cardinality(sent)
    BY FS_CardinalityType DEF RadiusInv, SentBounded, TypeOK
  <2>4. /\ \A j \in Places : j # l.k /\ sta[j].used /\ q.used => sta[j].ea # q.ea
        /\ \A e \in port' : e \in port \/ (q.used /\ e = q.ea)
        /\ sta[l.k].used /\ sta[l.k].ea \in port' => q.used /\ q.ea = sta[l.k].ea
        /\ q.used /\ q.ea \in port' => MayOpen(q)
    BY <1>1, <2>1
  <2>5. /\ q.request <= Cardinality(sent')
        /\ \A m \in sent' : m.vector = q.request => m.for = q.ea
        /\ IF q.used THEN q.ea \in Stas ELSE q = Blank
        /\ q.state = "AUTHENTICATED" => q.by = q.ea
    BY <2>1, <2>2
  <2>6. l.k \in Places /\ sta' = [sta EXCEPT ![l.k] = q] /\ clock' = clock
    BY <1>1
  <2> HIDE DEF l
  <2> QED
    BY <2>1, <2>3, <2>4, <2>5, <2>6, UpdateEntry
<1> QED
  BY <1>2, <1>3

\* An association with an IE, or refused for want of one: the port starts closed.
LEMMA AssocKeeps ==
    ASSUME RadiusInv, NEW ea \in Stas, NEW kind \in Kinds[ea], NEW pmkc \in BOOLEAN,
           NEW o \in Outcomes, Assoc(ea, kind, pmkc, o)
    PROVE  RadiusInv'
<1> DEFINE l == lookup_sta(ea)
           e == entry(ea, l.k)
           w == [e EXCEPT !.mode = kind]
           q == CASE o = "ill" -> cleanup_sta(e)
                  [] o \in {"unsent", "tossed"} -> cleanup_sta(w)
                  [] kind = "PSK" \/ (pmkc /\ w.ssnto > 0) -> w
                  [] OTHER -> send_identity_req(w)
<1>1. /\ l.k # NULL /\ sta' = [sta EXCEPT ![l.k] = q] /\ UNCHANGED <<clock, sent>>
      /\ assoc' = (IF o = "tossed" THEN assoc \ (l.out \cup {ea}) ELSE (assoc \ l.out) \cup {ea})
      /\ port' = port \ (l.out \cup {ea})
  BY DEF Assoc
<1>2. /\ e \in Entry /\ e.used /\ e.ea = ea /\ (e.state = "AUTHENTICATED" => e.by = ea)
  BY <1>1, EntryOfStation
<1>3. assoc' \subseteq Stas /\ port' \subseteq assoc' /\ port' \subseteq (port \ l.out) \cup {ea} /\ ea \notin port'
  BY <1>1 DEF RadiusInv, TypeOK
<1>4. kind \in Modes
  BY NasRadiusAssumption DEF Modes
<1> HIDE DEF e
<1>5. /\ w \in Entry /\ w.used /\ w.ea = ea /\ w.request = e.request
      /\ w.state = "AUTHENTICATED" => w.by = ea
  BY <1>2, <1>4 DEF Entry, EntryOf
<1> HIDE DEF w
<1>6. Follows(w, send_identity_req(w))
  BY <1>5, AskedFollows
<1>7. q \in {e, w, send_identity_req(w), Blank}
  BY DEF cleanup_sta
<1>8. \/ q = Blank
      \/ /\ q \in Entry /\ q.used /\ q.ea = ea /\ q.request \in {NULL, e.request}
         /\ q.state = "AUTHENTICATED" => q.by = ea
  <2> HIDE DEF q
  <2> QED
    BY <1>2, <1>5, <1>6, <1>7 DEF Follows
<1> HIDE DEF q
<1> QED
  BY <1>1, <1>3, <1>8, AssociatedKeeps DEF e

\* One without an IE: the port opens at once if nas does no 802.1X.
LEMMA AssocWepKeeps ==
    ASSUME RadiusInv, NEW ea \in Stas, AssocWep(ea)
    PROVE  RadiusInv'
<1> DEFINE l == lookup_sta(ea)
           e == entry(ea, l.k)
           w == [e EXCEPT !.mode = "RADIUS"]
           q == IF CheckNas /\ ~AtOnce THEN w ELSE e
<1>1. /\ l.k # NULL /\ sta' = [sta EXCEPT ![l.k] = q] /\ UNCHANGED <<clock, sent>>
      /\ assoc' = (assoc \ l.out) \cup {ea} /\ "NONE" \in Kinds[ea]
      /\ port' = (port \ (l.out \cup {ea})) \cup (IF AtOnce THEN {ea} ELSE {})
  BY DEF AssocWep
<1>2. /\ e \in Entry /\ e.used /\ e.ea = ea /\ (e.state = "AUTHENTICATED" => e.by = ea)
  BY <1>1, EntryOfStation
<1>3. /\ assoc' \subseteq Stas /\ port' \subseteq assoc' /\ port' \subseteq (port \ l.out) \cup {ea}
      /\ ea \in port' => AtOnce
  <2>1. l.out \subseteq Stas \ {ea}
    BY <1>1, LookupPlace
  <2> QED
    BY <1>1, <2>1 DEF RadiusInv, TypeOK
<1> HIDE DEF e
<1>4. /\ w \in Entry /\ w.used /\ w.ea = ea /\ w.request = e.request
      /\ w.state = "AUTHENTICATED" => w.by = ea
  BY <1>2, Values DEF Entry, EntryOf
<1> HIDE DEF w
<1>5. /\ q \in Entry /\ q.used /\ q.ea = ea /\ q.request \in {NULL, e.request}
      /\ q.state = "AUTHENTICATED" => q.by = ea
  BY <1>2, <1>4
<1>6. ea \in port' => q.used /\ MayOpen(q)
  BY <1>1, <1>3, <1>5 DEF MayOpen
<1> HIDE DEF q
<1> QED
  BY <1>1, <1>3, <1>5, <1>6, AssociatedKeeps DEF e

\* The driver's report that a station left: its port closes.
LEMMA DisassocKeeps ==
    ASSUME RadiusInv, NEW ea \in Stas, Disassoc(ea)
    PROVE  RadiusInv'
<1>1. sta \in [Places -> Entry] /\ clock \in Clocks
  BY TableTyped
<1>2. /\ assoc' \subseteq Stas /\ port' \subseteq assoc' /\ port' \subseteq port
      /\ ea \notin port' /\ UNCHANGED <<clock, sent>>
  BY DEF Disassoc, RadiusInv, TypeOK
<1>3. CASE found(ea) = {}
  <2>1. sta' = sta
    BY <1>1, <1>3 DEF Disassoc
  <2> QED
    BY <1>2, <2>1 DEF RadiusInv, TypeOK, EntriesSane, OnePlace, SentBounded, RequestOwn,
       AcceptedIsOwn, PortTracked, found
<1>4. ASSUME NEW k \in found(ea) PROVE RadiusInv'
  <2> DEFINE q == [sta[k] EXCEPT !.last = clock]
  <2>1. k \in Places /\ sta[k].used /\ sta[k].ea = ea
    BY DEF found
  <2>2. found(ea) = {k}
    BY DEF RadiusInv, OnePlace, found
  <2>3. sta' = [sta EXCEPT ![k] = cleanup_sta(q)]
    BY <1>1, <2>1, <2>2 DEF Disassoc
  <2>4. /\ q \in Entry /\ q.used /\ q.ea = ea /\ q.request = sta[k].request
        /\ q.state = sta[k].state /\ q.by = sta[k].by
    BY <1>1, <2>1 DEF Entry, EntryOf
  <2> HIDE DEF q
  <2>5. q.state = "AUTHENTICATED" => q.by = q.ea
    BY <2>1, <2>4 DEF RadiusInv, AcceptedIsOwn
  <2>6. CASE cleanup_sta(q) = q
    BY <1>2, <2>1, <2>3, <2>4, <2>5, <2>6, SamePlaceKeeps
  <2>7. CASE cleanup_sta(q) = Blank
    BY <1>2, <2>1, <2>3, <2>7, BlankKeeps
  <2> QED
    BY <2>6, <2>7 DEF cleanup_sta
<1> QED
  BY <1>3, <1>4

\* A handshake that ends well opens the port of a station with the keys.
LEMMA HandshakeDoneKeeps ==
    ASSUME RadiusInv, NEW k \in Places, HandshakeDone(k)
    PROVE  RadiusInv'
<1> DEFINE q == [sta[k] EXCEPT !.last = clock]
<1>1. sta \in [Places -> Entry] /\ clock \in Clocks
  BY TableTyped
<1>2. /\ sta' = [sta EXCEPT ![k] = q] /\ sta[k].used /\ sta[k].mode \in {"WPA2", "PSK"}
      /\ sta[k].state \in {"AUTHENTICATED", "INITIALIZE"}
  BY DEF HandshakeDone, Handshaking
<1>3. /\ q \in Entry /\ q.used /\ q.ea = sta[k].ea /\ q.request = sta[k].request
      /\ q.state = sta[k].state /\ q.by = sta[k].by /\ q.mode = sta[k].mode
  BY <1>1, <1>2 DEF Entry, EntryOf
<1>4. /\ assoc' \subseteq Stas /\ port' \subseteq assoc' /\ UNCHANGED <<clock, sent>>
      /\ port' \subseteq port \cup {sta[k].ea}
  BY DEF HandshakeDone, authorize, RadiusInv, TypeOK
<1>5. q.state = "AUTHENTICATED" => q.by = q.ea
  BY <1>3 DEF RadiusInv, AcceptedIsOwn
<1>6. MayOpen(q)
  BY <1>2, <1>3 DEF MayOpen, Open
<1> HIDE DEF q
<1> QED
  BY <1>2, <1>3, <1>4, <1>5, <1>6, SamePlaceKeeps

\* One that fails closes it.
LEMMA HandshakeFailsKeeps ==
    ASSUME RadiusInv, NEW k \in Places, NEW t \in BOOLEAN, HandshakeFails(k, t)
    PROVE  RadiusInv'
<1> DEFINE q == IF t THEN [sta[k] EXCEPT !.ssnto = 0] ELSE [sta[k] EXCEPT !.last = clock]
<1>1. sta \in [Places -> Entry] /\ clock \in Clocks
  BY TableTyped
<1>2. sta' = [sta EXCEPT ![k] = cleanup_sta(q)] /\ sta[k].used
  BY DEF HandshakeFails, Handshaking
<1>3. /\ q \in Entry /\ q.used /\ q.ea = sta[k].ea /\ q.request = sta[k].request
      /\ q.state = sta[k].state /\ q.by = sta[k].by
  BY <1>1, <1>2, Values DEF Entry, EntryOf
<1>4. /\ assoc' \subseteq Stas /\ port' \subseteq assoc' /\ UNCHANGED <<clock, sent>>
      /\ port' \subseteq port /\ sta[k].ea \notin port'
  BY DEF HandshakeFails, RadiusInv, TypeOK
<1>5. q.state = "AUTHENTICATED" => q.by = q.ea
  BY DEF RadiusInv, AcceptedIsOwn
<1> HIDE DEF q
<1>6. CASE cleanup_sta(q) = q
  BY <1>2, <1>3, <1>4, <1>5, <1>6, SamePlaceKeeps
<1>7. CASE cleanup_sta(q) = Blank
  BY <1>2, <1>4, <1>7, BlankKeeps
<1> QED
  BY <1>6, <1>7 DEF cleanup_sta

\* The server's Access-Accept of a request of this station authenticates it; a key
\* that cannot be delivered clears the place.
LEMMA AcceptedFields ==
    ASSUME NEW r \in Entry, r.used, NEW m, m.for = r.ea, NEW keys \in BOOLEAN, NEW ok \in BOOLEAN
    PROVE  LET q == [accepted(r, m, keys, ok, SsnTo) EXCEPT !.request = NULL] IN
           \/ /\ q \in Entry /\ q.used /\ q.ea = r.ea /\ q.request = NULL
              /\ q.state = "AUTHENTICATED" /\ q.by = r.ea
           \/ q = Blank /\ keys /\ ~ok /\ ~(r.mode = "WPA2" /\ r.preauth)
<1> DEFINE a == [pae_state(r, "AUTHENTICATED") EXCEPT !.ssnto = SsnTo, !.by = m.for]
           q == [accepted(r, m, keys, ok, SsnTo) EXCEPT !.request = NULL]
<1>1. a = [r EXCEPT !.state = "AUTHENTICATED", !.rxauths = 0, !.timer = 0, !.ssnto = SsnTo,
                    !.by = r.ea]
  BY DEF pae_state, EntryOf
<1>2. accepted(r, m, keys, ok, SsnTo) =
          IF ~keys THEN a
          ELSE IF a.mode = "WPA2" /\ a.preauth THEN [a EXCEPT !.preauth = FALSE]
          ELSE IF ok THEN a ELSE cleanup_sta(a)
  BY DEF accepted
<1> HIDE DEF a
<1>3. /\ a \in Entry /\ a.used /\ a.ea = r.ea /\ a.state = "AUTHENTICATED" /\ a.by = r.ea
      /\ a.mode = r.mode /\ a.preauth = r.preauth
  BY <1>1, Values DEF Entry, EntryOf, States
<1>4. CASE accepted(r, m, keys, ok, SsnTo) = a
  BY <1>3, <1>4, Values DEF Entry, EntryOf
<1>5. CASE accepted(r, m, keys, ok, SsnTo) = [a EXCEPT !.preauth = FALSE]
  <2> DEFINE b == [a EXCEPT !.preauth = FALSE]
  <2>1. b \in Entry /\ b.used /\ b.ea = r.ea /\ b.state = "AUTHENTICATED" /\ b.by = r.ea
    BY <1>3 DEF Entry, EntryOf
  <2>2. q = [b EXCEPT !.request = NULL]
    BY <1>5
  <2> HIDE DEF b, q
  <2>3. /\ q \in Entry /\ q.used /\ q.ea = r.ea /\ q.request = NULL
        /\ q.state = "AUTHENTICATED" /\ q.by = r.ea
    BY <2>1, <2>2, Values DEF Entry, EntryOf
  <2> QED
    BY <2>3 DEF q
<1>6. CASE /\ accepted(r, m, keys, ok, SsnTo) = Blank
           /\ keys /\ ~ok /\ ~(r.mode = "WPA2" /\ r.preauth)
  <2>1. q = [Blank EXCEPT !.request = NULL]
    BY <1>6
  <2>2. \A b \in Entry : b.request = NULL => [b EXCEPT !.request = NULL] = b
    BY DEF Entry, EntryOf
  <2> QED
    BY <1>6, <2>1, <2>2, BlankEntry
<1> QED
  BY <1>2, <1>3, <1>4, <1>5, <1>6 DEF cleanup_sta

\* An answer of the server: one that authenticates a station answers the request
\* that its place holds now, by the Request Authenticator.
LEMMA RadiusDispatchKeeps ==
    ASSUME RadiusInv, NEW m \in sent, NEW code \in Codes, NEW eap \in BOOLEAN,
           NEW signed \in BOOLEAN, NEW keys \in BOOLEAN, NEW ok \in BOOLEAN,
           RadiusDispatch(m, code, eap, signed, keys, ok)
    PROVE  RadiusInv'
<1> DEFINE k == m.id
           r == [sta[k] EXCEPT !.success = @ \/ eap]
           n == [r EXCEPT !.request = NULL]
           h == pae_state(r, "HELD")
           c == [accepted(r, m, keys, ok, SsnTo) EXCEPT !.request = NULL]
<1>1. k \in Places /\ sta \in [Places -> Entry] /\ sta[k].used
  BY TableTyped DEF RadiusDispatch, RadiusInv, TypeOK
<1>2. /\ r \in Entry /\ r.used /\ r.ea = sta[k].ea /\ r.request = sta[k].request
      /\ r.state = sta[k].state /\ r.by = sta[k].by /\ r.mode = sta[k].mode
  <2>1. (sta[k].success \/ eap) \in BOOLEAN
    OBVIOUS
  <2> QED
    BY <1>1 DEF Entry, EntryOf
<1>3. UNCHANGED <<clock, sent>> /\ assoc \subseteq Stas /\ port \subseteq assoc
  BY DEF RadiusDispatch, RadiusInv, TypeOK
<1>4. CASE sta' = [sta EXCEPT ![k] = n] /\ UNCHANGED <<assoc, port>>
  <2>1. n \in Entry /\ n.used /\ n.ea = sta[k].ea /\ n.request = NULL /\ n.state = sta[k].state
        /\ n.by = sta[k].by /\ n.mode = sta[k].mode
    <3> HIDE DEF r
    <3> QED
      BY <1>2, Values DEF Entry, EntryOf
  <2>2. n.state = "AUTHENTICATED" => n.by = n.ea
    BY <1>1 DEF RadiusInv, AcceptedIsOwn
  <2>3. sta[k].ea \in port => MayOpen(n)
    <3>1. sta[k].ea \in port => MayOpen(sta[k])
      BY <1>1, PortOpen DEF found
    <3> QED
      BY <2>1, <3>1 DEF MayOpen
  <2> HIDE DEF n, k
  <2> QED
    BY <1>1, <1>3, <1>4, <2>1, <2>2, <2>3, SamePlaceKeeps
<1>5. CASE /\ \/ sta' = [sta EXCEPT ![k] = [h EXCEPT !.request = NULL]]
              \/ sta' = [sta EXCEPT ![k] = [h EXCEPT !.request = NULL, !.ssnto = 0]]
           /\ port' = port \ {r.ea} /\ UNCHANGED assoc
  <2>1. Follows(r, h) /\ h.state = "HELD"
    BY <1>2, PaeFollows
  <2> HIDE DEF h, k, r
  <2>2. ASSUME NEW q, q = [h EXCEPT !.request = NULL] \/ q = [h EXCEPT !.request = NULL, !.ssnto = 0]
        PROVE  q \in Entry /\ q.used /\ q.ea = sta[k].ea /\ q.request = NULL /\ q.state = "HELD"
    BY <1>2, <2>1, <2>2, Values DEF Follows, Entry, EntryOf
  <2>3. PICK q : /\ q = [h EXCEPT !.request = NULL] \/ q = [h EXCEPT !.request = NULL, !.ssnto = 0]
                 /\ sta' = [sta EXCEPT ![k] = q]
    BY <1>5
  <2> QED
    BY <1>1, <1>2, <1>3, <1>5, <2>2, <2>3, SamePlaceKeeps
<1>6. CASE /\ signed /\ authentic(m, r) /\ sta' = [sta EXCEPT ![k] = c]
           /\ assoc' = IF keys /\ ~ok /\ ~(r.mode = "WPA2" /\ r.preauth) THEN assoc \ {r.ea}
                       ELSE assoc
           /\ port' = IF keys /\ r.mode # "WPA2" THEN authorize({r.ea}) \cap assoc'
                      ELSE port \cap assoc'
  <2>1. m.for = r.ea
    BY <1>1, <1>6 DEF authentic, RadiusInv, RequestOwn
  <2>2. /\ assoc' \subseteq Stas /\ port' \subseteq assoc' /\ port' \subseteq port \cup {r.ea}
    BY <1>3, <1>6 DEF authorize
  <2> HIDE DEF r, k
  <2>3. \/ /\ c \in Entry /\ c.used /\ c.ea = r.ea /\ c.request = NULL
           /\ c.state = "AUTHENTICATED" /\ c.by = r.ea
        \/ c = Blank /\ keys /\ ~ok /\ ~(r.mode = "WPA2" /\ r.preauth)
    BY <1>2, <2>1, AcceptedFields
  <2> HIDE DEF c
  <2>4. CASE /\ c \in Entry /\ c.used /\ c.ea = r.ea /\ c.request = NULL
             /\ c.state = "AUTHENTICATED" /\ c.by = r.ea
    BY <1>1, <1>2, <1>3, <1>6, <2>2, <2>4, SamePlaceKeeps DEF MayOpen, Open
  <2>5. CASE c = Blank /\ keys /\ ~ok /\ ~(r.mode = "WPA2" /\ r.preauth)
    <3>1. sta[k].ea \notin port' /\ port' \subseteq port
      BY <1>2, <1>6, <2>2, <2>5
    <3> QED
      BY <1>1, <1>3, <1>6, <2>2, <2>5, <3>1, BlankKeeps
  <2> QED
    BY <2>3, <2>4, <2>5
<1>7. CASE code = "ACCEPT"
  BY <1>4, <1>5, <1>6, <1>7 DEF RadiusDispatch
<1>8. CASE code = "REJECT"
  BY <1>4, <1>5, <1>8 DEF RadiusDispatch
<1>9. CASE code = "CHALLENGE"
  BY <1>4, <1>9 DEF RadiusDispatch
<1> QED
  BY <1>7, <1>8, <1>9 DEF Codes

\* A second passes: entries follow, and no port closes.
LEMMA WatchdogKeeps ==
    ASSUME RadiusInv, nas_watchdog
    PROVE  RadiusInv'
<1>1. sta \in [Places -> Entry]
  BY TableTyped
<1>2. /\ UNCHANGED <<clock, sent, assoc, port>>
      /\ sta' = [k \in Places |-> IF sta[k].used THEN watched(sta[k]) ELSE sta[k]]
  BY DEF nas_watchdog
<1>3. \A k \in Places : /\ sta'[k] \in Entry
                        /\ sta'[k].used = sta[k].used /\ sta'[k].ea = sta[k].ea
                        /\ sta'[k].request \in {sta[k].request, NULL}
                        /\ ~sta[k].used => sta'[k] = sta[k]
                        /\ sta'[k].state = "AUTHENTICATED" => sta'[k].by = sta[k].ea
                        /\ MayOpen(sta[k]) => MayOpen(sta'[k])
  <2> SUFFICES ASSUME NEW k \in Places
               PROVE  /\ sta'[k] \in Entry
                      /\ sta'[k].used = sta[k].used /\ sta'[k].ea = sta[k].ea
                      /\ sta'[k].request \in {sta[k].request, NULL}
                      /\ ~sta[k].used => sta'[k] = sta[k]
                      /\ sta'[k].state = "AUTHENTICATED" => sta'[k].by = sta[k].ea
                      /\ MayOpen(sta[k]) => MayOpen(sta'[k])
    OBVIOUS
  <2>1. sta[k] \in Entry /\ (sta[k].state = "AUTHENTICATED" => sta[k].by = sta[k].ea)
    BY <1>1 DEF RadiusInv, AcceptedIsOwn
  <2>2. CASE sta[k].used
    <3>1. sta'[k] = watched(sta[k])
      BY <1>2, <2>2
    <3>2. Follows(sta[k], sta'[k]) /\ (MayOpen(sta[k]) => MayOpen(sta'[k]))
      BY <2>1, <3>1, WatchedFollows DEF RadiusInv
    <3> QED
      BY <2>1, <2>2, <3>2 DEF Follows
  <2>3. CASE ~sta[k].used
    BY <1>2, <2>1, <2>3
  <2> QED
    BY <2>2, <2>3
<1>4. TypeOK'
  <2>1. sta' \in [Places -> Entry]
    BY <1>2, <1>3
  <2> QED
    BY <1>2, <2>1 DEF RadiusInv, TypeOK, Clocks, Entry, EntryOf, States, Addresses,
       Retries, Requests, Sessions, Modes
<1>5. EntriesSane' /\ OnePlace' /\ AcceptedIsOwn'
  BY <1>3 DEF RadiusInv, EntriesSane, OnePlace, AcceptedIsOwn
<1>6. SentBounded' /\ RequestOwn'
  <2>1. Cardinality(sent) \in Nat /\ \A m \in sent : m.vector # NULL
    BY FS_CardinalityType DEF RadiusInv, SentBounded, TypeOK, NULL
  <2> QED
    BY <1>2, <1>3, <2>1 DEF RadiusInv, SentBounded, RequestOwn, NULL
<1>7. PortTracked'
  BY <1>2, <1>3 DEF RadiusInv, PortTracked, found, MayOpen, Open
<1> QED
  BY <1>4, <1>5, <1>6, <1>7 DEF RadiusInv

\* The clock advances, or the driver associates a station that nas has no room for.
LEMMA OutsideKeeps ==
    ASSUME RadiusInv, Tick \/ (\E ea \in Stas : AssocNoRoom(ea)) \/ UNCHANGED vars
    PROVE  RadiusInv'
<1>1. UNCHANGED <<sta, sent>> /\ port' \subseteq port
  BY DEF Tick, AssocNoRoom, vars
<1>2. TypeOK'
  BY NasRadiusAssumption DEF RadiusInv, TypeOK, Tick, AssocNoRoom, vars
<1> QED
  BY <1>1, <1>2 DEF RadiusInv, EntriesSane, OnePlace, SentBounded, RequestOwn,
     AcceptedIsOwn, PortTracked, found

\* The table is empty at first and nothing has been sent.
LEMMA RadiusInit == Init => RadiusInv
<1> SUFFICES ASSUME Init PROVE RadiusInv
  OBVIOUS
<1>1. \A k \in Places : sta[k] = Blank
  BY DEF Init
<1>2. Blank \in Entry /\ Blank.request = NULL /\ Blank.state = "INITIALIZE" /\ Blank.used = FALSE
  BY BlankEntry DEF Blank
<1>3. TypeOK
  <2>1. sta \in [Places -> Entry]
    BY <1>2 DEF Init
  <2> QED
    BY <2>1, NasRadiusAssumption DEF Init, TypeOK, Clocks, Entry, EntryOf, States,
       Addresses, Retries, Requests, Sessions, Modes
<1>4. EntriesSane /\ OnePlace /\ AcceptedIsOwn
  BY <1>1, <1>2 DEF EntriesSane, OnePlace, AcceptedIsOwn
<1>5. SentBounded /\ RequestOwn
  BY <1>2, FS_EmptySet DEF Init, SentBounded, RequestOwn, NULL
<1>6. PortTracked
  BY DEF Init, PortTracked
<1> QED
  BY <1>3, <1>4, <1>5, <1>6 DEF RadiusInv

\* Every step keeps the invariant.
LEMMA RadiusStep == RadiusInv /\ [Next]_vars => RadiusInv'
<1> SUFFICES ASSUME RadiusInv, [Next]_vars PROVE RadiusInv'
  OBVIOUS
<1>1. ASSUME NEW ea \in Stas, NEW pre \in BOOLEAN,
             \/ RxStart(ea, pre) \/ RxLogoff(ea, pre) \/ RxIgnored(ea, pre)
             \/ \E ok \in BOOLEAN : RxIdentity(ea, pre, ok) \/ RxEap(ea, pre, ok)
      PROVE  RadiusInv'
  <2>1. CASE RxIgnored(ea, pre)
    BY <2>1, RxIgnoredKeeps DEF RxIgnored
  <2> QED
    BY <1>1, <2>1, RxStartKeeps, RxLogoffKeeps, RxIdentityKeeps, RxEapKeeps
<1>2. ASSUME NEW ea \in Stas, Disassoc(ea) \/ RxNoRoom(ea) \/ AssocNoRoom(ea) \/ AssocWep(ea)
      PROVE  RadiusInv'
  BY <1>2, DisassocKeeps, OutsideKeeps, AssocWepKeeps DEF RxNoRoom
<1>3. ASSUME NEW k \in Places, HandshakeDone(k) \/ \E t \in BOOLEAN : HandshakeFails(k, t)
      PROVE  RadiusInv'
  BY <1>3, HandshakeDoneKeeps, HandshakeFailsKeeps
<1>4. ASSUME NEW m \in sent,
             \/ RadiusBogus(m)
             \/ \E code \in Codes, eap, signed, keys, ok \in BOOLEAN :
                   RadiusDispatch(m, code, eap, signed, keys, ok)
      PROVE  RadiusInv'
  BY <1>4, RadiusDispatchKeeps, OutsideKeeps DEF RadiusBogus
<1>5. ASSUME NEW ea \in Stas, NEW kind \in Kinds[ea], NEW pmkc \in BOOLEAN, NEW o \in Outcomes,
             Assoc(ea, kind, pmkc, o)
      PROVE  RadiusInv'
  BY <1>5, AssocKeeps
<1>6. CASE Tick \/ UNCHANGED vars
  BY <1>6, OutsideKeeps
<1> QED
  BY <1>1, <1>2, <1>3, <1>4, <1>5, <1>6, WatchdogKeeps DEF Next

\* RadiusInv is an invariant of nas as an 802.1X authenticator.
THEOREM RadiusCorrect == Spec => []RadiusInv
<1>1. Init => RadiusInv
  BY RadiusInit
<1>2. RadiusInv /\ [Next]_vars => RadiusInv'
  BY RadiusStep
<1> QED
  BY <1>1, <1>2, PTL DEF Spec

\* However late an answer of the server comes and whoever has the place by then,
\* a station is authenticated (radius_dispatch) only by the answer to a request
\* that was made for it.
THEOREM RadiusAcceptedIsOwn == Spec => []AcceptedIsOwn
<1>1. RadiusInv => AcceptedIsOwn
  BY DEF RadiusInv
<1> QED
  BY <1>1, RadiusCorrect, PTL

\* The driver never has a port open for a station that nas has tossed (toss_sta,
\* cleanup_sta) or evicted (lookup_sta), nor for one that the server rejected
\* (radius_dispatch) unless nas lets it in without 802.1X (wpa_driver_assoc_msg).
THEOREM RadiusPortTracked == Spec => []PortTracked
<1>1. RadiusInv => PortTracked
  BY DEF RadiusInv
<1> QED
  BY <1>1, RadiusCorrect, PTL


-----------------------------------------------------------------------------
(* The workspace *)

GroupKey == [static : BOOLEAN, index : Int, rekey : Int]
Block == [ifc : Ifs \cup {"none"}, ea : {Mac[i] : i \in Ifs} \cup {"none"}, set : Settings \cup {"none"},
          cmd : BOOLEAN, err : BOOLEAN, wan : BOOLEAN, key : {<<>>} \cup {<<g>> : g \in GroupKey}]

\* Before the workspace is initialised all blocks are of the command line and have
\* neither a socket nor a key.
Early == {"parse", "init", "quit", "aborted"}
Late  == {"top", "rekey", "clear", "select", "stopped"}

WkspTypes == pc \in Early \cup Late /\ nwcb \in Seq(Block) /\ fds \in Nat

\* What holds of a block when nas is at p.
Sane(b, p) == /\ b # Hole => b.set \in Settings /\ b.ifc \in Ifs
              /\ p \in Early => ~b.wan /\ b.key = <<>> /\ b.cmd
              /\ p \notin Early => b # Hole
              /\ b.key # <<>> /\ b.set.auth => b.key[1].index \in {GTK_INDEX_1, GTK_INDEX_2}
BlockInv == \A k \in DOMAIN nwcb : Sane(nwcb[k], pc)

\* The open sockets; only blocks in a mode with a RADIUS server have one, so that
\* nas_wksp_close_radius finds them all.
Wans == {k \in DOMAIN nwcb : nwcb[k].wan}
SocketInv ==
    /\ fds = Cardinality(Wans)
    /\ \A k \in Wans : CHECK_RADIUS(nwcb[k].set.mode)
    /\ pc = "stopped" => Wans = {}

WkspInv == WkspTypes /\ BlockInv /\ MessagesAddOnce /\ SocketInv

\* b is what became of a: the same interface, settings and origin
SameBlock(a, b) == b.ifc = a.ifc /\ b.ea = a.ea /\ b.set = a.set /\ b.cmd = a.cmd

-----------------------------------------------------------------------------

\* Blocks are numbered 1 to Len(nwcb), so the sets of them are finite.
LEMMA BlocksFinite ==
    ASSUME nwcb \in Seq(Block), NEW S \in SUBSET (DOMAIN nwcb)
    PROVE  IsFiniteSet(S) /\ Cardinality(S) \in Nat
<1>1. DOMAIN nwcb = 1..Len(nwcb) /\ Len(nwcb) \in Nat
  OBVIOUS
<1>2. IsFiniteSet(DOMAIN nwcb)
  BY <1>1, FS_Interval
<1> QED
  BY <1>2, FS_Subset, FS_CardinalityType

\* A new block has no socket and no key.
LEMMA NewIs ==
    ASSUME NEW i \in Ifs, NEW ea \in {Mac[i], "none"}, NEW c \in Settings, NEW cmd \in BOOLEAN
    PROVE  /\ New(i, ea, c, cmd) \in Block /\ New(i, ea, c, cmd).wan = FALSE
           /\ cmd => Sane(New(i, ea, c, cmd), "parse")
<1> DEFINE e == ea = "none"
<1>1. e \in BOOLEAN
  OBVIOUS
<1>2. New(i, ea, c, cmd) = [ifc |-> i, ea |-> ea, set |-> c, cmd |-> cmd, err |-> e, wan |-> FALSE, key |-> <<>>]
  BY DEF New
<1> HIDE DEF e
<1> QED
  BY <1>1, <1>2 DEF Block, Sane, Early

\* The group key nas starts with is at index 1 or 2 (nas_init_nas).
LEMMA GroupKeyIs ==
    ASSUME NEW c \in Settings
    PROVE  /\ group_key(c) \in GroupKey
           /\ c.auth => group_key(c).index \in {GTK_INDEX_1, GTK_INDEX_2}
<1>1. c.index \in Nat /\ c.rekey \in Nat
  BY NasWkspAssumption
<1>2. fixed_index(c) \in Nat /\ fixed_rekey(c) \in Nat /\ (c.auth => fixed_index(c) \in {0, 2, 3})
  BY <1>1 DEF fixed_index, fixed_rekey, GTK_INDEX_1, GTK_INDEX_2
<1> DEFINE st == fixed_rekey(c) = 0 /\ "WEP" \in c.wsec /\ fixed_index(c) # 0 /\ c.wep # "none"
           ix == IF fixed_rekey(c) = 0 /\ fixed_index(c) # 0 THEN fixed_index(c) - 1 ELSE 1
<1>3. group_key(c) = [static |-> st, index |-> ix, rekey |-> fixed_rekey(c)]
  BY DEF group_key, GTK_INDEX_1
<1>4. st \in BOOLEAN
  OBVIOUS
<1>5. ix \in Int /\ (c.auth => ix \in {1, 2})
  BY <1>2
<1> HIDE DEF st, ix
<1> QED
  BY <1>2, <1>3, <1>4, <1>5 DEF GroupKey, GTK_INDEX_1, GTK_INDEX_2

\* nas_init_nas gives a block its key or marks it, and keeps the rest of it.
LEMMA NasInitIs ==
    ASSUME NEW b \in Block, b # Hole, b.set \in Settings, b.key = <<>>
    PROVE  /\ nas_init_nas(b) \in Block /\ SameBlock(b, nas_init_nas(b))
           /\ nas_init_nas(b).wan = b.wan
           /\ nas_init_nas(b).key # <<>> /\ b.set.auth
                 => nas_init_nas(b).key[1].index \in {GTK_INDEX_1, GTK_INDEX_2}
<1> DEFINE g == group_key(b.set)
<1>1. g \in GroupKey /\ (b.set.auth => g.index \in {GTK_INDEX_1, GTK_INDEX_2})
  BY GroupKeyIs
<1> HIDE DEF g
<1>2. CASE ~b.err /\ valid(b.set)
  <2>1. nas_init_nas(b) = [b EXCEPT !.key = <<g>>]
    BY <1>2 DEF nas_init_nas, g
  <2> QED
    BY <1>1, <2>1 DEF Block, SameBlock
<1>3. CASE ~(~b.err /\ valid(b.set))
  <2>1. nas_init_nas(b) = [b EXCEPT !.err = TRUE]
    BY <1>3 DEF nas_init_nas
  <2> QED
    BY <2>1 DEF Block, SameBlock
<1> QED
  BY <1>2, <1>3

\* nas_radius_open changes the socket of a block only, and its descriptor is one
\* that was there before or the new one.
LEMMA ReopenedIs ==
    ASSUME NEW b \in Block, NEW n \in Int, NEW how \in Opens
    PROVE  /\ reopened(b, n, how).b \in Block /\ SameBlock(b, reopened(b, n, how).b)
           /\ reopened(b, n, how).b.key = b.key
           /\ reopened(b, n, how).b.wan <=> how = "opened"
           /\ reopened(b, n, how).n = (IF b.wan THEN n - 1 ELSE n) + (IF how = "opened" THEN 1 ELSE 0)
<1> DEFINE w == how = "opened"
<1>1. w \in BOOLEAN
  OBVIOUS
<1>2. reopened(b, n, how).b = [b EXCEPT !.wan = w]
  BY DEF reopened
<1>3. reopened(b, n, how).n = (IF b.wan THEN n - 1 ELSE n) + (IF how = "opened" THEN 1 ELSE 0)
  BY DEF reopened, Opens
<1>4. [b EXCEPT !.wan = w].wan = w
  BY DEF Block
<1> HIDE DEF w
<1>5. /\ [b EXCEPT !.wan = w] \in Block /\ SameBlock(b, [b EXCEPT !.wan = w])
      /\ [b EXCEPT !.wan = w].key = b.key
  BY <1>1 DEF Block, SameBlock
<1> QED
  BY <1>2, <1>3, <1>4, <1>5 DEF w

\* nas_force_rekey moves the group key to the other of the two indexes.
LEMMA ForceRekeyIs ==
    ASSUME NEW b \in Block
    PROVE  /\ nas_force_rekey(b) \in Block /\ SameBlock(b, nas_force_rekey(b))
           /\ nas_force_rekey(b).wan = b.wan
           /\ nas_force_rekey(b).key = <<>> <=> b.key = <<>>
           /\ nas_force_rekey(b).key # <<>> => nas_force_rekey(b).key[1].index \in {GTK_INDEX_1, GTK_INDEX_2}
<1>1. CASE b.key = <<>>
  BY <1>1 DEF nas_force_rekey, SameBlock
<1>2. CASE b.key # <<>>
  <2>1. PICK g \in GroupKey : b.key = <<g>>
    BY <1>2 DEF Block
  <2> DEFINE x == GTK_NEXT_INDEX(g.index)
             h == [g EXCEPT !.index = x]
  <2>2. x \in {1, 2}
    BY DEF GTK_NEXT_INDEX, GTK_INDEX_1, GTK_INDEX_2
  <2>3. b.key[1] = g /\ [b.key EXCEPT ![1] = h] = <<h>>
    BY <2>1
  <2>4. nas_force_rekey(b) = [b EXCEPT !.key = [b.key EXCEPT ![1] = [b.key[1] EXCEPT !.index = GTK_NEXT_INDEX(b.key[1].index)]]]
    BY <1>2, Zenon DEF nas_force_rekey
  <2>5. nas_force_rekey(b) = [b EXCEPT !.key = <<h>>]
    BY <2>3, <2>4
  <2> HIDE DEF x
  <2>6. h \in GroupKey /\ h.index \in {1, 2}
    BY <2>2 DEF GroupKey
  <2> HIDE DEF h
  <2>7. <<h>> # <<>> /\ <<h>>[1] = h
    OBVIOUS
  <2> QED
    BY <1>2, <2>5, <2>6, <2>7 DEF Block, SameBlock, GTK_INDEX_1, GTK_INDEX_2
<1> QED
  BY <1>1, <1>2

\* A block is appended.
LEMMA Appended ==
    ASSUME nwcb \in Seq(Block), NEW b \in Block, nwcb' = Append(nwcb, b)
    PROVE  /\ nwcb' \in Seq(Block) /\ Len(nwcb) + 1 \notin DOMAIN nwcb
           /\ DOMAIN nwcb' = DOMAIN nwcb \cup {Len(nwcb) + 1} /\ nwcb'[Len(nwcb) + 1] = b
           /\ \A k \in DOMAIN nwcb : nwcb'[k] = nwcb[k]
  OBVIOUS

\* Every block is replaced by one of the same interface, settings and origin.
LEMMA Replaced ==
    ASSUME nwcb \in Seq(Block), MessagesAddOnce, DOMAIN nwcb' = DOMAIN nwcb,
           nwcb' = [k \in DOMAIN nwcb |-> nwcb'[k]],
           \A k \in DOMAIN nwcb : nwcb'[k] \in Block /\ SameBlock(nwcb[k], nwcb'[k])
    PROVE  nwcb' \in Seq(Block) /\ MessagesAddOnce'
<1>1. DOMAIN nwcb = 1..Len(nwcb) /\ Len(nwcb) \in Nat
  OBVIOUS
<1>2. nwcb' \in [1..Len(nwcb) -> Block]
  BY <1>1
<1>3. nwcb' \in Seq(Block)
  BY <1>1, <1>2, SeqDef
<1>4. MessagesAddOnce'
  BY DEF MessagesAddOnce, SameBlock
<1> QED
  BY <1>3, <1>4

\* Nothing that a signal or a test of the flags changes.
LEMMA QuietKeeps ==
    ASSUME WkspInv, UNCHANGED <<nwcb, fds>>, pc' \in Early \cup Late,
           pc' \in Early <=> pc \in Early, pc' = "stopped" <=> pc = "stopped"
    PROVE  WkspInv'
<1>1. WkspTypes' /\ MessagesAddOnce'
  BY DEF WkspInv, WkspTypes, MessagesAddOnce
<1>2. BlockInv'
  BY DEF WkspInv, WkspTypes, BlockInv, Sane
<1>3. SocketInv'
  BY DEF WkspInv, SocketInv, Wans
<1> QED
  BY <1>1, <1>2, <1>3 DEF WkspInv

\* The command line: a block, or a hole, is added or put in the place of another.
LEMMA ParseKeeps ==
    ASSUME WkspInv, pc = "parse", pc' = pc, fds' = fds, NEW b \in Block, Sane(b, "parse"),
           NEW m \in {Len(nwcb), Len(nwcb) + 1},
           nwcb' \in Seq(Block), DOMAIN nwcb' = DOMAIN nwcb \cup {m}, nwcb'[m] = b,
           \A k \in DOMAIN nwcb \ {m} : nwcb'[k] = nwcb[k]
    PROVE  WkspInv'
<1>1. pc \in Early /\ pc' \in Early /\ pc' # "stopped"
  BY DEF Early
<1>2. WkspTypes'
  BY DEF WkspInv, WkspTypes
<1>3. \A k \in DOMAIN nwcb : Sane(nwcb[k], "parse")
  BY <1>1 DEF WkspInv, BlockInv, Sane, Early
<1>4. \A k \in DOMAIN nwcb' : Sane(nwcb'[k], "parse")
  BY <1>3
<1>5. BlockInv'
  BY <1>1, <1>4 DEF BlockInv, Sane, Early
<1>6. MessagesAddOnce'
  BY <1>4 DEF MessagesAddOnce, Sane, Early
<1>7. Wans = {} /\ Wans' = {}
  BY <1>3, <1>4 DEF Sane, Wans, Early
<1>8. SocketInv'
  BY <1>1, <1>7 DEF WkspInv, SocketInv
<1> QED
  BY <1>2, <1>5, <1>6, <1>8 DEF WkspInv

\* -i: a new block, or a hole, perhaps in the place of a block in error.
LEMMA ParseIfKeeps ==
    ASSUME WkspInv, NEW i \in Ifs, NEW c \in Settings, NEW r \in {"ok", "notwl", "nohwaddr"},
           ParseIf(i, c, r)
    PROVE  WkspInv'
<1>1. CASE pc' = "quit" /\ UNCHANGED nwcb
  BY <1>1, QuietKeeps DEF ParseIf, WkspInv, Early, Late
<1>2. CASE pc' = pc /\ UNCHANGED nwcb
  BY <1>2, QuietKeeps DEF ParseIf, WkspInv, WkspTypes
<1> DEFINE again == nwcb # <<>> /\ nwcb[Last].err
           b == IF r = "ok" THEN New(i, Mac[i], c, TRUE)
                ELSE IF again /\ nwcb[Last] # Hole THEN New(i, "none", c, TRUE) ELSE Hole
           m == IF again THEN Len(nwcb) ELSE Len(nwcb) + 1
<1>3. CASE pc' = pc /\ nwcb' = IF again THEN [nwcb EXCEPT ![Last] = b] ELSE Append(nwcb, b)
  <2>1. New(i, Mac[i], c, TRUE) \in Block /\ Sane(New(i, Mac[i], c, TRUE), "parse")
    BY NewIs
  <2>2. New(i, "none", c, TRUE) \in Block /\ Sane(New(i, "none", c, TRUE), "parse")
    BY NewIs
  <2>3. Hole \in Block /\ Sane(Hole, "parse")
    BY DEF Hole, Block, Sane, Early
  <2>4. b \in Block /\ Sane(b, "parse")
    BY <2>1, <2>2, <2>3
  <2>5. nwcb \in Seq(Block) /\ Len(nwcb) \in Nat /\ DOMAIN nwcb = 1..Len(nwcb)
    BY DEF WkspInv, WkspTypes
  <2> HIDE DEF b
  <2>6. /\ DOMAIN nwcb' = DOMAIN nwcb \cup {m} /\ nwcb'[m] = b
        /\ \A k \in DOMAIN nwcb \ {m} : nwcb'[k] = nwcb[k]
        /\ nwcb' \in Seq(Block)
    <3>1. CASE again
      BY <1>3, <2>4, <2>5, <3>1 DEF Last
    <3>2. CASE ~again
      BY <1>3, <2>4, <2>5, <3>2
    <3> QED
      BY <3>1, <3>2
  <2>7. m \in {Len(nwcb), Len(nwcb) + 1}
    OBVIOUS
  <2>8. pc = "parse" /\ fds' = fds
    BY DEF ParseIf
  <2> HIDE DEF m
  <2> QED
    BY <1>3, <2>4, <2>6, <2>7, <2>8, ParseKeeps
<1> QED
  BY <1>1, <1>2, <1>3 DEF ParseIf

\* -D: the last block is in error.
LEMMA ParseWdsFailsKeeps == ASSUME WkspInv, ParseWdsFails PROVE WkspInv'
<1>1. CASE pc' = "quit" /\ UNCHANGED nwcb
  BY <1>1, QuietKeeps DEF ParseWdsFails, WkspInv, Early, Late
<1> DEFINE b == [nwcb[Last] EXCEPT !.err = TRUE]
<1>2. CASE nwcb # <<>> /\ pc' = pc /\ nwcb' = [nwcb EXCEPT ![Last].err = TRUE]
  <2>1. nwcb \in Seq(Block) /\ Len(nwcb) \in Nat /\ DOMAIN nwcb = 1..Len(nwcb) /\ Len(nwcb) # 0
    BY <1>2 DEF WkspInv, WkspTypes
  <2>2. nwcb[Last] \in Block /\ Sane(nwcb[Last], "parse")
    <3>1. pc \in Early
      BY DEF ParseWdsFails, Early
    <3>2. Last \in DOMAIN nwcb
      BY <2>1 DEF Last
    <3> QED
      BY <2>1, <3>1, <3>2 DEF WkspInv, BlockInv, Sane, Early
  <2>3. b \in Block /\ b.set = nwcb[Last].set /\ b.ifc = nwcb[Last].ifc /\ b.wan = nwcb[Last].wan
        /\ b.key = nwcb[Last].key /\ b.cmd = nwcb[Last].cmd
    BY <2>2 DEF Block
  <2>4. nwcb[Last] = Hole => b = Hole
    <3>1. ASSUME NEW h \in Block, h.err = TRUE PROVE [h EXCEPT !.err = TRUE] = h
      BY <3>1 DEF Block
    <3>2. Hole.err = TRUE
      BY DEF Hole
    <3> QED
      BY <2>2, <3>1, <3>2
  <2>5. Sane(b, "parse")
    <3> HIDE DEF b
    <3> QED
      BY <2>2, <2>3, <2>4 DEF Sane, Early
  <2>6. nwcb' = [nwcb EXCEPT ![Last] = b]
    BY <1>2
  <2> HIDE DEF b
  <2>7. /\ DOMAIN nwcb' = DOMAIN nwcb \cup {Last} /\ nwcb'[Last] = b
        /\ \A k \in DOMAIN nwcb \ {Last} : nwcb'[k] = nwcb[k]
        /\ nwcb' \in Seq(Block)
    BY <2>1, <2>3, <2>6 DEF Last
  <2>8. pc = "parse" /\ fds' = fds /\ Last \in {Len(nwcb), Len(nwcb) + 1}
    BY DEF ParseWdsFails, Last
  <2> QED
    BY <1>2, <2>3, <2>5, <2>7, <2>8, ParseKeeps
<1> QED
  BY <1>1, <1>2 DEF ParseWdsFails

\* nas_wksp_init: sockets and keys, of blocks that are all there.
LEMMA InitWkspKeeps ==
    ASSUME WkspInv, NEW ok \in BOOLEAN, NEW how \in [DOMAIN nwcb -> Opens], InitWksp(ok, how)
    PROVE  WkspInv'
<1>1. CASE pc' = "aborted" /\ UNCHANGED <<nwcb, eapd, fds>>
  BY <1>1, QuietKeeps DEF InitWksp, WkspInv, Early, Late
<1> DEFINE radius(k) == CHECK_RADIUS(nwcb[k].set.mode)
           r(k) == reopened(nwcb[k], 0, how[k])
           had(k) == IF radius(k) THEN r(k).b ELSE nwcb[k]
           open == {k \in DOMAIN nwcb : radius(k) /\ r(k).n # 0}
<1>2. CASE /\ \A k \in DOMAIN nwcb : nwcb[k] # Hole
           /\ pc' = "top" /\ fds' = Cardinality(open)
           /\ nwcb' = [k \in DOMAIN nwcb |-> nas_init_nas(had(k))]
  <2>1. pc = "init" /\ nwcb \in Seq(Block)
    BY DEF InitWksp, WkspInv, WkspTypes
  <2>2. ASSUME NEW k \in DOMAIN nwcb
        PROVE  /\ had(k) \in Block /\ SameBlock(nwcb[k], had(k)) /\ had(k).key = <<>>
               /\ had(k).wan <=> k \in open
               /\ had(k).set \in Settings /\ had(k).ifc \in Ifs
    <3>1. nwcb[k] \in Block /\ ~nwcb[k].wan /\ nwcb[k].key = <<>>
          /\ nwcb[k].set \in Settings /\ nwcb[k].ifc \in Ifs
      BY <1>2, <2>1 DEF WkspInv, BlockInv, Sane, Early
    <3>2. /\ r(k).b \in Block /\ SameBlock(nwcb[k], r(k).b) /\ r(k).b.key = nwcb[k].key
          /\ r(k).b.wan <=> how[k] = "opened"
          /\ r(k).n = (IF nwcb[k].wan THEN 0 - 1 ELSE 0) + (IF how[k] = "opened" THEN 1 ELSE 0)
      BY <3>1, ReopenedIs
    <3>3. r(k).n # 0 <=> how[k] = "opened"
      BY <3>1, <3>2
    <3>4. CASE radius(k)
      <4>1. had(k) = r(k).b /\ (k \in open <=> r(k).n # 0)
        BY <3>4
      <4> HIDE DEF had, open, r
      <4> QED
        BY <3>1, <3>2, <3>3, <4>1 DEF SameBlock
    <3>5. CASE ~radius(k)
      <4>1. had(k) = nwcb[k] /\ k \notin open
        BY <3>5
      <4> HIDE DEF had, open, r
      <4> QED
        BY <3>1, <4>1 DEF SameBlock
    <3> QED
      BY <3>4, <3>5
  <2>3. open \subseteq DOMAIN nwcb /\ \A k \in open : CHECK_RADIUS(nwcb[k].set.mode)
    OBVIOUS
  <2> HIDE DEF had, open
  <2>4. ASSUME NEW k \in DOMAIN nwcb
        PROVE  /\ nwcb'[k] \in Block /\ SameBlock(nwcb[k], nwcb'[k])
               /\ nwcb'[k].set \in Settings /\ nwcb'[k].ifc \in Ifs
               /\ nwcb'[k].wan <=> k \in open
               /\ nwcb'[k].key # <<>> /\ nwcb'[k].set.auth => nwcb'[k].key[1].index \in {GTK_INDEX_1, GTK_INDEX_2}
               /\ nwcb'[k] # Hole
    <3>1. nwcb'[k] = nas_init_nas(had(k))
      BY <1>2
    <3>2. /\ had(k) \in Block /\ had(k).key = <<>> /\ had(k).set \in Settings /\ had(k).ifc \in Ifs
          /\ had(k) # Hole
      BY <2>2, NasWkspAssumption DEF Hole
    <3>3. /\ nwcb'[k] \in Block /\ SameBlock(had(k), nwcb'[k]) /\ nwcb'[k].wan = had(k).wan
          /\ nwcb'[k].key # <<>> /\ had(k).set.auth => nwcb'[k].key[1].index \in {GTK_INDEX_1, GTK_INDEX_2}
      BY <3>1, <3>2, NasInitIs
    <3>4. nwcb'[k].set \in Settings /\ nwcb'[k].ifc \in Ifs
      BY <3>2, <3>3 DEF SameBlock
    <3>5. nwcb'[k] # Hole
      BY <3>4, NasWkspAssumption DEF Hole
    <3> QED
      BY <2>2, <3>2, <3>3, <3>4, <3>5 DEF SameBlock
  <2>5. DOMAIN nwcb' = DOMAIN nwcb /\ nwcb' = [k \in DOMAIN nwcb |-> nwcb'[k]]
    BY <1>2
  <2>6. nwcb' \in Seq(Block) /\ MessagesAddOnce'
    BY <2>1, <2>4, <2>5, Replaced DEF WkspInv
  <2>7. fds' \in Nat
    BY <1>2, <2>1, <2>3, BlocksFinite
  <2>8. Wans' = open
    BY <2>3, <2>4, <2>5 DEF Wans
  <2>9. WkspTypes'
    BY <1>2, <2>6, <2>7 DEF WkspTypes, Late
  <2>10. BlockInv'
    BY <1>2, <2>4, <2>5 DEF BlockInv, Sane, Early
  <2>11. SocketInv'
    BY <1>2, <2>3, <2>4, <2>8 DEF SocketInv, SameBlock
  <2> QED
    BY <2>6, <2>9, <2>10, <2>11 DEF WkspInv
<1> QED
  BY <1>1, <1>2 DEF InitWksp

\* A message makes a block of an interface that has none: the search by address
\* finds a block of the same interface, whether or not the message names it.
LEMMA MessageKeeps ==
    ASSUME WkspInv, NEW i \in Ifs, NEW ifc \in {ANY, i}, NEW c \in Settings, NEW how \in Opens,
           Message(i, ifc, c, how)
    PROVE  WkspInv'
<1>1. pc = "select" /\ pc' = "top" /\ nwcb \in Seq(Block) /\ fds \in Nat
  BY DEF Message, WkspInv, WkspTypes
<1>2. CASE UNCHANGED <<nwcb, fds>>
  BY <1>1, <1>2, QuietKeeps DEF Early, Late
<1> DEFINE a == New(i, Mac[i], c, FALSE)
           r == reopened(a, fds, how)
           b == IF CHECK_RADIUS(c.mode) THEN r.b ELSE a
           m == Len(nwcb) + 1
<1>3. /\ a \in Block /\ a.wan = FALSE /\ a.key = <<>>
      /\ a.ifc = i /\ a.ea = Mac[i] /\ a.set = c /\ a.cmd = FALSE
  <2>1. a.key = <<>> /\ a.ifc = i /\ a.ea = Mac[i] /\ a.set = c /\ a.cmd = FALSE
    BY DEF New
  <2> QED
    BY <2>1, NewIs
<1>4. \/ UNCHANGED <<nwcb, fds>>
      \/ /\ find_nwcb(Mac[i], ifc) = {}
         /\ \/ CHECK_RADIUS(c.mode) /\ nwcb' = Append(nwcb, nas_init_nas(r.b)) /\ fds' = r.n
            \/ ~CHECK_RADIUS(c.mode) /\ nwcb' = Append(nwcb, nas_init_nas(a)) /\ fds' = fds
  BY Zenon DEF Message
<1> HIDE DEF a
<1>5. /\ r.b \in Block /\ SameBlock(a, r.b) /\ r.b.key = a.key
      /\ r.n = (IF a.wan THEN fds - 1 ELSE fds) + (IF how = "opened" THEN 1 ELSE 0)
      /\ r.b.wan <=> how = "opened"
  <2>1. fds \in Int
    BY <1>1
  <2> HIDE DEF r
  <2> QED
    BY <1>3, <2>1, ReopenedIs DEF r
<1> HIDE DEF r
<1>6. /\ b \in Block /\ b.ifc = i /\ b.ea = Mac[i] /\ b.set = c /\ b.cmd = FALSE /\ b.key = <<>>
      /\ b.wan => CHECK_RADIUS(c.mode)
  BY <1>3, <1>5 DEF SameBlock
<1>7. CASE /\ find_nwcb(Mac[i], ifc) = {} /\ nwcb' = Append(nwcb, nas_init_nas(b))
           /\ fds' = fds + (IF b.wan THEN 1 ELSE 0)
  <2> HIDE DEF b
  <2> DEFINE n == nas_init_nas(b)
  <2>1. b # Hole
    BY <1>6, NasWkspAssumption DEF Hole
  <2>2. /\ n \in Block /\ SameBlock(b, n) /\ n.wan = b.wan
        /\ n.key # <<>> /\ b.set.auth => n.key[1].index \in {GTK_INDEX_1, GTK_INDEX_2}
    BY <1>6, <2>1, NasInitIs
  <2> HIDE DEF n
  <2>3. /\ n.ifc = i /\ n.ea = Mac[i] /\ n.set = c /\ n.cmd = FALSE /\ n # Hole
        /\ n.wan => CHECK_RADIUS(n.set.mode)
    BY <1>6, <2>2, NasWkspAssumption DEF SameBlock, Hole
  <2>4. /\ nwcb' \in Seq(Block) /\ m \notin DOMAIN nwcb
        /\ DOMAIN nwcb' = DOMAIN nwcb \cup {m} /\ nwcb'[m] = n
        /\ \A k \in DOMAIN nwcb : nwcb'[k] = nwcb[k]
    BY <1>1, <1>7, <2>2, Appended DEF n
  <2> HIDE DEF m
  <2>5. WkspTypes'
    BY <1>1, <1>7, <2>4 DEF WkspTypes, Late
  <2>6. Sane(n, "top")
    BY <1>6, <2>2, <2>3 DEF Sane, SameBlock, Early
  <2>7. BlockInv'
    BY <1>1, <2>4, <2>6 DEF WkspInv, BlockInv, Sane, Early
  <2>8. \A k \in DOMAIN nwcb : ~(nwcb[k].ifc = i /\ nwcb[k].ea = Mac[i])
    BY <1>7 DEF find_nwcb
  <2>9. MessagesAddOnce'
    BY <2>3, <2>4, <2>8 DEF WkspInv, MessagesAddOnce
  <2>10. IsFiniteSet(Wans) /\ fds = Cardinality(Wans) /\ m \notin Wans
    BY <1>1, <2>4, BlocksFinite DEF WkspInv, SocketInv, Wans
  <2>11. Wans' = IF b.wan THEN Wans \cup {m} ELSE Wans
    BY <2>2, <2>4 DEF Wans
  <2>12. fds' = Cardinality(Wans')
    <3>1. CASE b.wan
      BY <1>7, <2>10, <2>11, <3>1, FS_AddElement
    <3>2. CASE ~b.wan
      BY <1>1, <1>7, <2>10, <2>11, <3>2
    <3> QED
      BY <3>1, <3>2
  <2>13. SocketInv'
    BY <1>1, <2>2, <2>3, <2>4, <2>11, <2>12 DEF WkspInv, SocketInv, Wans
  <2> QED
    BY <2>5, <2>7, <2>9, <2>13 DEF WkspInv
<1>8. CASE CHECK_RADIUS(c.mode) /\ fds' = r.n
  <2>1. b = r.b /\ r.n = fds + (IF r.b.wan THEN 1 ELSE 0)
    BY <1>1, <1>3, <1>5, <1>8
  <2> QED
    BY <1>2, <1>4, <1>7, <1>8, <2>1
<1>9. CASE ~CHECK_RADIUS(c.mode) /\ fds' = fds
  <2>1. b = a /\ fds = fds + (IF a.wan THEN 1 ELSE 0)
    BY <1>1, <1>3, <1>9
  <2> QED
    BY <1>2, <1>4, <1>7, <1>9, <2>1
<1> QED
  BY <1>2, <1>4, <1>8, <1>9

\* nas_radius_open: the old descriptor goes before a new one comes.
LEMMA RadiusReopenKeeps ==
    ASSUME WkspInv, NEW k \in DOMAIN nwcb, NEW how \in Opens, RadiusReopen(k, how)
    PROVE  WkspInv'
<1>1. /\ pc = "select" /\ pc' = "top" /\ CHECK_RADIUS(nwcb[k].set.mode)
      /\ nwcb \in Seq(Block) /\ fds \in Nat /\ nwcb[k] \in Block
  BY DEF RadiusReopen, WkspInv, WkspTypes
<1> DEFINE b == reopened(nwcb[k], fds, how).b
           ok == how = "opened"
<1>2. nwcb' = [nwcb EXCEPT ![k] = b] /\ fds' = reopened(nwcb[k], fds, how).n
  BY DEF RadiusReopen
<1>3. /\ b \in Block /\ SameBlock(nwcb[k], b) /\ b.key = nwcb[k].key /\ (b.wan <=> ok)
      /\ fds' = (IF nwcb[k].wan THEN fds - 1 ELSE fds) + (IF ok THEN 1 ELSE 0)
  BY <1>1, <1>2, ReopenedIs
<1> HIDE DEF b, ok
<1>4. /\ DOMAIN nwcb' = DOMAIN nwcb /\ nwcb'[k] = b /\ nwcb' = [j \in DOMAIN nwcb |-> nwcb'[j]]
      /\ \A j \in DOMAIN nwcb \ {k} : nwcb'[j] = nwcb[j]
  BY <1>1, <1>2
<1>5. \A j \in DOMAIN nwcb : nwcb'[j] \in Block /\ SameBlock(nwcb[j], nwcb'[j]) /\ nwcb'[j].key = nwcb[j].key
  BY <1>1, <1>3, <1>4 DEF SameBlock
<1>6. nwcb' \in Seq(Block) /\ MessagesAddOnce'
  BY <1>1, <1>4, <1>5, Replaced DEF WkspInv
<1>7. IsFiniteSet(Wans) /\ fds = Cardinality(Wans) /\ Cardinality(Wans) \in Nat
  BY <1>1, BlocksFinite DEF WkspInv, SocketInv, Wans
<1>8. Wans' = IF ok THEN Wans \cup {k} ELSE Wans \ {k}
  BY <1>3, <1>4 DEF Wans
<1>9. k \in Wans <=> nwcb[k].wan
  BY DEF Wans
<1>10. fds' = Cardinality(Wans') /\ fds' \in Nat
  <2>1. /\ Cardinality(Wans \cup {k}) = IF k \in Wans THEN Cardinality(Wans) ELSE Cardinality(Wans) + 1
        /\ Cardinality(Wans \ {k}) = IF k \in Wans THEN Cardinality(Wans) - 1 ELSE Cardinality(Wans)
    BY <1>7, FS_AddElement, FS_RemoveElement
  <2>2. IsFiniteSet(Wans \ {k}) /\ Cardinality(Wans \ {k}) \in Nat
    BY <1>7, FS_RemoveElement, FS_CardinalityType
  <2> QED
    BY <1>3, <1>7, <1>8, <1>9, <2>1, <2>2
<1>11. WkspTypes'
  BY <1>1, <1>6, <1>10 DEF WkspTypes, Late
<1>12. BlockInv'
  <2> SUFFICES ASSUME NEW j \in DOMAIN nwcb PROVE Sane(nwcb'[j], "top")
    BY <1>1, <1>4 DEF BlockInv
  <2>1. Sane(nwcb[j], "top")
    BY <1>1 DEF WkspInv, BlockInv, Sane, Early
  <2>2. nwcb'[j].set \in Settings /\ nwcb'[j].ifc \in Ifs
    BY <1>5, <2>1 DEF Sane, SameBlock, Early
  <2>3. nwcb'[j] # Hole
    BY <2>2, NasWkspAssumption DEF Hole
  <2> QED
    BY <1>5, <2>1, <2>2, <2>3 DEF Sane, SameBlock, Early
<1>13. SocketInv'
  BY <1>1, <1>4, <1>5, <1>8, <1>10 DEF WkspInv, SocketInv, Wans, SameBlock
<1> QED
  BY <1>6, <1>11, <1>12, <1>13 DEF WkspInv

\* SIGUSR1: group keys move.
LEMMA TestRekeyKeeps ==
    ASSUME WkspInv, NEW S \in SUBSET (DOMAIN nwcb), TestRekey(S)
    PROVE  WkspInv'
<1>1. /\ pc = "rekey" /\ pc' \in {"clear", "select"} /\ fds' = fds /\ nwcb \in Seq(Block)
      /\ nwcb' = [k \in DOMAIN nwcb |-> IF flags = "REKEY" /\ k \in S THEN nas_force_rekey(nwcb[k])
                                        ELSE nwcb[k]]
  BY DEF TestRekey, WkspInv, WkspTypes
<1>2. DOMAIN nwcb' = DOMAIN nwcb /\ nwcb' = [k \in DOMAIN nwcb |-> nwcb'[k]]
  BY <1>1
<1>3. ASSUME NEW k \in DOMAIN nwcb
      PROVE  /\ nwcb'[k] \in Block /\ SameBlock(nwcb[k], nwcb'[k]) /\ nwcb'[k].wan = nwcb[k].wan
             /\ Sane(nwcb'[k], "top")
  <2>1. nwcb[k] \in Block /\ Sane(nwcb[k], "top")
    BY <1>1 DEF WkspInv, BlockInv, Sane, Early
  <2>2. CASE nwcb'[k] = nwcb[k]
    BY <2>1, <2>2 DEF SameBlock
  <2> DEFINE n == nas_force_rekey(nwcb[k])
  <2>3. CASE nwcb'[k] = n
    <3>1. /\ n \in Block /\ SameBlock(nwcb[k], n) /\ n.wan = nwcb[k].wan
          /\ n.key # <<>> => n.key[1].index \in {GTK_INDEX_1, GTK_INDEX_2}
      BY <2>1, ForceRekeyIs
    <3> HIDE DEF n
    <3>2. n.set \in Settings /\ n.ifc \in Ifs
      BY <2>1, <3>1 DEF Sane, SameBlock, Early
    <3>3. n # Hole
      BY <3>2, NasWkspAssumption DEF Hole
    <3> QED
      BY <2>3, <3>1, <3>2, <3>3 DEF Sane, Early
  <2> QED
    BY <1>1, <2>2, <2>3
<1>4. nwcb' \in Seq(Block) /\ MessagesAddOnce'
  BY <1>1, <1>2, <1>3, Replaced DEF WkspInv
<1>5. WkspTypes'
  BY <1>1, <1>4 DEF WkspInv, WkspTypes, Late
<1>6. BlockInv'
  BY <1>1, <1>2, <1>3 DEF BlockInv, Sane, Early
<1>7. Wans' = Wans
  BY <1>2, <1>3 DEF Wans
<1>8. SocketInv'
  BY <1>1, <1>3, <1>7 DEF WkspInv, SocketInv, SameBlock, Wans
<1> QED
  BY <1>4, <1>5, <1>6, <1>8 DEF WkspInv

\* nas_wksp_cleanup: every open socket is one that nas_wksp_close_radius closes.
LEMMA ShutdownKeeps == ASSUME WkspInv, Shutdown PROVE WkspInv'
<1>1. /\ pc = "top" /\ pc' = "stopped" /\ fds' = fds - closed
      /\ nwcb' = [k \in DOMAIN nwcb |-> [nwcb[k] EXCEPT !.wan = FALSE]]
  BY DEF Shutdown
<1>2. nwcb \in Seq(Block) /\ fds \in Nat
  BY DEF WkspInv, WkspTypes
<1>3. {k \in DOMAIN nwcb : nwcb[k].wan /\ CHECK_RADIUS(nwcb[k].set.mode)} = Wans
  BY DEF WkspInv, SocketInv, Wans
<1>4. fds' = 0
  <2>1. closed = Cardinality(Wans) /\ fds = Cardinality(Wans)
    BY <1>3, Zenon DEF WkspInv, SocketInv, closed
  <2> QED
    BY <1>1, <1>2, <2>1
<1>5. DOMAIN nwcb' = DOMAIN nwcb /\ nwcb' = [k \in DOMAIN nwcb |-> nwcb'[k]]
  BY <1>1
<1>6. ASSUME NEW k \in DOMAIN nwcb
      PROVE  /\ nwcb'[k] \in Block /\ SameBlock(nwcb[k], nwcb'[k])
             /\ nwcb'[k].wan = FALSE /\ Sane(nwcb'[k], "top")
  <2>1. nwcb[k] \in Block /\ Sane(nwcb[k], "top")
    BY <1>1, <1>2 DEF WkspInv, BlockInv, Sane, Early
  <2>2. nwcb'[k] = [nwcb[k] EXCEPT !.wan = FALSE]
    BY <1>1
  <2>3. /\ nwcb'[k] \in Block /\ SameBlock(nwcb[k], nwcb'[k]) /\ nwcb'[k].key = nwcb[k].key
        /\ nwcb'[k].wan = FALSE
    BY <2>1, <2>2 DEF Block, SameBlock
  <2>4. nwcb'[k].set \in Settings /\ nwcb'[k].ifc \in Ifs
    BY <2>1, <2>3 DEF Sane, SameBlock, Early
  <2>5. nwcb'[k] # Hole
    BY <2>4, NasWkspAssumption DEF Hole
  <2> QED
    BY <2>1, <2>3, <2>4, <2>5 DEF Sane, SameBlock, Early
<1>7. nwcb' \in Seq(Block) /\ MessagesAddOnce'
  BY <1>2, <1>5, <1>6, Replaced DEF WkspInv
<1>8. WkspTypes'
  BY <1>1, <1>4, <1>7 DEF WkspTypes, Late
<1>9. BlockInv'
  BY <1>1, <1>5, <1>6 DEF BlockInv, Sane, Early
<1>10. Wans' = {}
  BY <1>5, <1>6 DEF Wans
<1>11. SocketInv'
  BY <1>4, <1>10, FS_EmptySet DEF SocketInv
<1> QED
  BY <1>7, <1>8, <1>9, <1>11 DEF WkspInv

\* nas starts without blocks and sockets.
LEMMA WkspInit == NasInit => WkspInv
<1> SUFFICES ASSUME NasInit PROVE WkspInv
  OBVIOUS
<1>1. nwcb = <<>> /\ DOMAIN nwcb = {} /\ Wans = {}
  BY DEF NasInit, Wans
<1>2. WkspTypes
  BY <1>1 DEF NasInit, WkspTypes, Early
<1>3. BlockInv /\ MessagesAddOnce
  BY <1>1 DEF BlockInv, MessagesAddOnce
<1>4. SocketInv
  BY <1>1, FS_EmptySet DEF NasInit, SocketInv
<1> QED
  BY <1>2, <1>3, <1>4 DEF WkspInv

\* One step per action.
LEMMA WkspStep == WkspInv /\ [NasNext]_nasVars => WkspInv'
<1> SUFFICES ASSUME WkspInv, [NasNext]_nasVars PROVE WkspInv'
  OBVIOUS
<1>1. CASE ParseDone \/ Sigterm \/ Sigusr1 \/ Ended \/ UNCHANGED nasVars
  BY <1>1, QuietKeeps DEF ParseDone, Sigterm, Sigusr1, Ended, nasVars, WkspInv, WkspTypes, Early, Late
<1>2. CASE TestShutdown \/ StoreFlags \/ NoSockets \/ Idle
  BY <1>2, QuietKeeps DEF TestShutdown, StoreFlags, NoSockets, Idle, WkspInv, WkspTypes, Early, Late
<1> QED
  BY <1>1, <1>2, ParseIfKeeps, ParseWdsFailsKeeps, InitWkspKeeps, MessageKeeps, RadiusReopenKeeps,
     TestRekeyKeeps, ShutdownKeeps DEF NasNext, Loop

-----------------------------------------------------------------------------
(* Theorems about the workspace *)

\* Blocks have interfaces, keys and sockets as their settings say, whatever the
\* command line, messages and signals did (nas_wksp_parse_cmd, nas_wksp_add_nwcb).
THEOREM WkspCorrect == NasSpec => []WkspInv
  BY WkspInit, WkspStep, PTL DEF NasSpec

\* Every descriptor of a RADIUS socket belongs to a control block, through failed
\* opens and reopens, and none is left at the end (nas_radius_open,
\* nas_wksp_close_radius).
THEOREM WkspSocketsAccounted == NasSpec => []SocketsAccounted
<1>1. WkspInv => SocketsAccounted
  BY FS_EmptySet DEF WkspInv, SocketInv, SocketsAccounted, Wans
<1> QED
  BY <1>1, WkspCorrect, PTL

\* However messages interleave with signals and reopened sockets, none makes a
\* second control block for an interface (nas_wksp_find_nwcb, nas_wksp_add_nwcb).
THEOREM WkspMessagesAddOnce == NasSpec => []MessagesAddOnce
<1>1. WkspInv => MessagesAddOnce
  BY DEF WkspInv
<1> QED
  BY <1>1, WkspCorrect, PTL

\* The group key of an authenticator stays at index 1 or 2 through any number of
\* forced rekeys (nas_init_nas, nas_force_rekey).
THEOREM WkspGroupKeySane == NasSpec => []GroupKeySane
<1>1. WkspInv => GroupKeySane
  <2> SUFFICES ASSUME WkspInv, NEW k \in DOMAIN nwcb, NEW n \in DOMAIN nwcb[k].key, nwcb[k].set.auth
               PROVE  nwcb[k].key[n].index \in {GTK_INDEX_1, GTK_INDEX_2}
    BY DEF GroupKeySane
  <2>1. nwcb[k] \in Block /\ Sane(nwcb[k], pc)
    BY DEF WkspInv, WkspTypes, BlockInv
  <2>2. nwcb[k].key # <<>> /\ n = 1
    BY <2>1 DEF Block
  <2> QED
    BY <2>1, <2>2 DEF Sane
<1> QED
  BY <1>1, WkspCorrect, PTL
==============================================================================
