------------------------------ MODULE StaCache ------------------------------
(***************************************************************************)
(* What the station table of eapd promises: a bounded cache with at        *)
(* most one entry per address.  A new station takes a free place; when     *)
(* there is none it may take the place of one used least recently, never   *)
(* of one used in the current second.  What the stations are doing makes   *)
(* no difference: one in the course of WPS is as good a victim as any.     *)
(***************************************************************************)
EXTENDS Naturals, FiniteSets

CONSTANTS Stas,      \* station addresses
          MaxSta     \* places in the table

VARIABLES cache,     \* address -> second of last use, for the cached stations
          now

vars == <<cache, now>>

Cached == DOMAIN cache

\* cache with the stations of S removed and a stamped with the current second
Stamped(S, a) == [x \in (Cached \ S) \cup {a} |-> IF x = a THEN now ELSE cache[x]]

Init == cache = <<>> /\ now \in Nat

Touch(a) == a \in Cached /\ cache' = Stamped({}, a) /\ UNCHANGED now

Insert(a) == /\ a \notin Cached /\ Cardinality(Cached) < MaxSta
             /\ cache' = Stamped({}, a) /\ UNCHANGED now

Replace(a, v) == /\ a \notin Cached /\ v \in Cached
                 /\ Cardinality(Cached) = MaxSta
                 /\ cache[v] < now
                 /\ \A x \in Cached : cache[v] <= cache[x]
                 /\ cache' = Stamped({v}, a) /\ UNCHANGED now

Remove(a) == /\ a \in Cached
             /\ cache' = [x \in Cached \ {a} |-> cache[x]] /\ UNCHANGED now

Tick == now' = now + 1 /\ UNCHANGED cache

Next == \/ Tick
        \/ \E a \in Stas : \/ Touch(a) \/ Insert(a) \/ Remove(a)
                           \/ \E v \in Stas : Replace(a, v)

Spec == Init /\ [][Next]_vars
=============================================================================
