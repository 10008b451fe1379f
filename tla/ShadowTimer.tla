----------------------------- MODULE ShadowTimer -----------------------------
(***************************************************************************)
(* wl_shadow_timer.c: the side table that gives every 2.6.36 timer_list    *)
(* the wl object embeds in its own memory a real kernel timer.             *)
(*                                                                         *)
(* A step of this module is what the code does between two points at which *)
(* another CPU can interfere: one critical section of wl_timer_lock, or    *)
(* one call into the kernel's timer core.  Contexts are the threads of the *)
(* blob and, for every map, the softirq that runs its trampoline; a        *)
(* callback may call the entry points just as a thread does.               *)
(***************************************************************************)
EXTENDS Naturals, FiniteSets

CONSTANTS
    Timers,      \* addresses of timer_lists inside the blob's memory
    Threads,     \* process contexts the blob runs in
    Maps,        \* the struct wl_timer_map objects kzalloc can hand out
    None,        \* a NULL pointer
    Serialised,  \* the timers on which the blob serialises its own calls
    InitOnce,    \* does it serialise the first initialisations of every timer?
    CrossExit,   \* do callbacks that outlive the blob call for other timers?
    MaxAdds      \* bound: calls of add_timer in one behaviour

ASSUME TimerAssumption ==
    /\ Threads \cap Maps = {}
    /\ None \notin Maps \cup Timers
    /\ Serialised \subseteq Timers
    /\ InitOnce \in BOOLEAN /\ CrossExit \in BOOLEAN
    /\ MaxAdds \in Nat

Contexts == Threads \cup Maps

VARIABLES
    owner,    \* m->blob; None while m is not allocated
    table,    \* the maps hashed in wl_timer_ht
    pending,  \* timers whose blob entry.next # NULL (its timer_pending())
    queued,   \* maps whose real timer the kernel has queued
    pc,       \* where each context is
    arg,      \* blob_timer, the argument of the call in progress
    ptr,      \* the local m (or dup) of the call in progress
    was,      \* contexts whose local was_pending is 1
    phase,    \* progress of wl_shadow_timer_exit
    victim,   \* the map wl_shadow_timer_exit is reaping
    adds      \* calls of add_timer so far (bounded by MaxAdds)

locals == <<arg, ptr, was>>
exit == <<phase, victim>>
vars == <<owner, table, pending, queued, pc, arg, ptr, was, phase, victim,
          adds>>

\* Program counters.  "off": no trampoline runs on this map.  "fired": the
\* kernel has dequeued the timer and entered the trampoline, which has not yet
\* taken the lock.  "ready": in blob code, which may call an entry point.
Adding == {"addTest", "addMod", "addNew"}
InCall == {"dupSync", "dupClear", "initHash", "delReal"} \cup Adding
PCs == {"off", "fired", "ready"} \cup InCall
Phases == {"run", "sweep", "sync", "unhash", "gone"}

TypeOK ==
    /\ owner \in [Maps -> Timers \cup {None}]
    /\ table \in SUBSET Maps
    /\ pending \in SUBSET Timers
    /\ queued \in SUBSET Maps
    /\ pc \in [Contexts -> PCs]
    /\ arg \in [Contexts -> Timers]
    /\ ptr \in [Contexts -> Maps \cup {None}]
    /\ was \in SUBSET Contexts
    /\ phase \in Phases
    /\ victim \in Maps \cup {None}
    /\ adds \in 0..MaxAdds

\* The blob's memory is uninitialised until it calls init_timer_key: entry.next
\* of a timer may hold anything.
Init ==
    /\ owner = [m \in Maps |-> None]
    /\ table = {}
    /\ pending \in SUBSET Timers
    /\ queued = {}
    /\ pc = [c \in Contexts |-> IF c \in Threads THEN "ready" ELSE "off"]
    /\ arg \in {[c \in Contexts |-> t] : t \in Timers}
    /\ ptr = [c \in Contexts |-> None]
    /\ was = {}
    /\ phase = "run"
    /\ victim = None
    /\ adds = 0

-----------------------------------------------------------------------------
(* The side table and the blob's pending field *)

\* map_find: the hashed maps of a timer (at most one, under InitOnce).
map_find(t) == {m \in table : owner[m] = t}

\* wl_shim_exit calls wl_shadow_timer_exit after wl_blob_cleanup_module, so that
\* no thread is left in the blob.  A callback may still run, and may still call
\* for its own timer: "wl handlers routinely re-arm themselves".
Outlives(c, t) == c \in Maps /\ (owner[c] = t \/ CrossExit)

\* A context may call an entry point for t.  If the blob serialises its calls on
\* t, no other one is in progress.
MayCall(c, t) ==
    /\ pc[c] = "ready"
    /\ phase = "run" \/ Outlives(c, t)
    /\ t \in Serialised => \A d \in Contexts : pc[d] \in InCall => arg[d] # t

-----------------------------------------------------------------------------
(* Faulty variants of the operations below: each is a slip the code could      *)
(* plausibly have contained, and each makes TLC reject a property.             *)

timer_delete_sync_async(m) ==
    queued' = queued \ {m}

DelFind_no_clear(c, t) ==
    /\ MayCall(c, t)
    /\ arg' = [arg EXCEPT ![c] = t]
    /\ \/ \E m \in map_find(t) :
            /\ ptr' = [ptr EXCEPT ![c] = m]
            /\ was' = IF t \in pending THEN was \cup {c} ELSE was \ {c}
            /\ pc' = [pc EXCEPT ![c] = "delReal"]
       \/ /\ map_find(t) = {}
          /\ UNCHANGED <<ptr, was, pc>>
    /\ UNCHANGED <<owner, table, pending, queued, exit, adds>>

Trampoline_no_clear(m) ==
    /\ pc[m] = "fired"
    /\ \E next \in {"ready", "off"} : pc' = [pc EXCEPT ![m] = next]
    /\ UNCHANGED <<owner, table, pending, queued, locals, exit, adds>>

Trampoline_locked_out(m) ==
    /\ pc[m] = "fired"
    /\ phase # "sync"            \* the sweep waits with wl_timer_lock held
    /\ pending' = pending \ {owner[m]}
    /\ \E next \in {"ready", "off"} : pc' = [pc EXCEPT ![m] = next]
    /\ UNCHANGED <<owner, table, queued, locals, exit, adds>>

-----------------------------------------------------------------------------
(* wl_shim_init_timer_key *)

\* The kernel's timer_delete_sync can dequeue m only when its callback is not
\* running (try_to_del_timer_sync loops until then).
timer_delete_sync(m) ==
    /\ pc[m] = "off"
    /\ queued' = queued \ {m}

\* Look the address up under the lock; no map: kzalloc, which may fail.
InitFind(c, t) ==
    /\ MayCall(c, t)
    /\ InitOnce => \A d \in Contexts : pc[d] = "initHash" => arg[d] # t
    /\ arg' = [arg EXCEPT ![c] = t]
    /\ \/ \E m \in map_find(t) :
            /\ ptr' = [ptr EXCEPT ![c] = m]
            /\ pc' = [pc EXCEPT ![c] = "dupSync"]
            /\ UNCHANGED owner
       \/ /\ map_find(t) = {}
          /\ \E m \in {n \in Maps : owner[n] = None} :
               /\ owner' = [owner EXCEPT ![m] = t]
               /\ ptr' = [ptr EXCEPT ![c] = m]
               /\ pc' = [pc EXCEPT ![c] = "initHash"]
       \/ /\ map_find(t) = {}               \* kzalloc(GFP_ATOMIC) failed
          /\ UNCHANGED <<owner, ptr, pc>>
    /\ UNCHANGED <<table, pending, queued, was, exit, adds>>

\* A repeated init on the same address: stop the timer, outside the lock...
InitDupSync(c) ==
    /\ pc[c] = "dupSync"
    /\ timer_delete_sync(ptr[c])
    /\ pc' = [pc EXCEPT ![c] = "dupClear"]
    /\ UNCHANGED <<owner, table, pending, locals, exit, adds>>

\* ... then clear the blob's pending field under it.
InitDupClear(c) ==
    /\ pc[c] = "dupClear"
    /\ pending' = pending \ {owner[ptr[c]]}
    /\ pc' = [pc EXCEPT ![c] = "ready"]
    /\ UNCHANGED <<owner, table, queued, locals, exit, adds>>

\* A first init: clear pending and hash the new map, under the lock.
InitHash(c) ==
    /\ pc[c] = "initHash"
    /\ pending' = pending \ {arg[c]}
    /\ table' = table \cup {ptr[c]}
    /\ pc' = [pc EXCEPT ![c] = "ready"]
    /\ UNCHANGED <<owner, queued, locals, exit, adds>>

-----------------------------------------------------------------------------
(* wl_shim_add_timer *)

\* Under the lock: find the map, read expires, set pending.
\* An unmapped timer is refused with a warning.
AddFind(c, t) ==
    /\ MayCall(c, t)
    /\ adds < MaxAdds
    /\ adds' = adds + 1
    /\ arg' = [arg EXCEPT ![c] = t]
    /\ \/ \E m \in map_find(t) :
            /\ ptr' = [ptr EXCEPT ![c] = m]
            /\ pending' = pending \cup {t}
            /\ pc' = [pc EXCEPT ![c] = "addTest"]
       \/ /\ map_find(t) = {}
          /\ UNCHANGED <<ptr, pending, pc>>
    /\ UNCHANGED <<owner, table, queued, was, exit>>

\* Outside the lock: is the real timer queued?
AddTest(c) ==
    /\ pc[c] = "addTest"
    /\ pc' = [pc EXCEPT ![c] = IF ptr[c] \in queued THEN "addMod" ELSE "addNew"]
    /\ UNCHANGED <<owner, table, pending, queued, locals, exit, adds>>

\* mod_timer, or add_timer if it was not; both leave it queued for `expires`.
AddArm(c) ==
    /\ pc[c] \in {"addMod", "addNew"}
    /\ queued' = queued \cup {ptr[c]}
    /\ pc' = [pc EXCEPT ![c] = "ready"]
    /\ UNCHANGED <<owner, table, pending, locals, exit, adds>>

-----------------------------------------------------------------------------
(* wl_shim_del_timer *)

\* Under the lock: remember the blob's pending field and clear it.
DelFind(c, t) ==
    /\ MayCall(c, t)
    /\ arg' = [arg EXCEPT ![c] = t]
    /\ \/ \E m \in map_find(t) :
            /\ ptr' = [ptr EXCEPT ![c] = m]
            /\ was' = IF t \in pending THEN was \cup {c} ELSE was \ {c}
            /\ pending' = pending \ {t}
            /\ pc' = [pc EXCEPT ![c] = "delReal"]
       \/ /\ map_find(t) = {}               \* return 0
          /\ UNCHANGED <<ptr, was, pending, pc>>
    /\ UNCHANGED <<owner, table, queued, exit, adds>>

\* Outside the lock: timer_delete, its result ignored; return was_pending.
DelReal(c) ==
    /\ pc[c] = "delReal"
    /\ queued' = queued \ {ptr[c]}
    /\ pc' = [pc EXCEPT ![c] = "ready"]
    /\ UNCHANGED <<owner, table, pending, locals, exit, adds>>

-----------------------------------------------------------------------------
(* The kernel's timer core and wl_timer_trampoline *)

\* run_timer_softirq dequeues an expired timer and enters the trampoline.  The
\* kernel never runs the callback of one timer on two CPUs at once.
Expire(m) ==
    /\ m \in queued
    /\ pc[m] = "off"
    /\ queued' = queued \ {m}
    /\ pc' = [pc EXCEPT ![m] = "fired"]
    /\ UNCHANGED <<owner, table, pending, locals, exit, adds>>

\* Under the lock: clear pending, read function and data.  Then call the
\* function, unless it is NULL.
Trampoline(m) ==
    /\ pc[m] = "fired"
    /\ pending' = pending \ {owner[m]}
    /\ \E next \in {"ready", "off"} : pc' = [pc EXCEPT ![m] = next]
    /\ UNCHANGED <<owner, table, queued, locals, exit, adds>>

\* The blob's callback returns.
CallbackReturn(m) ==
    /\ pc[m] = "ready"
    /\ pc' = [pc EXCEPT ![m] = "off"]
    /\ UNCHANGED <<owner, table, pending, queued, locals, exit, adds>>

-----------------------------------------------------------------------------
(* wl_shadow_timer_exit *)

\* The blob's cleanup has returned: no thread is in a call.  Callbacks go on.
ExitBegin ==
    /\ phase = "run"
    /\ \A c \in Contexts : pc[c] \in InCall => Outlives(c, arg[c])
    /\ phase' = "sweep"
    /\ UNCHANGED <<owner, table, pending, queued, pc, locals, victim, adds>>

\* hash_for_each_safe takes the next map...
ExitNext(m) ==
    /\ phase = "sweep"
    /\ m \in table
    /\ victim' = m
    /\ phase' = "sync"
    /\ UNCHANGED <<owner, table, pending, queued, pc, locals, adds>>

\* ... and stops its timer, for which timer_delete_sync polls...
ExitSpin == phase = "sync" /\ pc[victim] # "off" /\ UNCHANGED vars

ExitSync ==
    /\ phase = "sync"
    /\ timer_delete_sync(victim)
    /\ phase' = "unhash"
    /\ UNCHANGED <<owner, table, pending, pc, locals, victim, adds>>

\* ... then hash_del under the lock, and kfree.
ExitUnhash ==
    /\ phase = "unhash"
    /\ table' = table \ {victim}
    /\ owner' = [owner EXCEPT ![victim] = None]
    /\ victim' = None
    /\ phase' = "sweep"
    /\ UNCHANGED <<pending, queued, pc, locals, adds>>

ExitDone ==
    /\ phase = "sweep"
    /\ table = {}
    /\ phase' = "gone"
    /\ UNCHANGED <<owner, table, pending, queued, pc, locals, victim, adds>>

-----------------------------------------------------------------------------

\* Nothing is left to happen once the table is gone and callbacks are over.
Unloaded == phase = "gone" /\ UNCHANGED vars

CallStep(c) ==
    \/ InitDupSync(c) \/ InitDupClear(c) \/ InitHash(c)
    \/ AddTest(c) \/ AddArm(c) \/ DelReal(c)

ExitSweep == (\E m \in Maps : ExitNext(m)) \/ ExitSync \/ ExitUnhash \/ ExitDone

\* init_timer_key is called from the attach and up paths, never from a timer's
\* callback; add_timer and del_timer are called from both.
Next ==
    \/ Unloaded
    \/ \E c \in Threads, t \in Timers : InitFind(c, t)
    \/ \E c \in Contexts, t \in Timers : AddFind(c, t)
    \/ \E c \in Contexts, t \in Timers : DelFind(c, t)
    \/ \E c \in Contexts : CallStep(c)
    \/ \E m \in Maps : Expire(m) \/ Trampoline(m) \/ CallbackReturn(m)
    \/ ExitBegin \/ ExitSweep \/ ExitSpin

Spec == Init /\ [][Next]_vars

\* Calls in progress run on; an armed timer expires (MaxAdds keeps the blob
\* from pushing the expiry forward for ever); a trampoline that was entered
\* runs; the blob's callback returns, whatever calls it makes on the way; rmmod
\* goes on once begun.
Fairness ==
    /\ \A c \in Contexts : WF_vars(CallStep(c))
    /\ \A m \in Maps : WF_vars(Expire(m)) /\ WF_vars(Trampoline(m))
                        /\ SF_vars(CallbackReturn(m))
    /\ WF_vars(ExitSweep)

FairSpec == Spec /\ Fairness

-----------------------------------------------------------------------------
(* Safety *)

\* A timer never has two maps in wl_timer_ht: else it has two real timers, of
\* which del_timer stops one.  wl_shim_init_timer_key drops the lock between the
\* lookup that finds none and hash_add, so this needs InitOnce.
OneMapPerTimer ==
    \A m, n \in table : owner[m] = owner[n] => m = n

\* No call and no trampoline works on a map that was freed, although the unload
\* frees maps while callbacks still re-arm their timers: what an entry point found
\* under the lock is still that timer's map when it is used after the unlock, and
\* a freed map is neither queued nor running.
NoUseAfterFree ==
    /\ \A c \in Contexts : pc[c] \in InCall =>
          ptr[c] \in Maps /\ owner[ptr[c]] = arg[c]
    /\ \A m \in Maps : owner[m] = None => m \notin queued /\ pc[m] = "off"

\* Something is still going to clear the pending field of m's timer.
Backed(m) ==
    \/ m \in queued
    \/ pc[m] = "fired"
    \/ \E c \in Contexts : pc[c] \in Adding \cup {"dupClear"} /\ ptr[c] = m

\* The blob is never told for good that a timer is pending when nothing will
\* fire it: behind a pending field there is a queued real timer, a trampoline
\* about to clear it, or the call that is just arming or resetting it.  (On a
\* timer without serialised calls, the second half of a delete may stop what an
\* add has armed meanwhile.)
PendingBacked ==
    phase = "run" =>
        \A m \in table : owner[m] \in pending \cap Serialised => Backed(m)

\* When a repeated init_timer_key returns, the old timer is neither queued nor
\* running its callback (the blob now rewrites function and data), if the blob
\* makes no other call on the timer meanwhile.
InitQuiesces ==
    [][\A c \in Threads : (pc[c] = "dupClear" /\ pc'[c] = "ready" /\ arg[c] \in Serialised) =>
          ptr[c] \notin queued' /\ pc'[ptr[c]] = "off"]_vars

-----------------------------------------------------------------------------
(* Liveness *)

\* A mapped timer the blob sees as pending is eventually not pending: it fired,
\* or it was deleted, or the module is being unloaded.
PendingResolves ==
    \A t \in Serialised :
        (t \in pending /\ map_find(t) # {}) ~> (t \notin pending \/ phase # "run")

\* wl_shadow_timer_exit terminates: its timer_delete_sync never waits for ever,
\* although the callback it waits for may want wl_timer_lock and arm its timer.
ExitCompletes == phase # "run" ~> phase = "gone"

-----------------------------------------------------------------------------
(* What the comments say and the code does not do *)

\* "add_timer() BUGs on an already-pending timer.  2.6.36's did too, but do not
\* rely on the blob being well-behaved": wl_shim_add_timer never calls add_timer
\* on a queued timer, also if a callback and a thread arm it at once.
NoDoubleAdd ==
    \A c \in Contexts : pc[c] = "addNew" => ptr[c] \notin queued

\* "returns 1 if it actually dequeued a pending timer": when del_timer returns
\* 1, the real timer was still queued and its callback will not run.
DelReturnsDequeued ==
    [][\A c \in Contexts : (pc[c] = "delReal" /\ pc'[c] = "ready" /\ c \in was) =>
          ptr[c] \in queued]_vars

=============================================================================
