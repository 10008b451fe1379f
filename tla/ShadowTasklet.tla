---------------------------- MODULE ShadowTasklet ----------------------------
(***************************************************************************)
(* wl_shadow_tasklet.c: a real kernel tasklet for every 2.6.36             *)
(* tasklet_struct the wl object embeds in its memory.                      *)
(*                                                                         *)
(* The blob has tasklet_schedule() compiled in: it sets the SCHED bit of   *)
(* its own struct and calls __tasklet_schedule only if the bit was clear.  *)
(* So that bit, which no kernel code sees any more, decides whether the    *)
(* handler is ever run again.                                              *)
(*                                                                         *)
(* Contexts: the blob's threads and interrupt handler; for every map, the  *)
(* softirq that runs its trampoline; and the thread that unloads the       *)
(* module.                                                                 *)
(***************************************************************************)
EXTENDS Naturals, FiniteSets

CONSTANTS
    Tasklets,  \* addresses of tasklet_structs inside the blob's memory
    Threads,   \* contexts of the blob outside the tasklet's own handler
    Maps,      \* the struct wl_tasklet_map objects kzalloc can hand out
    Rmmod,     \* the thread that runs wl_shadow_tasklet_exit
    None       \* a NULL pointer

ASSUME TaskletAssumption ==
    /\ Threads \cap Maps = {}
    /\ Rmmod \notin Threads \cup Maps
    /\ None \notin Maps \cup Tasklets

Contexts == Threads \cup Maps \cup {Rmmod}

VARIABLES
    owner,    \* m->blob; None while m is not allocated
    table,    \* the maps hashed in wl_tasklet_ht
    blobSched,\* tasklets with SCHED set in the blob's own struct
    sched,    \* maps with SCHED set in the real tasklet
    queued,   \* maps on the kernel's list of tasklets to run
    owed,     \* mapped tasklets scheduled since the last run began
    pc,       \* where each context is
    arg,      \* blob_t, the argument of the call in progress
    ptr       \* the local m of the call in progress

vars == <<owner, table, blobSched, sched, queued, owed, pc, arg, ptr>>

\* "off": not running.  "fired": the kernel has entered wl_tasklet_tramp, which
\* has not yet cleared the blob's bit.  "ready": in blob code.
Scheduling == {"schedFind", "schedReal"}
Changing == {"dupClear", "initHash", "killWait", "killRun", "killFree"}
InCall == Scheduling \cup Changing
PCs == {"off", "fired", "ready", "sweep", "exitUnhash", "gone"} \cup InCall

TypeOK ==
    /\ owner \in [Maps -> Tasklets \cup {None}]
    /\ table \in SUBSET Maps
    /\ blobSched \in SUBSET Tasklets
    /\ sched \in SUBSET Maps
    /\ queued \in SUBSET Maps
    /\ owed \in SUBSET Tasklets
    /\ pc \in [Contexts -> PCs]
    /\ arg \in [Contexts -> Tasklets]
    /\ ptr \in [Contexts -> Maps \cup {None}]

\* The blob's structs hold anything until tasklet_init.
Init ==
    /\ owner = [m \in Maps |-> None]
    /\ table = {}
    /\ blobSched \in SUBSET Tasklets
    /\ sched = {}
    /\ queued = {}
    /\ owed = {}
    /\ pc = [c \in Contexts |-> IF c \in Threads THEN "ready" ELSE "off"]
    /\ arg \in {[c \in Contexts |-> t] : t \in Tasklets}
    /\ ptr = [c \in Contexts |-> None]

-----------------------------------------------------------------------------

map_find(t) == {m \in table : owner[m] = t}

Goto(c, next) == pc' = [pc EXCEPT ![c] = next]

\* The blob calls tasklet_init and tasklet_kill on t only when no other thread
\* is in a call on t: it frees its interrupt before it kills the tasklet.  The
\* tasklet's own handler is not held back.
Alone(c, t) ==
    /\ pc[Rmmod] = "off"
    /\ pc[c] = "ready"
    /\ \A d \in Threads : pc[d] \in InCall => arg[d] # t

\* A thread may schedule t unless a thread is initialising or killing it; the
\* handler of t may schedule t at any time.
MaySchedule(c, t) ==
    /\ pc[c] = "ready"
    /\ \/ c \in Maps /\ owner[c] = t
       \/ /\ c \in Threads
          /\ pc[Rmmod] = "off"
          /\ \A d \in Threads : pc[d] \in Changing => arg[d] # t

-----------------------------------------------------------------------------
(* Faulty variants, each rejected by a property *)

TrampClear_omitted(m) ==
    /\ pc[m] = "fired"
    /\ owed' = owed \ {owner[m]}
    /\ Goto(m, "ready")
    /\ UNCHANGED <<owner, table, blobSched, sched, queued, arg, ptr>>

tasklet_kill_run_nowait(c) ==
    /\ pc[c] = "killRun"
    /\ sched' = sched \ {ptr[c]}
    /\ Goto(c, IF c = Rmmod THEN "exitUnhash" ELSE "killFree")
    /\ UNCHANGED <<owner, table, blobSched, queued, owed, arg, ptr>>

\* tasklet_kill called before wl_tasklet_lock is released: a handler that
\* schedules waits for the lock, and tasklet_kill for the handler.
SchedFind_locked_out(c) ==
    /\ pc[c] = "schedFind"
    /\ \A k \in Contexts : pc[k] \notin {"killWait", "killRun"}
    /\ \/ \E m \in map_find(arg[c]) :
            /\ ptr' = [ptr EXCEPT ![c] = m]
            /\ Goto(c, "schedReal")
       \/ /\ map_find(arg[c]) = {}
          /\ Goto(c, "ready")
          /\ UNCHANGED ptr
    /\ UNCHANGED <<owner, table, blobSched, sched, queued, owed, arg>>

-----------------------------------------------------------------------------
(* wl_shim_tasklet_init *)

\* Look the address up under the lock.  A repeated init takes the new handler
\* over; a first one allocates a map (kzalloc may fail) and clears SCHED.
InitFind(c, t) ==
    /\ Alone(c, t)
    /\ arg' = [arg EXCEPT ![c] = t]
    /\ \/ \E m \in map_find(t) :
            /\ ptr' = [ptr EXCEPT ![c] = m]
            /\ Goto(c, "dupClear")
            /\ UNCHANGED <<owner, blobSched>>
       \/ /\ map_find(t) = {}
          /\ \E m \in {n \in Maps : owner[n] = None} :
               /\ owner' = [owner EXCEPT ![m] = t]
               /\ ptr' = [ptr EXCEPT ![c] = m]
               /\ blobSched' = blobSched \ {t}
               /\ Goto(c, "initHash")
       \/ /\ map_find(t) = {}               \* kzalloc(GFP_ATOMIC) failed
          /\ UNCHANGED <<owner, ptr, blobSched, pc>>
    /\ UNCHANGED <<table, sched, queued, owed>>

\* A repeated init clears the blob's SCHED bit, outside the lock.
InitDupClear(c) ==
    /\ pc[c] = "dupClear"
    /\ blobSched' = blobSched \ {arg[c]}
    /\ Goto(c, "ready")
    /\ UNCHANGED <<owner, table, sched, queued, owed, arg, ptr>>

InitHash(c) ==
    /\ pc[c] = "initHash"
    /\ table' = table \cup {ptr[c]}
    /\ Goto(c, "ready")
    /\ UNCHANGED <<owner, blobSched, sched, queued, owed, arg, ptr>>

-----------------------------------------------------------------------------
(* The blob's inlined tasklet_schedule and wl_shim___tasklet_schedule *)

\* The blob does test_and_set_bit(SCHED) in its own struct; if the bit was set
\* it relies on the run that is still to come.
BlobSchedule(c, t) ==
    /\ MaySchedule(c, t)
    /\ owed' = IF map_find(t) = {} THEN owed ELSE owed \cup {t}
    /\ arg' = [arg EXCEPT ![c] = t]
    /\ blobSched' = blobSched \cup {t}
    /\ Goto(c, IF t \in blobSched THEN "ready" ELSE "schedFind")
    /\ UNCHANGED <<owner, table, sched, queued, ptr>>

\* Find the map under the lock; an unmapped tasklet is dropped with a warning.
SchedFind(c) ==
    /\ pc[c] = "schedFind"
    /\ \/ \E m \in map_find(arg[c]) :
            /\ ptr' = [ptr EXCEPT ![c] = m]
            /\ Goto(c, "schedReal")
       \/ /\ map_find(arg[c]) = {}
          /\ Goto(c, "ready")
          /\ UNCHANGED ptr
    /\ UNCHANGED <<owner, table, blobSched, sched, queued, owed, arg>>

\* tasklet_schedule(&m->real): queue it unless its SCHED bit is already set.
SchedReal(c) ==
    /\ pc[c] = "schedReal"
    /\ sched' = sched \cup {ptr[c]}
    /\ queued' = IF ptr[c] \in sched THEN queued ELSE queued \cup {ptr[c]}
    /\ Goto(c, "ready")
    /\ UNCHANGED <<owner, table, blobSched, owed, arg, ptr>>

-----------------------------------------------------------------------------
(* wl_shim_tasklet_kill *)

\* Unhash the map under the lock.
KillFind(c, t) ==
    /\ Alone(c, t)
    /\ arg' = [arg EXCEPT ![c] = t]
    /\ \/ \E m \in map_find(t) :
            /\ table' = table \ {m}
            /\ ptr' = [ptr EXCEPT ![c] = m]
            /\ Goto(c, "killWait")
       \/ /\ map_find(t) = {}
          /\ UNCHANGED <<table, ptr, pc>>
    /\ UNCHANGED <<owner, blobSched, sched, queued, owed>>

\* The kernel's tasklet_kill polls both of the bits it waits for.
tasklet_kill_poll(c) ==
    /\ pc[c] \in {"killWait", "killRun"}
    /\ UNCHANGED vars

\* The kernel's tasklet_kill, first half: wait until the tasklet is no longer
\* scheduled and take its SCHED bit, so that nobody can queue it.
tasklet_kill_wait(c) ==
    /\ pc[c] = "killWait"
    /\ ptr[c] \notin sched
    /\ sched' = sched \cup {ptr[c]}
    /\ Goto(c, "killRun")
    /\ UNCHANGED <<owner, table, blobSched, queued, owed, arg, ptr>>

\* Second half: wait until its handler is not running, give the bit back.
tasklet_kill_run(c) ==
    /\ pc[c] = "killRun"
    /\ pc[ptr[c]] = "off"
    /\ sched' = sched \ {ptr[c]}
    /\ Goto(c, IF c = Rmmod THEN "exitUnhash" ELSE "killFree")
    /\ UNCHANGED <<owner, table, blobSched, queued, owed, arg, ptr>>

\* Clear the blob's SCHED bit and free the map.
KillFree(c) ==
    /\ pc[c] = "killFree"
    /\ blobSched' = blobSched \ {arg[c]}
    /\ owner' = [owner EXCEPT ![ptr[c]] = None]
    /\ owed' = owed \ {arg[c]}
    /\ Goto(c, "ready")
    /\ UNCHANGED <<table, sched, queued, arg, ptr>>

-----------------------------------------------------------------------------
(* The kernel's softirq and wl_tasklet_tramp *)

\* tasklet_action dequeues the tasklet, clears its SCHED bit and enters the
\* trampoline; it never runs one tasklet on two CPUs.
Run(m) ==
    /\ m \in queued
    /\ pc[m] = "off"
    /\ queued' = queued \ {m}
    /\ sched' = sched \ {m}
    /\ Goto(m, "fired")
    /\ UNCHANGED <<owner, table, blobSched, owed, arg, ptr>>

\* Clear the blob's SCHED bit, then call the handler (whose run serves every
\* schedule made so far) unless m->func is NULL.
TrampClear(m) ==
    /\ pc[m] = "fired"
    /\ blobSched' = blobSched \ {owner[m]}
    /\ owed' = owed \ {owner[m]}
    /\ \E next \in {"ready", "off"} : Goto(m, next)
    /\ UNCHANGED <<owner, table, sched, queued, arg, ptr>>

HandlerReturn(m) ==
    /\ pc[m] = "ready"
    /\ Goto(m, "off")
    /\ UNCHANGED <<owner, table, blobSched, sched, queued, owed, arg, ptr>>

-----------------------------------------------------------------------------
(* wl_shadow_tasklet_exit *)

\* Called once blob_cleanup has left no thread of the blob in a call.
ExitBegin ==
    /\ pc[Rmmod] = "off"
    /\ \A c \in Threads : pc[c] \notin InCall
    /\ Goto(Rmmod, "sweep")
    /\ UNCHANGED <<owner, table, blobSched, sched, queued, owed, arg, ptr>>

\* hash_for_each_safe: kill the map's tasklet (tasklet_kill_wait and _run)...
ExitPick(m) ==
    /\ pc[Rmmod] = "sweep"
    /\ m \in table
    /\ ptr' = [ptr EXCEPT ![Rmmod] = m]
    /\ Goto(Rmmod, "killWait")
    /\ UNCHANGED <<owner, table, blobSched, sched, queued, owed, arg>>

\* ... then unhash it under the lock, and kfree.
ExitUnhash ==
    /\ pc[Rmmod] = "exitUnhash"
    /\ table' = table \ {ptr[Rmmod]}
    /\ owner' = [owner EXCEPT ![ptr[Rmmod]] = None]
    /\ Goto(Rmmod, "sweep")
    /\ UNCHANGED <<blobSched, sched, queued, owed, arg, ptr>>

ExitDone ==
    /\ pc[Rmmod] = "sweep"
    /\ table = {}
    /\ Goto(Rmmod, "gone")
    /\ UNCHANGED <<owner, table, blobSched, sched, queued, owed, arg, ptr>>

-----------------------------------------------------------------------------

Unloaded == pc[Rmmod] = "gone" /\ UNCHANGED vars

CallStep(c) ==
    \/ InitDupClear(c) \/ InitHash(c)
    \/ SchedFind(c) \/ SchedReal(c)
    \/ tasklet_kill_wait(c) \/ tasklet_kill_run(c) \/ KillFree(c)

Next ==
    \/ Unloaded
    \/ \E c \in Threads, t \in Tasklets : KillFind(c, t)
    \/ \E c \in Threads, t \in Tasklets : InitFind(c, t)
    \/ \E c \in Threads \cup Maps, t \in Tasklets : BlobSchedule(c, t)
    \/ \E c \in Contexts : CallStep(c) \/ tasklet_kill_poll(c)
    \/ \E m \in Maps : Run(m) \/ TrampClear(m) \/ HandlerReturn(m)
    \/ ExitBegin \/ (\E m \in Maps : ExitPick(m)) \/ ExitUnhash \/ ExitDone

Spec == Init /\ [][Next]_vars

\* A context that can go on does; a queued tasklet is run; a handler returns,
\* whatever it calls on the way.  tasklet_kill gets nothing beyond that: if the
\* bit it polls is cleared and set again for ever, it may wait for ever.
Fairness ==
    /\ \A c \in Contexts : WF_vars(CallStep(c))
    /\ \A m \in Maps : WF_vars(Run(m)) /\ WF_vars(TrampClear(m))
                        /\ SF_vars(HandlerReturn(m))
    /\ WF_vars((\E m \in Maps : ExitPick(m)) \/ ExitUnhash \/ ExitDone)

FairSpec == Spec /\ Fairness

-----------------------------------------------------------------------------
(* Safety *)

\* A tasklet has at most one map in wl_tasklet_ht.
OneMapPerTasklet ==
    \A m, n \in table : owner[m] = owner[n] => m = n

\* No map is used after kfree: the map that __tasklet_schedule found before it
\* dropped the lock is still allocated when it queues it, even when a handler
\* reschedules itself while tasklet_kill or the unload waits for it; and a
\* freed map is neither queued nor running.
NoUseAfterFree ==
    /\ \A c \in Contexts : pc[c] \in {"schedReal", "initHash", "dupClear"} =>
          ptr[c] \in Maps /\ owner[ptr[c]] = arg[c]
    /\ \A m \in Maps : owner[m] = None => m \notin queued /\ pc[m] = "off"

\* The blob's SCHED bit is never set with nothing behind it, for a mapped
\* tasklet: the real one is queued, or its trampoline is about to clear the
\* bit, or a call is on its way to queue it or to clear the bit.  Otherwise the
\* blob's inlined tasklet_schedule would never schedule it again.
SchedBacked ==
    \A m \in table : owner[m] \in blobSched =>
        \/ m \in queued
        \/ pc[m] = "fired"
        \/ \E c \in Contexts : arg[c] = owner[m] /\ pc[c] \in Scheduling \cup {"dupClear"}
        \/ pc[Rmmod] # "off"

-----------------------------------------------------------------------------
(* Liveness *)

\* No wakeup is lost: every schedule of a mapped tasklet is followed by a run of
\* its trampoline that begins later, unless the tasklet is killed.
RunFollows ==
    \A t \in Tasklets :
        (t \in owed /\ map_find(t) # {}) ~>
            \/ t \notin owed
            \/ pc[Rmmod] # "off"

\* wl_shim_tasklet_kill returns, even if the handler reschedules itself on every
\* run: it has unhashed the map, so that the next __tasklet_schedule finds none.
\* wl_shadow_tasklet_exit unhashes only after tasklet_kill: it returns unless a
\* handler schedules for ever.
KillReturns ==
    /\ \A c \in Threads : pc[c] = "killWait" ~> pc[c] = "ready"
    /\ \/ []<>(\E m \in Maps : pc[m] = "schedFind")
       \/ pc[Rmmod] = "sweep" ~> pc[Rmmod] = "gone"

=============================================================================
