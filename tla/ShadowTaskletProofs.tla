------------------------- MODULE ShadowTaskletProofs -------------------------
(***************************************************************************)
(* Proofs about ShadowTasklet, for any number of tasklets, threads and     *)
(* maps.  TaskletInv is inductive; it implies NoUseAfterFree,              *)
(* OneMapPerTasklet and SchedBacked.                                       *)
(***************************************************************************)
EXTENDS ShadowTasklet, TLAPS

Killers == Threads \cup {Rmmod}
Killing == {"killWait", "killRun", "killFree"}

\* Where each kind of context can be.
Roles ==
    /\ pc[Rmmod] \in {"off", "sweep", "killWait", "killRun", "exitUnhash", "gone"}
    /\ \A c \in Threads : pc[c] \in {"ready"} \cup InCall
    /\ \A m \in Maps : pc[m] \in {"off", "fired", "ready"} \cup Scheduling

\* A thread's call works on a map of its tasklet; one that initialises or kills
\* a tasklet is the only call on it; the map it makes or kills is not hashed.
CallInv ==
    /\ \A c \in Threads : pc[c] \in {"schedReal"} \cup Changing =>
          ptr[c] \in Maps /\ owner[ptr[c]] = arg[c]
    /\ \A c \in Threads : pc[c] \in Killing \cup {"initHash"} => ptr[c] \notin table
    /\ \A c, d \in Threads :
          pc[c] \in Changing /\ pc[d] \in InCall /\ arg[c] = arg[d] => c = d

\* The unload begins without calls, and works on hashed maps.
ExitInv ==
    /\ pc[Rmmod] # "off" => \A c \in Threads : pc[c] \notin InCall
    /\ pc[Rmmod] \in {"killWait", "killRun", "exitUnhash"} => ptr[Rmmod] \in table

\* A handler runs on an allocated map and schedules its own tasklet only.
HandlerInv ==
    \A m \in Maps : /\ pc[m] # "off" => owner[m] # None
                    /\ pc[m] \in Scheduling => arg[m] = owner[m]
                    /\ pc[m] = "schedReal" => ptr[m] = m

\* A tasklet has one map, hashed or not; one that is not hashed is being made or
\* killed.
AllocInv ==
    /\ \A m, n \in Maps : owner[m] # None /\ owner[m] = owner[n] => m = n
    /\ \A m \in table : owner[m] # None
    /\ \A m \in Maps \ table : owner[m] # None =>
          \E c \in Threads : pc[c] \in Killing \cup {"initHash"} /\ ptr[c] = m

\* The real SCHED bit is set for a queued tasklet or held by tasklet_kill; after
\* tasklet_kill, and before a new map is hashed, the map is idle.
SchedInv ==
    /\ queued \subseteq sched
    /\ \A m \in sched \ queued : \E c \in Killers : pc[c] = "killRun" /\ ptr[c] = m
    /\ \A c \in Killers : pc[c] = "killRun" => ptr[c] \in sched \ queued
    /\ \A c \in Killers : pc[c] \in {"killFree", "exitUnhash", "initHash"} =>
          ptr[c] \notin sched /\ pc[ptr[c]] = "off"
    /\ \A m \in sched : owner[m] # None
    /\ \A c \in Threads : pc[c] = "initHash" => arg[c] \notin blobSched

TaskletInv == /\ TypeOK /\ Roles /\ CallInv /\ ExitInv /\ HandlerInv /\ AllocInv
              /\ SchedInv /\ SchedBacked

-----------------------------------------------------------------------------
(* One lemma per action *)

\* wl_shim_tasklet_init: the lookup finds the one map of the tasklet or makes one that
\* nobody else has.
LEMMA InitFindKeeps ==
    ASSUME TaskletInv, NEW c \in Threads, NEW t \in Tasklets, InitFind(c, t)
    PROVE  TaskletInv'
<1> USE TaskletAssumption DEF TaskletInv, TypeOK, Contexts, InitFind, Alone, map_find, Goto
<1>1. TypeOK'
  BY DEF InCall, Changing, PCs
<1>2. Roles'
  BY DEF Roles, InCall, Changing
<1>3. CallInv'
  BY DEF CallInv, AllocInv, Killing, Changing, PCs
<1>4. ExitInv'
  BY DEF ExitInv
<1>5. HandlerInv'
  BY DEF HandlerInv
<1>6. AllocInv'
  BY DEF CallInv, AllocInv, Killing, Changing, PCs
<1>7. SchedInv'
  BY DEF Roles, CallInv, HandlerInv, SchedInv, Killers, InCall, Scheduling
<1>8. SchedBacked'
  BY DEF SchedBacked, Scheduling
<1> QED
  BY <1>1, <1>2, <1>3, <1>4, <1>5, <1>6, <1>7, <1>8

\* The end of a repeated init: with the blob's bit clear nothing need back it.
LEMMA DupClearKeeps ==
    ASSUME TaskletInv, NEW c \in Contexts, InitDupClear(c)
    PROVE  TaskletInv'
<1> USE TaskletAssumption DEF TaskletInv, TypeOK, Contexts, InitDupClear, Goto
<1>1. TypeOK'
  BY DEF PCs
<1>2. Roles'
  BY DEF Roles
<1>3. CallInv'
  BY DEF CallInv, Killing, Changing, PCs
<1>4. ExitInv'
  BY DEF ExitInv, PCs
<1>5. HandlerInv'
  BY DEF HandlerInv, Scheduling
<1>6. AllocInv'
  BY DEF AllocInv, Killing
<1>7. SchedInv'
  BY DEF SchedInv
<1>8. SchedBacked'
  BY DEF SchedBacked
<1> QED
  BY <1>1, <1>2, <1>3, <1>4, <1>5, <1>6, <1>7, <1>8

\* hash_add of a new map, whose tasklet is idle and whose SCHED bit is clear.
LEMMA HashKeeps ==
    ASSUME TaskletInv, NEW c \in Contexts, InitHash(c)
    PROVE  TaskletInv'
<1> USE TaskletAssumption DEF TaskletInv, TypeOK, Contexts, InitHash, Goto
<1>1. TypeOK'
  BY DEF Roles, CallInv, Scheduling, Changing, PCs
<1>2. Roles'
  BY DEF Roles
<1>3. CallInv'
  BY DEF Roles, CallInv, Killing, Scheduling, Changing
<1>4. ExitInv'
  BY DEF ExitInv, PCs
<1>5. HandlerInv'
  BY DEF HandlerInv, Scheduling
<1>6. AllocInv'
  BY DEF Roles, CallInv, AllocInv, Scheduling, Changing
<1>7. SchedInv'
  BY DEF SchedInv
<1>8. SchedBacked'
  BY DEF Roles, CallInv, SchedInv, SchedBacked, Scheduling, Changing
<1> QED
  BY <1>1, <1>2, <1>3, <1>4, <1>5, <1>6, <1>7, <1>8

\* The blob's inlined tasklet_schedule: a bit that was clear is now backed by this
\* call, one that was set by what backed it before.
LEMMA BlobScheduleKeeps ==
    ASSUME TaskletInv, NEW c \in Threads \cup Maps, NEW t \in Tasklets, BlobSchedule(c, t)
    PROVE  TaskletInv'
<1> USE TaskletAssumption DEF TaskletInv, TypeOK, Contexts, BlobSchedule, MaySchedule, Goto
<1>1. TypeOK'
  BY DEF InCall, Scheduling, PCs
<1>2. Roles'
  BY DEF Roles, InCall, Scheduling
<1>3. CallInv'
  BY DEF CallInv, Killing, Changing
<1>4. ExitInv'
  BY DEF ExitInv
<1>5. HandlerInv'
  BY DEF HandlerInv
<1>6. AllocInv'
  BY DEF AllocInv, Killing
<1>7. SchedInv'
  BY DEF CallInv, AllocInv, SchedInv, Killers, Changing
<1>8. SchedBacked'
  BY DEF SchedBacked, Scheduling
<1> QED
  BY <1>1, <1>2, <1>3, <1>4, <1>5, <1>6, <1>7, <1>8

\* The lookup of __tasklet_schedule; a handler can only find its own map.
LEMMA SchedFindKeeps ==
    ASSUME TaskletInv, NEW c \in Contexts, SchedFind(c)
    PROVE  TaskletInv'
<1> USE TaskletAssumption DEF TaskletInv, TypeOK, Contexts, SchedFind, map_find, Goto
<1>1. TypeOK'
  BY DEF InCall, Scheduling, PCs
<1>2. Roles'
  BY DEF Roles, InCall, Scheduling
<1>3. CallInv'
  BY DEF CallInv, Killing, Changing, PCs
<1>4. ExitInv'
  BY DEF ExitInv, PCs
<1>5. HandlerInv'
  BY DEF HandlerInv, AllocInv, Scheduling
<1>6. AllocInv'
  BY DEF AllocInv, Killing
<1>7. SchedInv'
  BY DEF Roles, CallInv, ExitInv, SchedInv, Killers, InCall, Scheduling
<1>8. SchedBacked'
  BY DEF SchedBacked, Scheduling
<1> QED
  BY <1>1, <1>2, <1>3, <1>4, <1>5, <1>6, <1>7, <1>8

\* tasklet_schedule of the real tasklet, if its bit is not held by tasklet_kill.
LEMMA SchedRealKeeps ==
    ASSUME TaskletInv, NEW c \in Contexts, SchedReal(c)
    PROVE  TaskletInv'
<1> USE TaskletAssumption DEF TaskletInv, TypeOK, Contexts, SchedReal, Goto
<1>1. TypeOK'
  BY DEF Roles, CallInv, HandlerInv, PCs
<1>2. Roles'
  BY DEF Roles
<1>3. CallInv'
  BY DEF CallInv, Killing, Changing, PCs
<1>4. ExitInv'
  BY DEF ExitInv, PCs
<1>5. HandlerInv'
  BY DEF HandlerInv, Scheduling
<1>6. AllocInv'
  BY DEF AllocInv, Killing
<1>7. SchedInv'
  BY DEF Roles, CallInv, ExitInv, HandlerInv, SchedInv, Killers, InCall, Scheduling
<1>8. SchedBacked'
  BY DEF CallInv, HandlerInv, AllocInv, SchedInv, SchedBacked, Killers, Killing
<1> QED
  BY <1>1, <1>2, <1>3, <1>4, <1>5, <1>6, <1>7, <1>8

\* tasklet_kill unhashes the map; no other call is on the tasklet.
LEMMA KillFindKeeps ==
    ASSUME TaskletInv, NEW c \in Threads, NEW t \in Tasklets, KillFind(c, t)
    PROVE  TaskletInv'
<1> USE TaskletAssumption DEF TaskletInv, TypeOK, Contexts, KillFind, Alone, map_find, Goto
<1>1. TypeOK'
  BY DEF InCall, Changing, PCs
<1>2. Roles'
  BY DEF Roles, InCall, Changing
<1>3. CallInv'
  BY DEF CallInv, Changing, PCs
<1>4. ExitInv'
  BY DEF ExitInv
<1>5. HandlerInv'
  BY DEF HandlerInv
<1>6. AllocInv'
  BY DEF AllocInv, Killing
<1>7. SchedInv'
  BY DEF Roles, CallInv, SchedInv, Killers, InCall, Scheduling
<1>8. SchedBacked'
  BY DEF SchedBacked, Scheduling
<1> QED
  BY <1>1, <1>2, <1>3, <1>4, <1>5, <1>6, <1>7, <1>8

\* The kernel's tasklet_kill takes the real bit of a tasklet that is not queued.
LEMMA KillWaitKeeps ==
    ASSUME TaskletInv, NEW c \in Contexts, tasklet_kill_wait(c)
    PROVE  TaskletInv'
<1> USE TaskletAssumption DEF TaskletInv, TypeOK, Contexts, tasklet_kill_wait, Goto
<1>1. TypeOK'
  BY DEF Roles, CallInv, ExitInv, InCall, Scheduling, Changing, PCs
<1>2. Roles'
  BY DEF Roles, InCall, Scheduling, Changing
<1>3. CallInv'
  BY DEF CallInv, Killing, Changing, PCs
<1>4. ExitInv'
  BY DEF ExitInv, PCs
<1>5. HandlerInv'
  BY DEF HandlerInv, Scheduling
<1>6. AllocInv'
  BY DEF AllocInv, Killing
<1>7. SchedInv'
  BY DEF Roles, CallInv, ExitInv, AllocInv, SchedInv, Killers, InCall, Scheduling
<1>8. SchedBacked'
  BY DEF SchedBacked, Scheduling
<1> QED
  BY <1>1, <1>2, <1>3, <1>4, <1>5, <1>6, <1>7, <1>8

\* It gives the bit back when the handler has returned: nobody is left to queue it.
LEMMA KillRunKeeps ==
    ASSUME TaskletInv, NEW c \in Contexts, tasklet_kill_run(c)
    PROVE  TaskletInv'
<1> USE TaskletAssumption DEF TaskletInv, TypeOK, Contexts, tasklet_kill_run, Goto
<1>1. TypeOK'
  BY DEF InCall, Changing, PCs
<1>2. Roles'
  BY DEF Roles, InCall, Scheduling, Changing
<1>3. CallInv'
  BY DEF CallInv, Killing, Changing, PCs
<1>4. ExitInv'
  BY DEF ExitInv, PCs
<1>5. HandlerInv'
  BY DEF HandlerInv, Scheduling
<1>6. AllocInv'
  BY DEF AllocInv, Killing
<1>7. SchedInv'
  BY DEF Roles, CallInv, ExitInv, SchedInv, Killers, Scheduling, Changing
<1>8. SchedBacked'
  BY DEF SchedBacked, Scheduling
<1> QED
  BY <1>1, <1>2, <1>3, <1>4, <1>5, <1>6, <1>7, <1>8

\* kfree of a map that is neither queued nor running, nor in anybody's hands.
LEMMA KillFreeKeeps ==
    ASSUME TaskletInv, NEW c \in Contexts, KillFree(c)
    PROVE  TaskletInv'
<1> USE TaskletAssumption DEF TaskletInv, TypeOK, Contexts, KillFree, Goto
<1>1. TypeOK'
  BY DEF Roles, CallInv, Scheduling, Changing, PCs
<1>2. Roles'
  BY DEF Roles
<1>3. CallInv'
  BY DEF Roles, CallInv, Killing, Scheduling, Changing
<1>4. ExitInv'
  BY DEF ExitInv, PCs
<1>5. HandlerInv'
  BY DEF Roles, HandlerInv, SchedInv, Killers, Scheduling
<1>6. AllocInv'
  BY DEF Roles, CallInv, AllocInv, Killing, Scheduling
<1>7. SchedInv'
  BY DEF Roles, SchedInv, Killers, Scheduling
<1>8. SchedBacked'
  BY DEF SchedBacked
<1> QED
  BY <1>1, <1>2, <1>3, <1>4, <1>5, <1>6, <1>7, <1>8

\* The softirq dequeues the tasklet; the trampoline now backs the blob's bit.
LEMMA RunKeeps ==
    ASSUME TaskletInv, NEW m \in Maps, Run(m)
    PROVE  TaskletInv'
<1> USE TaskletAssumption DEF TaskletInv, TypeOK, Contexts, Run, Goto
<1>1. TypeOK'
  BY DEF PCs
<1>2. Roles'
  BY DEF Roles
<1>3. CallInv'
  BY DEF CallInv
<1>4. ExitInv'
  BY DEF ExitInv
<1>5. HandlerInv'
  BY DEF HandlerInv, SchedInv, Scheduling
<1>6. AllocInv'
  BY DEF AllocInv
<1>7. SchedInv'
  BY DEF SchedInv
<1>8. SchedBacked'
  BY DEF SchedBacked, Scheduling
<1> QED
  BY <1>1, <1>2, <1>3, <1>4, <1>5, <1>6, <1>7, <1>8

\* The trampoline clears the blob's bit.
LEMMA TrampKeeps ==
    ASSUME TaskletInv, NEW m \in Maps, TrampClear(m)
    PROVE  TaskletInv'
<1> USE TaskletAssumption DEF TaskletInv, TypeOK, Contexts, TrampClear, Goto
<1>1. TypeOK'
  BY DEF PCs
<1>2. Roles'
  BY DEF Roles
<1>3. CallInv'
  BY DEF CallInv
<1>4. ExitInv'
  BY DEF ExitInv
<1>5. HandlerInv'
  BY DEF HandlerInv, Scheduling
<1>6. AllocInv'
  BY DEF AllocInv
<1>7. SchedInv'
  BY DEF SchedInv
<1>8. SchedBacked'
  BY DEF SchedBacked, Scheduling
<1> QED
  BY <1>1, <1>2, <1>3, <1>4, <1>5, <1>6, <1>7, <1>8

\* The handler returns.
LEMMA ReturnKeeps ==
    ASSUME TaskletInv, NEW m \in Maps, HandlerReturn(m)
    PROVE  TaskletInv'
<1> USE TaskletAssumption DEF TaskletInv, TypeOK, Contexts, HandlerReturn, Goto
<1>1. TypeOK'
  BY DEF PCs
<1>2. Roles'
  BY DEF Roles
<1>3. CallInv'
  BY DEF CallInv
<1>4. ExitInv'
  BY DEF ExitInv
<1>5. HandlerInv'
  BY DEF HandlerInv, Scheduling
<1>6. AllocInv'
  BY DEF AllocInv
<1>7. SchedInv'
  BY DEF SchedInv
<1>8. SchedBacked'
  BY DEF SchedBacked, Scheduling
<1> QED
  BY <1>1, <1>2, <1>3, <1>4, <1>5, <1>6, <1>7, <1>8

\* The unload begins when no thread of the blob is in a call.
LEMMA ExitBeginKeeps ==
    ASSUME TaskletInv, ExitBegin
    PROVE  TaskletInv'
<1> USE TaskletAssumption DEF TaskletInv, TypeOK, Contexts, ExitBegin, Goto
<1>1. TypeOK'
  BY DEF PCs
<1>2. Roles'
  BY DEF Roles
<1>3. CallInv'
  BY DEF CallInv
<1>4. ExitInv'
  BY DEF ExitInv
<1>5. HandlerInv'
  BY DEF HandlerInv
<1>6. AllocInv'
  BY DEF AllocInv
<1>7. SchedInv'
  BY DEF Roles, SchedInv, Killers
<1>8. SchedBacked'
  BY DEF SchedBacked
<1> QED
  BY <1>1, <1>2, <1>3, <1>4, <1>5, <1>6, <1>7, <1>8

\* The unload turns to a hashed map.
LEMMA ExitPickKeeps ==
    ASSUME TaskletInv, NEW m \in Maps, ExitPick(m)
    PROVE  TaskletInv'
<1> USE TaskletAssumption DEF TaskletInv, TypeOK, Contexts, ExitPick, Goto
<1>1. TypeOK'
  BY DEF InCall, Changing, PCs
<1>2. Roles'
  BY DEF Roles
<1>3. CallInv'
  BY DEF CallInv
<1>4. ExitInv'
  BY DEF ExitInv
<1>5. HandlerInv'
  BY DEF HandlerInv
<1>6. AllocInv'
  BY DEF AllocInv
<1>7. SchedInv'
  BY DEF SchedInv
<1>8. SchedBacked'
  BY DEF SchedBacked
<1> QED
  BY <1>1, <1>2, <1>3, <1>4, <1>5, <1>6, <1>7, <1>8

\* The unload frees a map that tasklet_kill has found idle.
LEMMA ExitUnhashKeeps ==
    ASSUME TaskletInv, ExitUnhash
    PROVE  TaskletInv'
<1> USE TaskletAssumption DEF TaskletInv, TypeOK, Contexts, ExitUnhash, Goto
<1>1. TypeOK'
  BY DEF ExitInv, PCs
<1>2. Roles'
  BY DEF Roles
<1>3. CallInv'
  BY DEF CallInv, ExitInv, Changing, PCs
<1>4. ExitInv'
  BY DEF ExitInv
<1>5. HandlerInv'
  BY DEF HandlerInv, SchedInv, Killers, Scheduling
<1>6. AllocInv'
  BY DEF AllocInv
<1>7. SchedInv'
  BY DEF SchedInv, Killers
<1>8. SchedBacked'
  BY DEF SchedBacked
<1> QED
  BY <1>1, <1>2, <1>3, <1>4, <1>5, <1>6, <1>7, <1>8

\* The unload ends.
LEMMA ExitDoneKeeps ==
    ASSUME TaskletInv, ExitDone
    PROVE  TaskletInv'
<1> USE TaskletAssumption DEF TaskletInv, TypeOK, Contexts, ExitDone, Goto
<1>1. TypeOK'
  BY DEF PCs
<1>2. Roles'
  BY DEF Roles
<1>3. CallInv'
  BY DEF CallInv
<1>4. ExitInv'
  BY DEF ExitInv
<1>5. HandlerInv'
  BY DEF HandlerInv
<1>6. AllocInv'
  BY DEF AllocInv
<1>7. SchedInv'
  BY DEF SchedInv
<1>8. SchedBacked'
  BY DEF SchedBacked
<1> QED
  BY <1>1, <1>2, <1>3, <1>4, <1>5, <1>6, <1>7, <1>8

-----------------------------------------------------------------------------

\* Initially nothing is mapped and nothing runs but the blob's threads.
LEMMA TaskletInit == Init => TaskletInv
<1> SUFFICES ASSUME Init PROVE TaskletInv
  OBVIOUS
<1>1. /\ pc[Rmmod] = "off"
      /\ \A m \in Maps : pc[m] = "off"
      /\ \A c \in Threads : pc[c] = "ready"
  BY TaskletAssumption DEF Init, Contexts
<1>2. TypeOK
  <2>1. arg \in [Contexts -> Tasklets]
    BY DEF Init
  <2>2. pc \in [Contexts -> PCs]
    BY DEF Init, PCs
  <2> QED
    BY <2>1, <2>2 DEF Init, TypeOK
<1>3. Roles /\ CallInv /\ ExitInv
  BY <1>1 DEF Init, Roles, CallInv, ExitInv, InCall, Scheduling, Changing, Killing
<1>4. HandlerInv /\ AllocInv
  BY <1>1 DEF Init, HandlerInv, AllocInv, Scheduling
<1>5. SchedInv /\ SchedBacked
  BY <1>1 DEF Init, SchedInv, SchedBacked, Contexts, Killers
<1> QED
  BY <1>2, <1>3, <1>4, <1>5 DEF TaskletInv

\* Every step of a call, of the softirq and of the unload keeps the invariant.
LEMMA TaskletStep == TaskletInv /\ [Next]_vars => TaskletInv'
<1> SUFFICES ASSUME TaskletInv, [Next]_vars PROVE TaskletInv'
  OBVIOUS
<1>1. CASE UNCHANGED vars
  BY <1>1 DEF vars, TaskletInv, TypeOK, Roles, CallInv, ExitInv, HandlerInv, AllocInv,
     SchedInv, SchedBacked
<1>2. CASE Unloaded
  BY <1>1, <1>2 DEF Unloaded
<1>3. ASSUME NEW c \in Threads, NEW t \in Tasklets, KillFind(c, t) PROVE TaskletInv'
  BY <1>3, KillFindKeeps
<1>4. ASSUME NEW c \in Threads, NEW t \in Tasklets, InitFind(c, t) PROVE TaskletInv'
  BY <1>4, InitFindKeeps
<1>5. ASSUME NEW c \in Threads \cup Maps, NEW t \in Tasklets, BlobSchedule(c, t) PROVE TaskletInv'
  BY <1>5, BlobScheduleKeeps
<1>6. ASSUME NEW c \in Contexts, CallStep(c) \/ tasklet_kill_poll(c) PROVE TaskletInv'
  BY <1>1, <1>6, DupClearKeeps, HashKeeps, SchedFindKeeps, SchedRealKeeps, KillWaitKeeps,
     KillRunKeeps, KillFreeKeeps DEF CallStep, tasklet_kill_poll
<1>7. ASSUME NEW m \in Maps, Run(m) \/ TrampClear(m) \/ HandlerReturn(m) PROVE TaskletInv'
  BY <1>7, RunKeeps, TrampKeeps, ReturnKeeps
<1>8. ASSUME ExitBegin \/ (\E m \in Maps : ExitPick(m)) \/ ExitUnhash \/ ExitDone PROVE TaskletInv'
  BY <1>8, ExitBeginKeeps, ExitPickKeeps, ExitUnhashKeeps, ExitDoneKeeps
<1> QED
  BY <1>1, <1>2, <1>3, <1>4, <1>5, <1>6, <1>7, <1>8 DEF Next

\* TaskletInv is an invariant of the tasklet shadow.
THEOREM TaskletCorrect == Spec => []TaskletInv
<1>1. Init => TaskletInv
  BY TaskletInit
<1>2. TaskletInv /\ [Next]_vars => TaskletInv'
  BY TaskletStep
<1> QED
  BY <1>1, <1>2, PTL DEF Spec

\* No map is used after kfree: not by __tasklet_schedule after its unlock, not by
\* the softirq, whatever tasklet_kill, the unload and handlers that reschedule
\* themselves do meanwhile.
THEOREM TaskletUseAfterFree == Spec => []NoUseAfterFree
<1>1. TaskletInv => NoUseAfterFree
  BY DEF TaskletInv, NoUseAfterFree, Roles, CallInv, HandlerInv, SchedInv, Contexts,
     Scheduling, Changing
<1> QED
  BY <1>1, TaskletCorrect, PTL

\* A tasklet never has two maps in wl_tasklet_ht.
THEOREM TaskletOneMap == Spec => []OneMapPerTasklet
<1>1. TaskletInv => OneMapPerTasklet
  BY DEF TaskletInv, TypeOK, AllocInv, OneMapPerTasklet
<1> QED
  BY <1>1, TaskletCorrect, PTL

\* A SCHED bit in the blob's struct always stands for a run, or a clearing, to come.
THEOREM TaskletSchedBacked == Spec => []SchedBacked
<1>1. TaskletInv => SchedBacked
  BY DEF TaskletInv
<1> QED
  BY <1>1, TaskletCorrect, PTL

=============================================================================
