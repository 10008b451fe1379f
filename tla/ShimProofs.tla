----------------------------- MODULE ShimProofs -----------------------------
(***************************************************************************)
(* Proofs about the timer shadow (ShadowTimer), for any number of timers,  *)
(* threads and maps, and about the life of the module it is part of        *)
(* (ShimModule), for any set of cards, any number of loads and processors. *)
(*                                                                         *)
(* Timers: MemInv is inductive whether or not the blob serialises its      *)
(* calls, with callbacks that go on during the unload, and implies         *)
(* NoUseAfterFree.  SerialInv is inductive relative to MemInv when it      *)
(* does, and implies PendingBacked; with StillStopped it implies           *)
(* InitQuiesces.                                                           *)
(*                                                                         *)
(* Module: TeardownSafe and UnloadClean are not inductive: that nothing is *)
(* used after its teardown rests on what exists at each point of the       *)
(* module's life, which LifeInv says layer by layer.  WorkInv says what a  *)
(* work item's data means while CPUs schedule it.                          *)
(***************************************************************************)
EXTENDS ShadowTimer, ShimModule, Integers, TLAPS

\* Hashed maps are allocated.
HashedAllocated == \A m \in table : owner[m] # None

\* Everything but a first init works on a hashed map, and only hashed maps are
\* queued or run.
UsedHashed ==
    /\ \A c \in Contexts : pc[c] \in InCall \ {"initHash"} => ptr[c] \in table
    /\ \A m \in Maps : m \in queued \/ pc[m] # "off" => m \in table

\* While a first init is between its lookup and hash_add, nobody else hashes a
\* map for that timer.
StillUnmapped ==
    \A c \in Contexts : pc[c] = "initHash" =>
        /\ c \in Threads
        /\ \A m \in table : owner[m] # arg[c]
        /\ \A d \in Contexts : pc[d] = "initHash" /\ arg[d] = arg[c] => d = c

\* Once wl_shadow_timer_exit has begun only callbacks are in calls, each for its
\* own timer, and the map about to be freed is neither queued nor running.
ExitInv ==
    /\ phase # "run" => \A c \in Contexts : pc[c] \in InCall => c \in Maps /\ arg[c] = owner[c]
    /\ phase \in {"sync", "unhash"} => victim \in table
    /\ phase = "unhash" => victim \notin queued /\ pc[victim] = "off"

MemInv == /\ TypeOK /\ NoUseAfterFree /\ HashedAllocated /\ UsedHashed /\ StillUnmapped
          /\ OneMapPerTimer /\ ExitInv

\* No two calls are in progress on a timer the blob serialises its calls on.
CallsApart ==
    \A c, d \in Contexts :
        (/\ pc[c] \in InCall /\ pc[d] \in InCall
         /\ arg[c] = arg[d] /\ arg[c] \in Serialised) => c = d

\* Between the two halves of del_timer the pending field stays clear.
StillCleared ==
    \A c \in Contexts : pc[c] = "delReal" => arg[c] \notin pending \cap Serialised

SerialInv == CallsApart /\ StillCleared /\ PendingBacked

-----------------------------------------------------------------------------

\* The type invariant holds initially and every step keeps it: no operation
\* writes outside the table's own types (kzalloc's failure included).
LEMMA TypeInit == Init => TypeOK
<1> SUFFICES ASSUME Init PROVE TypeOK
  OBVIOUS
<1>1. arg \in [Contexts -> Timers]
  BY DEF Init
<1>2. 0 \in 0..MaxAdds
  BY TimerAssumption
<1>3. pc \in [Contexts -> PCs]
  BY DEF Init, PCs
<1> QED
  BY <1>1, <1>2, <1>3 DEF Init, TypeOK, Phases

\* The type invariant of the timer shadow holds after every step.
LEMMA TypeStep == MemInv /\ [Next]_vars => TypeOK'
<1> SUFFICES ASSUME MemInv, [Next]_vars PROVE TypeOK'
  OBVIOUS
<1> USE TimerAssumption DEF MemInv, TypeOK, PCs, InCall, Adding, Phases
<1>1. ASSUME NEW c \in Threads, NEW t \in Timers, InitFind(c, t) PROVE TypeOK'
  BY <1>1 DEF InitFind, MayCall, map_find, exit, Contexts
<1>2. ASSUME NEW c \in Contexts, NEW t \in Timers, AddFind(c, t) PROVE TypeOK'
  BY <1>2 DEF AddFind, MayCall, map_find, exit
<1>3. ASSUME NEW c \in Contexts, NEW t \in Timers, DelFind(c, t) PROVE TypeOK'
  BY <1>3 DEF DelFind, MayCall, map_find, exit
<1>4. ASSUME NEW c \in Contexts, CallStep(c) PROVE TypeOK'
  BY <1>4 DEF CallStep, InitDupSync, InitDupClear, InitHash, AddTest, AddArm,
              DelReal,
              timer_delete_sync, locals, exit, NoUseAfterFree
<1>5. ASSUME NEW m \in Maps, Expire(m) \/ Trampoline(m) \/ CallbackReturn(m)
      PROVE TypeOK'
  BY <1>5 DEF Expire, Trampoline, CallbackReturn, locals, exit, Contexts
<1>6. ASSUME ExitBegin \/ ExitSweep
      PROVE TypeOK'
  BY <1>6 DEF ExitBegin, ExitSweep, ExitNext, ExitSync, ExitUnhash, ExitDone, timer_delete_sync, locals
<1>7. CASE UNCHANGED vars
  BY <1>7 DEF vars
<1> QED
  BY <1>1, <1>2, <1>3, <1>4, <1>5, <1>6, <1>7 DEF Next, Unloaded, ExitSpin

-----------------------------------------------------------------------------

\* MemInv holds initially: the table is empty and nothing runs.
LEMMA MemInit == Init => MemInv
<1> SUFFICES ASSUME Init PROVE MemInv
  OBVIOUS
<1>1. TypeOK
  BY TypeInit
<1>2. \A c \in Contexts : pc[c] \notin InCall
  BY DEF Init, InCall, Adding, Contexts
<1>3. \A m \in Maps : pc[m] = "off"
  BY TimerAssumption DEF Init, Contexts
<1> QED
  BY <1>1, <1>2, <1>3
     DEF Init, MemInv, NoUseAfterFree, HashedAllocated, UsedHashed, StillUnmapped, OneMapPerTimer, ExitInv, InCall

\* Every step keeps MemInv.  kfree happens only in wl_shadow_timer_exit, after
\* timer_delete_sync, when the only callback that could use the map is over.
LEMMA MemStep == ASSUME InitOnce, ~CrossExit PROVE MemInv /\ [Next]_vars => MemInv'
<1> SUFFICES ASSUME MemInv, [Next]_vars PROVE MemInv'
  OBVIOUS
<1>0. TypeOK'
  BY TypeStep
<1> DEFINE Rest == NoUseAfterFree /\ HashedAllocated /\ UsedHashed /\ StillUnmapped /\ OneMapPerTimer /\ ExitInv
<1> SUFFICES Rest'
  BY <1>0 DEF MemInv
<1> USE TimerAssumption
    DEF MemInv, TypeOK, PCs, InCall, Adding, Contexts, Phases, NoUseAfterFree, HashedAllocated, UsedHashed,
        StillUnmapped, OneMapPerTimer, ExitInv
<1>1. ASSUME NEW c \in Threads, NEW t \in Timers, InitFind(c, t) PROVE Rest'
  <2>1. (NoUseAfterFree /\ HashedAllocated)'
    BY <1>1 DEF InitFind, MayCall, map_find, exit
  <2>2. UsedHashed'
    BY <1>1 DEF InitFind, MayCall, map_find, exit
  <2>3. (StillUnmapped /\ OneMapPerTimer)'
    BY <1>1 DEF InitFind, MayCall, map_find, exit
  <2>4. ExitInv'
    BY <1>1 DEF InitFind, MayCall, Outlives, map_find, exit
  <2> QED
    BY <2>1, <2>2, <2>3, <2>4
<1>2. ASSUME NEW c \in Contexts, NEW t \in Timers, AddFind(c, t) PROVE Rest'
  <2>1. (NoUseAfterFree /\ HashedAllocated)'
    BY <1>2 DEF AddFind, MayCall, Outlives, map_find, exit
  <2>2. UsedHashed'
    BY <1>2 DEF AddFind, MayCall, Outlives, map_find, exit
  <2>3. (StillUnmapped /\ OneMapPerTimer)'
    BY <1>2 DEF AddFind, MayCall, Outlives, map_find, exit
  <2>4. ExitInv'
    BY <1>2 DEF AddFind, MayCall, Outlives, map_find, exit
  <2> QED
    BY <2>1, <2>2, <2>3, <2>4
<1>3. ASSUME NEW c \in Contexts, NEW t \in Timers, DelFind(c, t) PROVE Rest'
  <2>1. (NoUseAfterFree /\ HashedAllocated)'
    BY <1>3 DEF DelFind, MayCall, Outlives, map_find, exit
  <2>2. UsedHashed'
    BY <1>3 DEF DelFind, MayCall, Outlives, map_find, exit
  <2>3. (StillUnmapped /\ OneMapPerTimer)'
    BY <1>3 DEF DelFind, MayCall, Outlives, map_find, exit
  <2>4. ExitInv'
    BY <1>3 DEF DelFind, MayCall, Outlives, map_find, exit
  <2> QED
    BY <2>1, <2>2, <2>3, <2>4
<1>4. ASSUME NEW c \in Contexts, InitDupSync(c) PROVE Rest'
  <2>1. (NoUseAfterFree /\ HashedAllocated)'
    BY <1>4 DEF InitDupSync, timer_delete_sync, locals, exit
  <2>2. UsedHashed'
    BY <1>4 DEF InitDupSync, timer_delete_sync, locals, exit
  <2>3. (StillUnmapped /\ OneMapPerTimer)'
    BY <1>4 DEF InitDupSync, timer_delete_sync, locals, exit
  <2>4. ExitInv'
    BY <1>4 DEF InitDupSync, timer_delete_sync, locals, exit
  <2> QED
    BY <2>1, <2>2, <2>3, <2>4
<1>5. ASSUME NEW c \in Contexts, InitDupClear(c) PROVE Rest'
  <2>1. (NoUseAfterFree /\ HashedAllocated)'
    BY <1>5 DEF InitDupClear, locals, exit
  <2>2. UsedHashed'
    BY <1>5 DEF InitDupClear, locals, exit
  <2>3. (StillUnmapped /\ OneMapPerTimer)'
    BY <1>5 DEF InitDupClear, locals, exit
  <2>4. ExitInv'
    BY <1>5 DEF InitDupClear, locals, exit
  <2> QED
    BY <2>1, <2>2, <2>3, <2>4
<1>6. ASSUME NEW c \in Contexts, InitHash(c) PROVE Rest'
  <2>1. (NoUseAfterFree /\ HashedAllocated)'
    BY <1>6 DEF InitHash, locals, exit
  <2>2. UsedHashed'
    BY <1>6 DEF InitHash, locals, exit
  <2>3. (StillUnmapped /\ OneMapPerTimer)'
    BY <1>6 DEF InitHash, locals, exit
  <2>4. ExitInv'
    BY <1>6 DEF InitHash, locals, exit
  <2> QED
    BY <2>1, <2>2, <2>3, <2>4
<1>7. ASSUME NEW c \in Contexts, AddTest(c) PROVE Rest'
  <2>1. (NoUseAfterFree /\ HashedAllocated)'
    BY <1>7 DEF AddTest, locals, exit
  <2>2. UsedHashed'
    BY <1>7 DEF AddTest, locals, exit
  <2>3. (StillUnmapped /\ OneMapPerTimer)'
    BY <1>7 DEF AddTest, locals, exit
  <2>4. ExitInv'
    BY <1>7 DEF AddTest, locals, exit
  <2> QED
    BY <2>1, <2>2, <2>3, <2>4
<1>8. ASSUME NEW c \in Contexts, AddArm(c) PROVE Rest'
  <2>1. (NoUseAfterFree /\ HashedAllocated)'
    BY <1>8 DEF AddArm, locals, exit
  <2>2. UsedHashed'
    BY <1>8 DEF AddArm, locals, exit
  <2>3. (StillUnmapped /\ OneMapPerTimer)'
    BY <1>8 DEF AddArm, locals, exit
  <2>4. ExitInv'
    BY <1>8 DEF AddArm, locals, exit
  <2> QED
    BY <2>1, <2>2, <2>3, <2>4
<1>9. ASSUME NEW c \in Contexts, DelReal(c) PROVE Rest'
  <2>1. (NoUseAfterFree /\ HashedAllocated)'
    BY <1>9 DEF DelReal, locals, exit
  <2>2. UsedHashed'
    BY <1>9 DEF DelReal, locals, exit
  <2>3. (StillUnmapped /\ OneMapPerTimer)'
    BY <1>9 DEF DelReal, locals, exit
  <2>4. ExitInv'
    BY <1>9 DEF DelReal, locals, exit
  <2> QED
    BY <2>1, <2>2, <2>3, <2>4
<1>10. ASSUME NEW m \in Maps, Expire(m) PROVE Rest'
  <2>1. (NoUseAfterFree /\ HashedAllocated)'
    BY <1>10 DEF Expire, locals, exit
  <2>2. UsedHashed'
    BY <1>10 DEF Expire, locals, exit
  <2>3. (StillUnmapped /\ OneMapPerTimer)'
    BY <1>10 DEF Expire, locals, exit
  <2>4. ExitInv'
    BY <1>10 DEF Expire, locals, exit
  <2> QED
    BY <2>1, <2>2, <2>3, <2>4
<1>11. ASSUME NEW m \in Maps, Trampoline(m) PROVE Rest'
  <2>1. (NoUseAfterFree /\ HashedAllocated)'
    BY <1>11 DEF Trampoline, locals, exit
  <2>2. UsedHashed'
    BY <1>11 DEF Trampoline, locals, exit
  <2>3. (StillUnmapped /\ OneMapPerTimer)'
    BY <1>11 DEF Trampoline, locals, exit
  <2>4. ExitInv'
    BY <1>11 DEF Trampoline, locals, exit
  <2> QED
    BY <2>1, <2>2, <2>3, <2>4
<1>12. ASSUME NEW m \in Maps, CallbackReturn(m) PROVE Rest'
  <2>1. (NoUseAfterFree /\ HashedAllocated)'
    BY <1>12 DEF CallbackReturn, locals, exit
  <2>2. UsedHashed'
    BY <1>12 DEF CallbackReturn, locals, exit
  <2>3. (StillUnmapped /\ OneMapPerTimer)'
    BY <1>12 DEF CallbackReturn, locals, exit
  <2>4. ExitInv'
    BY <1>12 DEF CallbackReturn, locals, exit
  <2> QED
    BY <2>1, <2>2, <2>3, <2>4
<1>13. ASSUME ExitBegin PROVE Rest'
  <2>1. (NoUseAfterFree /\ HashedAllocated)'
    BY <1>13 DEF ExitBegin, Outlives, locals
  <2>2. UsedHashed'
    BY <1>13 DEF ExitBegin, Outlives, locals
  <2>3. (StillUnmapped /\ OneMapPerTimer)'
    BY <1>13 DEF ExitBegin, Outlives, locals
  <2>4. ExitInv'
    BY <1>13 DEF ExitBegin, Outlives, locals
  <2> QED
    BY <2>1, <2>2, <2>3, <2>4
<1>14. ASSUME NEW m \in Maps, ExitNext(m) PROVE Rest'
  <2>1. (NoUseAfterFree /\ HashedAllocated)'
    BY <1>14 DEF ExitNext, locals
  <2>2. UsedHashed'
    BY <1>14 DEF ExitNext, locals
  <2>3. (StillUnmapped /\ OneMapPerTimer)'
    BY <1>14 DEF ExitNext, locals
  <2>4. ExitInv'
    BY <1>14 DEF ExitNext, locals
  <2> QED
    BY <2>1, <2>2, <2>3, <2>4
<1>15. ASSUME ExitSync PROVE Rest'
  <2>1. (NoUseAfterFree /\ HashedAllocated)'
    BY <1>15 DEF ExitSync, timer_delete_sync, locals
  <2>2. UsedHashed'
    BY <1>15 DEF ExitSync, timer_delete_sync, locals
  <2>3. (StillUnmapped /\ OneMapPerTimer)'
    BY <1>15 DEF ExitSync, timer_delete_sync, locals
  <2>4. ExitInv'
    BY <1>15 DEF ExitSync, timer_delete_sync, locals
  <2> QED
    BY <2>1, <2>2, <2>3, <2>4
<1>16. ASSUME ExitUnhash PROVE Rest'
  <2>1. (NoUseAfterFree /\ HashedAllocated)'
    BY <1>16 DEF ExitUnhash, locals
  <2>2. UsedHashed'
    BY <1>16 DEF ExitUnhash, locals
  <2>3. (StillUnmapped /\ OneMapPerTimer)'
    BY <1>16 DEF ExitUnhash, locals
  <2>4. ExitInv'
    BY <1>16 DEF ExitUnhash, locals
  <2> QED
    BY <2>1, <2>2, <2>3, <2>4
<1>17. ASSUME ExitDone PROVE Rest'
  <2>1. (NoUseAfterFree /\ HashedAllocated)'
    BY <1>17 DEF ExitDone, locals
  <2>2. UsedHashed'
    BY <1>17 DEF ExitDone, locals
  <2>3. (StillUnmapped /\ OneMapPerTimer)'
    BY <1>17 DEF ExitDone, locals
  <2>4. ExitInv'
    BY <1>17 DEF ExitDone, locals
  <2> QED
    BY <2>1, <2>2, <2>3, <2>4
<1>18. CASE UNCHANGED vars
  BY <1>18 DEF vars
<1> QED
  BY <1>1, <1>2, <1>3, <1>4, <1>5, <1>6, <1>7, <1>8, <1>9, <1>10, <1>11, <1>12, <1>13, <1>14, <1>15, <1>16, <1>17, <1>18
     DEF Next, CallStep, ExitSweep, ExitSpin, Unloaded

\* MemInv is an invariant of the specification.
THEOREM MemCorrect ==
    ASSUME InitOnce, ~CrossExit PROVE Spec => []MemInv
<1>1. Init => MemInv
  BY MemInit
<1>2. MemInv /\ [Next]_vars => MemInv'
  BY MemStep
<1> QED
  BY <1>1, <1>2, PTL DEF Spec

\* The state of wl_shadow_timer.c always has its type.
THEOREM TypeCorrect ==
    ASSUME InitOnce, ~CrossExit PROVE Spec => []TypeOK
<1>1. MemInv => TypeOK
  BY DEF MemInv
<1> QED
  BY <1>1, MemCorrect, PTL

\* No map is used after kfree, however the blob interleaves its calls.
THEOREM UseAfterFreeCorrect ==
    ASSUME InitOnce, ~CrossExit PROVE Spec => []NoUseAfterFree
<1>1. MemInv => NoUseAfterFree
  BY DEF MemInv
<1> QED
  BY <1>1, MemCorrect, PTL

-----------------------------------------------------------------------------

\* SerialInv holds initially, whatever the blob's memory contains.
LEMMA SerialInit == Init => SerialInv
<1> SUFFICES ASSUME Init PROVE SerialInv
  OBVIOUS
<1>1. \A c \in Contexts : pc[c] \notin InCall
  BY DEF Init, InCall, Adding, Contexts
<1> QED
  BY <1>1 DEF Init, SerialInv, CallsApart, StillUnmapped, StillCleared,
              OneMapPerTimer, NoDoubleAdd, PendingBacked, InCall,
              Adding

\* Calls on one timer stay one at a time.
LEMMA ApartStep ==
    ASSUME InitOnce, ~CrossExit, MemInv, CallsApart, [Next]_vars PROVE CallsApart'
<1> USE DEF MemInv, TypeOK, InCall, Adding, CallsApart
<1>1. ASSUME NEW c \in Contexts, NEW t \in Timers,
             MayCall(c, t), arg' = [arg EXCEPT ![c] = t],
             \A d \in Contexts \ {c} : pc'[d] = pc[d]
      PROVE CallsApart'
  BY <1>1 DEF MayCall
<1>2. ASSUME NEW c \in Contexts, arg' = arg,
             \A d \in Contexts : pc'[d] \in InCall => pc[d] \in InCall
      PROVE CallsApart'
  BY <1>2
<1>3. ASSUME NEW c \in Threads, NEW t \in Timers, InitFind(c, t) PROVE CallsApart'
  BY <1>1, <1>3 DEF InitFind, Contexts
<1>4. ASSUME NEW c \in Contexts, NEW t \in Timers, AddFind(c, t) PROVE CallsApart'
  BY <1>1, <1>4 DEF AddFind
<1>5. ASSUME NEW c \in Contexts, NEW t \in Timers, DelFind(c, t) PROVE CallsApart'
  BY <1>1, <1>5 DEF DelFind
<1>6. ASSUME NEW c \in Contexts, CallStep(c) PROVE CallsApart'
  BY <1>2, <1>6 DEF CallStep, InitDupSync, InitDupClear, InitHash, AddTest, AddArm,
              DelReal,
                    locals
<1>7. ASSUME NEW m \in Maps, Expire(m) \/ Trampoline(m) \/ CallbackReturn(m)
      PROVE CallsApart'
  BY <1>7 DEF Expire, Trampoline, CallbackReturn, locals, Contexts
<1>8. ASSUME ExitBegin \/ ExitSweep
      PROVE CallsApart'
  BY <1>8 DEF ExitBegin, ExitSweep, ExitNext, ExitSync, ExitUnhash, ExitDone, locals
<1>9. CASE UNCHANGED vars
  BY <1>9 DEF vars
<1> QED
  BY <1>3, <1>4, <1>5, <1>6, <1>7, <1>8, <1>9 DEF Next, Unloaded, ExitSpin

\* The rest of SerialInv, action by action.
LEMMA SerialStep ==
    ASSUME InitOnce, ~CrossExit, MemInv, SerialInv, [Next]_vars PROVE SerialInv'
<1> DEFINE Rest == StillCleared /\ PendingBacked
<1>0. SUFFICES Rest'
  BY ApartStep DEF SerialInv
<1>a. MemInv'
  BY MemStep
<1> USE TimerAssumption
    DEF MemInv, TypeOK, InCall, Adding, PCs, Contexts, NoUseAfterFree, UsedHashed, StillUnmapped, OneMapPerTimer,
        SerialInv, CallsApart, StillCleared
<1>1. ASSUME NEW c \in Threads, NEW t \in Timers, InitFind(c, t) PROVE Rest'
  <2>1. StillCleared'
    BY <1>1 DEF InitFind, MayCall, map_find, exit
  <2>2. PendingBacked'
    BY <1>1, <1>a DEF InitFind, MayCall, map_find, exit, PendingBacked, Backed
  <2> QED
    BY <2>1, <2>2
<1>2. ASSUME NEW c \in Contexts, NEW t \in Timers, AddFind(c, t) PROVE Rest'
  <2>1. StillCleared'
    BY <1>2 DEF AddFind, MayCall, Outlives, map_find, exit
  <2>2. PendingBacked'
    BY <1>2, <1>a DEF AddFind, MayCall, Outlives, map_find, exit, PendingBacked, Backed
  <2> QED
    BY <2>1, <2>2
<1>3. ASSUME NEW c \in Contexts, NEW t \in Timers, DelFind(c, t) PROVE Rest'
  <2>1. StillCleared'
    BY <1>3 DEF DelFind, MayCall, Outlives, map_find, exit
  <2>2. PendingBacked'
    BY <1>3, <1>a DEF DelFind, MayCall, Outlives, map_find, exit, PendingBacked, Backed
  <2> QED
    BY <2>1, <2>2
<1>4. ASSUME NEW c \in Contexts, InitDupSync(c) PROVE Rest'
  <2>1. StillCleared'
    BY <1>4 DEF InitDupSync, timer_delete_sync, locals, exit
  <2>2. PendingBacked'
    BY <1>4, <1>a DEF InitDupSync, timer_delete_sync, locals, exit, PendingBacked, Backed
  <2> QED
    BY <2>1, <2>2
<1>5. ASSUME NEW c \in Contexts, InitDupClear(c) PROVE Rest'
  <2>1. StillCleared'
    BY <1>5 DEF InitDupClear, locals, exit
  <2>2. PendingBacked'
    BY <1>5, <1>a DEF InitDupClear, locals, exit, PendingBacked, Backed
  <2> QED
    BY <2>1, <2>2
<1>6. ASSUME NEW c \in Contexts, InitHash(c) PROVE Rest'
  <2>1. StillCleared'
    BY <1>6 DEF InitHash, locals, exit
  <2>2. PendingBacked'
    BY <1>6, <1>a DEF InitHash, locals, exit, PendingBacked, Backed
  <2> QED
    BY <2>1, <2>2
<1>7. ASSUME NEW c \in Contexts, AddTest(c) PROVE Rest'
  <2>1. StillCleared'
    BY <1>7 DEF AddTest, locals, exit
  <2>2. PendingBacked'
    BY <1>7, <1>a DEF AddTest, locals, exit, PendingBacked, Backed
  <2> QED
    BY <2>1, <2>2
<1>8. ASSUME NEW c \in Contexts, AddArm(c) PROVE Rest'
  <2>1. StillCleared'
    BY <1>8 DEF AddArm, locals, exit
  <2>2. PendingBacked'
    BY <1>8, <1>a DEF AddArm, locals, exit, PendingBacked, Backed
  <2> QED
    BY <2>1, <2>2
<1>9. ASSUME NEW c \in Contexts, DelReal(c) PROVE Rest'
  <2>1. StillCleared'
    BY <1>9 DEF DelReal, locals, exit
  <2>2. PendingBacked'
    BY <1>9, <1>a DEF DelReal, locals, exit, PendingBacked, Backed
  <2> QED
    BY <2>1, <2>2
<1>10. ASSUME NEW m \in Maps, Expire(m) PROVE Rest'
  <2>1. StillCleared'
    BY <1>10 DEF Expire, locals, exit
  <2>2. PendingBacked'
    BY <1>10, <1>a DEF Expire, locals, exit, PendingBacked, Backed
  <2> QED
    BY <2>1, <2>2
<1>11. ASSUME NEW m \in Maps, Trampoline(m) PROVE Rest'
  <2>1. StillCleared'
    BY <1>11 DEF Trampoline, locals, exit
  <2>2. PendingBacked'
    BY <1>11, <1>a DEF Trampoline, locals, exit, PendingBacked, Backed
  <2> QED
    BY <2>1, <2>2
<1>12. ASSUME NEW m \in Maps, CallbackReturn(m) PROVE Rest'
  <2>1. StillCleared'
    BY <1>12 DEF CallbackReturn, locals, exit
  <2>2. PendingBacked'
    BY <1>12, <1>a DEF CallbackReturn, locals, exit, PendingBacked, Backed
  <2> QED
    BY <2>1, <2>2
<1>13. ASSUME ExitBegin \/ ExitSweep PROVE Rest'
  BY <1>13 DEF ExitBegin, ExitSweep, ExitNext, ExitSync, ExitUnhash, ExitDone, timer_delete_sync, locals, PendingBacked
<1>14. CASE UNCHANGED vars
  BY <1>14 DEF vars, PendingBacked, Backed
<1> QED
  BY <1>1, <1>2, <1>3, <1>4, <1>5, <1>6, <1>7, <1>8, <1>9, <1>10, <1>11, <1>12, <1>13, <1>14
     DEF Next, CallStep, ExitSpin, Unloaded

\* SerialInv, which speaks of the timers the blob serialises its calls on, is an
\* invariant.
THEOREM SerialCorrect == ASSUME InitOnce, ~CrossExit PROVE Spec => []SerialInv
<1>1. Init => SerialInv
  BY SerialInit
<1>2. MemInv /\ SerialInv /\ [Next]_vars => SerialInv'
  BY SerialStep
<1> QED
  BY <1>1, <1>2, MemCorrect, PTL DEF Spec

\* The pending field of a timer the blob serialises its calls on always has
\* something behind it that will clear it.
THEOREM PendingCorrect == ASSUME InitOnce, ~CrossExit PROVE Spec => []PendingBacked
<1>1. SerialInv => PendingBacked
  BY DEF SerialInv
<1> QED
  BY <1>1, SerialCorrect, PTL

-----------------------------------------------------------------------------

\* Between the two halves of a repeated init the real timer stays stopped.
StillStopped ==
    \A c \in Contexts : pc[c] = "dupClear" /\ arg[c] \in Serialised =>
        ptr[c] \notin queued /\ pc[ptr[c]] = "off"

\* Only another call on the timer could arm it in between.
LEMMA StoppedStep ==
    ASSUME InitOnce, ~CrossExit, MemInv, SerialInv, StillStopped, [Next]_vars PROVE StillStopped'
<1> USE TimerAssumption
    DEF MemInv, TypeOK, InCall, Adding, PCs, NoUseAfterFree, SerialInv, CallsApart, StillStopped
<1>1. ASSUME NEW c \in Contexts, pc[c] = "ready", pc'[c] # "dupClear", queued' = queued,
             \A d \in Contexts \ {c} : pc'[d] = pc[d] /\ ptr'[d] = ptr[d] /\ arg'[d] = arg[d]
      PROVE  StillStopped'
  BY <1>1 DEF Contexts
<1>2. ASSUME NEW c \in Threads, NEW t \in Timers, InitFind(c, t) PROVE StillStopped'
  BY <1>1, <1>2 DEF InitFind, MayCall, Contexts
<1>3. ASSUME NEW c \in Contexts, NEW t \in Timers, AddFind(c, t) PROVE StillStopped'
  BY <1>1, <1>3 DEF AddFind, MayCall
<1>4. ASSUME NEW c \in Contexts, NEW t \in Timers, DelFind(c, t) PROVE StillStopped'
  BY <1>1, <1>4 DEF DelFind, MayCall
<1>5. ASSUME NEW c \in Contexts, InitDupSync(c) PROVE StillStopped'
  BY <1>5 DEF InitDupSync, timer_delete_sync, locals, Contexts
<1>6. ASSUME NEW c \in Contexts, InitDupClear(c) \/ InitHash(c) \/ AddTest(c) \/ DelReal(c)
      PROVE  StillStopped'
  BY <1>6 DEF InitDupClear, InitHash, AddTest, DelReal, locals, Contexts
<1>7. ASSUME NEW c \in Contexts, AddArm(c) PROVE StillStopped'
  <2>1. ASSUME NEW d \in Contexts, pc[d] = "dupClear", arg[d] \in Serialised PROVE ptr[d] # ptr[c]
    BY <1>7, <2>1 DEF AddArm
  <2> QED
    BY <1>7, <2>1 DEF AddArm, locals, Contexts
<1>8. ASSUME NEW m \in Maps, Expire(m) \/ Trampoline(m) \/ CallbackReturn(m) PROVE StillStopped'
  BY <1>8 DEF Expire, Trampoline, CallbackReturn, locals, Contexts
<1>9. ASSUME ExitBegin \/ ExitSweep PROVE StillStopped'
  BY <1>9 DEF ExitBegin, ExitSweep, ExitNext, ExitSync, ExitUnhash, ExitDone, timer_delete_sync, locals
<1>10. CASE UNCHANGED vars
  BY <1>10 DEF vars
<1> QED
  BY <1>2, <1>3, <1>4, <1>5, <1>6, <1>7, <1>8, <1>9, <1>10 DEF Next, CallStep, Unloaded, ExitSpin

\* If the blob serialises its calls on a timer, a repeated init_timer_key returns
\* with the old timer neither queued nor in its callback.
THEOREM InitQuiescesCorrect == ASSUME InitOnce, ~CrossExit PROVE Spec => InitQuiesces
<1> DEFINE Quiesced == \A c \in Threads : (pc[c] = "dupClear" /\ pc'[c] = "ready" /\ arg[c] \in Serialised) =>
                           ptr[c] \notin queued' /\ pc'[ptr[c]] = "off"
<1>1. Init => StillStopped
  BY DEF Init, StillStopped, Contexts
<1>2. MemInv /\ SerialInv /\ StillStopped /\ [Next]_vars => StillStopped'
  BY StoppedStep
<1>3. MemInv /\ StillStopped /\ [Next]_vars => [Quiesced]_vars
  <2> SUFFICES ASSUME MemInv, StillStopped, Next, NEW c \in Threads, pc[c] = "dupClear", pc'[c] = "ready",
                      arg[c] \in Serialised
               PROVE  ptr[c] \notin queued' /\ pc'[ptr[c]] = "off"
    OBVIOUS
  <2>1. c \in Contexts /\ ptr[c] \in Maps /\ ptr[c] \in Contexts /\ c \notin Maps
    BY TimerAssumption DEF MemInv, NoUseAfterFree, InCall, Contexts
  <2>2. ptr[c] \notin queued /\ pc[ptr[c]] = "off"
    BY <2>1 DEF StillStopped
  <2>3. pc \in [Contexts -> PCs]
    BY DEF MemInv, TypeOK
  <2>4. InitDupClear(c)
    <3> USE <2>1, <2>3
    <3>1. ASSUME NEW d \in Contexts, NEW t \in Timers, (d \in Threads /\ InitFind(d, t)) \/ AddFind(d, t) \/ DelFind(d, t)
          PROVE  FALSE
      BY <3>1 DEF InitFind, AddFind, DelFind, MayCall
    <3>2. ASSUME NEW d \in Contexts, CallStep(d) PROVE d = c /\ InitDupClear(c)
      BY <3>2 DEF CallStep, InitDupSync, InitDupClear, InitHash, AddTest, AddArm, DelReal
    <3>3. ASSUME NEW m \in Maps, Expire(m) \/ Trampoline(m) \/ CallbackReturn(m) PROVE FALSE
      BY <3>3 DEF Expire, Trampoline, CallbackReturn
    <3>4. ASSUME ExitBegin \/ ExitSweep \/ ExitSpin \/ Unloaded PROVE FALSE
      BY <3>4 DEF ExitBegin, ExitSweep, ExitNext, ExitSync, ExitUnhash, ExitDone, ExitSpin, Unloaded, vars
    <3> QED
      BY <3>1, <3>2, <3>3, <3>4 DEF Next, Contexts
  <2> QED
    BY <2>1, <2>2, <2>3, <2>4 DEF InitDupClear
<1> QED
  BY <1>1, <1>2, <1>3, MemCorrect, SerialCorrect, PTL DEF Spec, InitQuiesces


-----------------------------------------------------------------------------
(* The life of the module *)

\* Values of the variables that the argument needs.
LifeTypes ==
    /\ mod \in {"out", "init", "live", "unregister", "timers"}
    /\ failed \in Int /\ caches \in Int /\ leaky \in Int
    /\ blob_drv \in BOOLEAN /\ ids \in BOOLEAN /\ core \in BOOLEAN /\ nvram \in BOOLEAN
    /\ oops \in BOOLEAN
    /\ dev \in [Devs -> {"free", "probing", "bound"}]
    /\ drvdata \in [Devs -> BOOLEAN]
    /\ net \in [Devs -> {"none", "registered"}]
    /\ timer \in [Devs -> {"none", "idle", "armed"}]
    /\ tasklet \in [Devs -> {"none", "idle", "armed"}]

\* wl_pci is filled exactly while the driver is registered.
DriverInv ==
    /\ core <=> mod \in {"live", "unregister"}
    /\ blob_drv <=> core
    /\ ids <=> core

\* A card's objects exist exactly while it is bound; a timer map outlives it.
CardInv ==
    \A d \in Devs :
        /\ dev[d] # "free" => core
        /\ dev[d] = "probing" => mod = "live"
        /\ drvdata[d] <=> dev[d] # "free"
        /\ net[d] = "registered" <=> dev[d] = "bound"
        /\ tasklet[d] # "none" <=> dev[d] = "bound"
        /\ timer[d] = "armed" => dev[d] = "bound"
        /\ mod \in {"out", "init"} => timer[d] = "none"

\* One cache for each failed load and each unload that met a live shadow, and one
\* more while the module is loaded.
CacheInv ==
    /\ caches = failed + leaky + (IF mod = "out" THEN 0 ELSE 1)
    /\ mod \in {"out", "init"} => ~ nvram

LifeInv == LifeTypes /\ DriverInv /\ CardInv /\ CacheInv /\ ~ oops

\* Nothing is loaded at first.
LEMMA LifeInvInit == ShimInit => LifeInv
<1> SUFFICES ASSUME ShimInit PROVE LifeInv
  OBVIOUS
<1>1. LifeTypes
  <2>1. drvdata \in [Devs -> BOOLEAN]
    BY DEF ShimInit
  <2>2. /\ dev \in [Devs -> {"free", "probing", "bound"}]
        /\ net \in [Devs -> {"none", "registered"}]
        /\ timer \in [Devs -> {"none", "idle", "armed"}]
        /\ tasklet \in [Devs -> {"none", "idle", "armed"}]
    BY DEF ShimInit
  <2>3. /\ blob_drv \in BOOLEAN /\ ids \in BOOLEAN /\ core \in BOOLEAN
        /\ nvram \in BOOLEAN /\ oops \in BOOLEAN
    BY Zenon DEF ShimInit
  <2>4. failed \in Int /\ caches \in Int /\ leaky \in Int
    BY DEF ShimInit
  <2>5. mod \in {"out", "init", "live", "unregister", "timers"}
    BY DEF ShimInit
  <2> QED BY <2>1, <2>2, <2>3, <2>4, <2>5 DEF LifeTypes
<1>2. CardInv
  <2> SUFFICES ASSUME NEW d \in Devs
               PROVE  /\ dev[d] = "free" /\ ~ drvdata[d] /\ net[d] = "none"
                      /\ timer[d] = "none" /\ tasklet[d] = "none"
    BY DEF CardInv
  <2> QED BY DEF ShimInit
<1> QED BY <1>1, <1>2 DEF ShimInit, LifeInv, DriverInv, CacheInv

\* Loading makes the first objects.
LEMMA LoadPreserves ==
    LifeInv /\ (wl_shim_init \/ wl_shim___pci_register_driver) => LifeInv'
<1> SUFFICES ASSUME LifeInv, wl_shim_init \/ wl_shim___pci_register_driver PROVE LifeInv'
  OBVIOUS
<1> USE DEF LifeInv, LifeTypes, DriverInv, CardInv, CacheInv, NoCache, slab
<1>1. CASE wl_shim_init
  BY <1>1 DEF wl_shim_init, Objects
<1>2. CASE wl_shim___pci_register_driver
  <2> USE <1>2 DEF wl_shim___pci_register_driver, LoadFails, Objects
  <2>1. LifeTypes'
    <3>1. /\ blob_drv' \in BOOLEAN /\ ids' \in BOOLEAN /\ core' \in BOOLEAN
          /\ nvram' \in BOOLEAN /\ oops' \in BOOLEAN
      BY Zenon
    <3>2. /\ UNCHANGED <<caches, leaky, dev, drvdata, net, timer, tasklet>>
          /\ mod' \in {"out", "live"} /\ failed' \in Int
      OBVIOUS
    <3> QED BY <3>1, <3>2
  <2>2. DriverInv'
    OBVIOUS
  <2>3. CardInv'
    OBVIOUS
  <2>4. CacheInv'
    OBVIOUS
  <2>5. ~ oops'
    OBVIOUS
  <2> QED BY <2>1, <2>2, <2>3, <2>4, <2>5
<1> QED BY <1>1, <1>2

\* Cards come and go only while the driver is registered.
LEMMA CardPreserves ==
    ASSUME LifeInv, NEW d \in Devs,
           \/ ProbeStart(d) \/ ProbeEnd(d) \/ wl_pci_remove_tramp(d) \/ wl_pci_shutdown_tramp(d)
    PROVE  LifeInv'
<1> USE DEF LifeInv, LifeTypes, DriverInv, CardInv, CacheInv, NoCache, slab
<1>1. CASE ProbeStart(d)
  <2> USE <1>1 DEF ProbeStart, Objects
  <2>1. LifeTypes'
    OBVIOUS
  <2>2. DriverInv'
    OBVIOUS
  <2>3. CardInv'
    OBVIOUS
  <2>4. CacheInv'
    OBVIOUS
  <2>5. ~ oops'
    OBVIOUS
  <2> QED BY <2>1, <2>2, <2>3, <2>4, <2>5
<1>2. CASE ProbeEnd(d)
  <2> USE <1>2 DEF ProbeEnd, wl_nvram_load
  <2>1. LifeTypes'
    OBVIOUS
  <2>2. DriverInv'
    OBVIOUS
  <2>3. CardInv'
    OBVIOUS
  <2>4. CacheInv'
    OBVIOUS
  <2>5. ~ oops'
    OBVIOUS
  <2> QED BY <2>1, <2>2, <2>3, <2>4, <2>5
<1>3. CASE wl_pci_remove_tramp(d)
  BY <1>3 DEF wl_pci_remove_tramp, Objects
<1>4. CASE wl_pci_shutdown_tramp(d)
  BY <1>4 DEF wl_pci_shutdown_tramp
<1> QED BY <1>1, <1>2, <1>3, <1>4

\* Callbacks find their interface and the cache: they run for bound cards only.
LEMMA CallbackPreserves ==
    ASSUME LifeInv, NEW d \in Devs,
           Transmit(d) \/ Interrupt(d) \/ TimerFires(d) \/ TaskletRuns(d)
    PROVE  LifeInv'
<1> USE DEF LifeInv, LifeTypes, DriverInv, CardInv, CacheInv, NoCache, slab
<1>1. CASE Transmit(d)
  BY <1>1 DEF Transmit, Objects
<1>2. CASE Interrupt(d)
  BY <1>2 DEF Interrupt
<1>3. CASE TimerFires(d)
  BY <1>3 DEF TimerFires, armed
<1>4. CASE TaskletRuns(d)
  BY <1>4 DEF TaskletRuns, armed
<1> QED BY <1>1, <1>2, <1>3, <1>4

\* Unloading: no card is bound once the driver is unregistered.
LEMMA UnloadPreserves ==
    ASSUME LifeInv,
           \/ wl_shim_exit \/ wl_shim_pci_unregister_driver \/ LayersExit
           \/ \E d \in Devs : TimerExit(d)
    PROVE  LifeInv'
<1> USE DEF LifeInv, LifeTypes, DriverInv, CardInv, CacheInv, NoCache, slab
<1>1. CASE wl_shim_exit
  BY <1>1 DEF wl_shim_exit, Objects
<1>2. CASE wl_shim_pci_unregister_driver
  BY <1>2 DEF wl_shim_pci_unregister_driver, Objects
<1>3. CASE LayersExit
  <2> USE <1>3 DEF LayersExit
  <2>1. LifeTypes'
    <3>1. /\ blob_drv' \in BOOLEAN /\ ids' \in BOOLEAN /\ core' \in BOOLEAN
          /\ nvram' \in BOOLEAN /\ oops' \in BOOLEAN
      BY Zenon
    <3>2. /\ dev' \in [Devs -> {"free", "probing", "bound"}]
          /\ drvdata' \in [Devs -> BOOLEAN]
          /\ net' \in [Devs -> {"none", "registered"}]
          /\ timer' \in [Devs -> {"none", "idle", "armed"}]
          /\ tasklet' \in [Devs -> {"none", "idle", "armed"}]
      OBVIOUS
    <3>3. /\ mod' \in {"out", "init", "live", "unregister", "timers"}
          /\ failed' \in Int /\ caches' \in Int /\ leaky' \in Int
      OBVIOUS
    <3> QED BY <3>1, <3>2, <3>3
  <2>2. DriverInv'
    OBVIOUS
  <2>3. CardInv'
    OBVIOUS
  <2>4. CacheInv'
    OBVIOUS
  <2>5. ~ oops'
    OBVIOUS
  <2> QED BY <2>1, <2>2, <2>3, <2>4, <2>5
<1>4. ASSUME NEW d \in Devs, TimerExit(d) PROVE LifeInv'
  BY <1>4 DEF TimerExit
<1> QED BY <1>1, <1>2, <1>3, <1>4

\* Work items live beside the rest.
LEMMA WorkPreserves ==
    ASSUME LifeInv, UNCHANGED life
    PROVE  LifeInv'
  BY DEF life, LifeInv, LifeTypes, DriverInv, CardInv, CacheInv

\* LifeInv is an invariant of the module's life.
THEOREM LifeInvariant == ShimSpec => []LifeInv
<1>1. LifeInv /\ [ShimNext]_shimVars => LifeInv'
  <2> SUFFICES ASSUME LifeInv, [ShimNext]_shimVars PROVE LifeInv'
    OBVIOUS
  <2>1. CASE wl_shim_init \/ wl_shim___pci_register_driver
    BY <2>1, LoadPreserves
  <2>2. CASE wl_shim_exit \/ wl_shim_pci_unregister_driver \/ LayersExit
    BY <2>2, UnloadPreserves
  <2>3. ASSUME NEW d \in Devs,
               \/ ProbeStart(d) \/ ProbeEnd(d) \/ wl_pci_remove_tramp(d)
               \/ wl_pci_shutdown_tramp(d) \/ Transmit(d) \/ Interrupt(d)
               \/ TimerFires(d) \/ TaskletRuns(d) \/ TimerExit(d)
        PROVE LifeInv'
    BY <2>3, CardPreserves, CallbackPreserves, UnloadPreserves
  <2>4. CASE NewWork \/ RunWork
    BY <2>4, WorkPreserves DEF NewWork, RunWork
  <2>5. ASSUME NEW c \in CPUs, schedule_work(c) \/ FixWork(c) \/ queue_work_on(c)
        PROVE LifeInv'
    BY <2>5, WorkPreserves DEF schedule_work, FixWork, queue_work_on
  <2>6. CASE UNCHANGED shimVars
    BY <2>6, WorkPreserves DEF shimVars
  <2> QED BY <2>1, <2>2, <2>3, <2>4, <2>5, <2>6 DEF ShimNext
<1> QED BY <1>1, LifeInvInit, PTL DEF ShimSpec

\* wl_shim_exit takes the layers down in an order in which nothing is used after
\* it is gone, for any number of cards.
THEOREM TeardownIsSafe == ShimSpec => []TeardownSafe
<1>1. LifeInv => TeardownSafe
  BY DEF LifeInv, TeardownSafe
<1> QED BY <1>1, LifeInvariant, PTL

\* An unloaded module has left only the caches of loads that failed and of unloads
\* that a live shadow met (wl_shadow_skb_exit).
THEOREM UnloadIsClean == ShimSpec => []UnloadClean
<1>1. LifeInv => UnloadClean
  BY DEF LifeInv, LifeTypes, DriverInv, CardInv, CacheInv, UnloadClean
<1> QED BY <1>1, LifeInvariant, PTL

\* What the item's data says of the queue, and of the CPUs in schedule_work: one
\* that is about to fix the data is alone, and no CPU queues unfixed data.
WorkInv ==
    /\ wdata \in {"2.6.36", "off", "queued"}
    /\ cpu \in [CPUs -> {"idle", "fix", "queue"}]
    /\ onqueue = IF wdata = "queued" THEN 1 ELSE 0
    /\ \A c \in CPUs : cpu[c] = "fix" => wdata = "2.6.36" /\ \A e \in CPUs \ {c} : cpu[e] = "idle"
    /\ \A c \in CPUs : cpu[c] = "queue" => wdata # "2.6.36"

\* The item's own steps keep WorkInv, if it is first handed over by one CPU.
LEMMA WorkStep == ASSUME SerialFirst, WorkInv, [ShimNext]_shimVars PROVE WorkInv'
<1>1. CASE UNCHANGED work
  BY <1>1 DEF work, WorkInv
<1>2. CASE NewWork
  BY <1>2 DEF NewWork, WorkInv
<1>3. CASE RunWork
  BY <1>3 DEF RunWork, WorkInv
<1>4. ASSUME NEW c \in CPUs, schedule_work(c) PROVE WorkInv'
  BY <1>4 DEF schedule_work, wl_fixup_work_data, WorkInv
<1>5. ASSUME NEW c \in CPUs, FixWork(c) PROVE WorkInv'
  BY <1>5 DEF FixWork, WorkInv
<1>6. ASSUME NEW c \in CPUs, queue_work_on(c) PROVE WorkInv'
  BY <1>6 DEF queue_work_on, WorkInv
<1>7. ASSUME NEW d \in Devs,
             \/ ProbeStart(d) \/ ProbeEnd(d) \/ wl_pci_remove_tramp(d)
             \/ wl_pci_shutdown_tramp(d) \/ Transmit(d) \/ Interrupt(d)
             \/ TimerFires(d) \/ TaskletRuns(d) \/ TimerExit(d)
      PROVE  UNCHANGED work
  BY <1>7 DEF ProbeStart, ProbeEnd, wl_pci_remove_tramp, wl_pci_shutdown_tramp, Transmit, Interrupt,
              TimerFires, TaskletRuns, TimerExit
<1>8. ASSUME \/ wl_shim_init \/ wl_shim___pci_register_driver \/ wl_shim_exit
             \/ wl_shim_pci_unregister_driver \/ LayersExit
      PROVE  UNCHANGED work
  BY <1>8 DEF wl_shim_init, wl_shim___pci_register_driver, wl_shim_exit, wl_shim_pci_unregister_driver,
              LayersExit
<1> QED
  BY <1>1, <1>2, <1>3, <1>4, <1>5, <1>6, <1>7, <1>8 DEF ShimNext, shimVars

\* schedule_work leaves the item on the queue exactly once, on any number of
\* CPUs, if the item is first handed over by one of them.
THEOREM WorkIsQueued == ASSUME SerialFirst PROVE ShimSpec => WorkQueued
<1> DEFINE Queued == /\ onqueue' <= 1
                     /\ \A c \in CPUs : cpu[c] = "queue" /\ cpu'[c] = "idle" => onqueue' = 1
<1>1. ShimInit => WorkInv
  BY DEF ShimInit, WorkInv
<1>2. WorkInv /\ [ShimNext]_shimVars => WorkInv'
  BY WorkStep
<1>3. WorkInv /\ [ShimNext]_shimVars => [Queued]_shimVars
  <2> SUFFICES ASSUME WorkInv, ShimNext PROVE Queued \/ UNCHANGED shimVars
    OBVIOUS
  <2>1. WorkInv'
    BY <1>2
  <2>2. onqueue' <= 1
    BY <2>1 DEF WorkInv
  <2>3. ASSUME NEW c \in CPUs, cpu[c] = "queue", cpu'[c] = "idle" PROVE queue_work_on(c)
    <3>1. cpu' # cpu
      BY <2>3
    <3>2. PICK e \in CPUs : schedule_work(e) \/ FixWork(e) \/ queue_work_on(e)
      BY <3>1 DEF ShimNext, wl_shim_init, wl_shim___pci_register_driver, wl_shim_exit,
                  wl_shim_pci_unregister_driver, LayersExit, ProbeStart, ProbeEnd, wl_pci_remove_tramp,
                  wl_pci_shutdown_tramp, Transmit, Interrupt, TimerFires, TaskletRuns, TimerExit,
                  NewWork, RunWork, work
    <3> QED
      BY <2>3, <3>2 DEF schedule_work, FixWork, queue_work_on, wl_fixup_work_data, WorkInv
  <2>4. ASSUME NEW c \in CPUs, cpu[c] = "queue", queue_work_on(c) PROVE onqueue' = 1
    BY <2>4 DEF queue_work_on, WorkInv
  <2> QED
    BY <2>2, <2>3, <2>4
<1> QED
  BY <1>1, <1>2, <1>3, PTL DEF ShimSpec, WorkQueued
=============================================================================
