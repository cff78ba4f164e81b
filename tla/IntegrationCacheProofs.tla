----------------------- MODULE IntegrationCacheProofs -----------------------
(***************************************************************************)
(* The safety properties of IntegrationCache, for any number of apps, SSE  *)
(* listeners and Houston versions, with and without the TTL.               *)
(*                                                                         *)
(* The properties are not inductive one by one.  The invariant below adds  *)
(* what they rest on: before resetCache has run, a goroutine that came out *)
(* of Map.Get finds its app's mutex in syncMap, and a goroutine inside the *)
(* update of an app holds that mutex; and the mutexes of the second        *)
(* syncMap are free until it is in use.                                    *)
(***************************************************************************)
EXTENDS IntegrationCache, TLAPS

(* resetCache runs at most once, and not at all with the TTL disabled. *)
TimerInv ==
  /\ gen = 1 <=> timer = "fired"
  /\ DisableCacheTTL => timer = "off"

(* Past Map.Get a goroutine relies on its app's mutex being there. *)
PastGet(t) == pc[t] \in {"read", "lock", "locking", "put", "write", "unlock"}

(* The first pair of maps, as long as it is in use. *)
FirstGeneration ==
  gen = 0 =>
    /\ \A t \in Threads : lock[t] = 0
    /\ \A t \in Threads : PastGet(t) => appId[t] \in syncMap
    /\ \A t \in Threads : InUpdate(t) => rwmutex[0][appId[t]] = t
    /\ \A a \in Apps : rwmutex[1][a] = Nil

IInv ==
  /\ TypeOK
  /\ GlobalLockInGet
  /\ TimerInv
  /\ NoOrphanLock
  /\ FirstGeneration
  /\ LockFaultsNeedReset

-----------------------------------------------------------------------------
(* The consumer enters Map.Get: it holds no lock yet. *)
LEMMA GetIntegrationsStep ==
  ASSUME IInv, NEW t \in Threads, NEW a \in Apps, GetIntegrations(t, a)
  PROVE  IInv'
<1>1. TypeOK'
  BY DEF IInv, TypeOK, GetIntegrations, Goto, PCs, Results, shared
<1>2. GlobalLockInGet'
  BY CacheAssumption DEF IInv, TypeOK, GlobalLockInGet, InGet,
       GetIntegrations, Goto, shared
<1>3. TimerInv'
  BY DEF IInv, TimerInv, GetIntegrations, Goto, shared
<1>4. NoOrphanLock'
  BY CacheAssumption DEF IInv, TypeOK, NoOrphanLock, InUpdate,
       GetIntegrations, Goto, shared, FirstGeneration, Generations
<1>5. FirstGeneration'
  BY CacheAssumption DEF IInv, TypeOK, FirstGeneration, InUpdate, PastGet,
       GetIntegrations, Goto, shared, Generations
<1>6. LockFaultsNeedReset'
  BY DEF IInv, LockFaultsNeedReset, GetIntegrations, Goto, shared
<1> QED
  BY <1>1, <1>2, <1>3, <1>4, <1>5, <1>6 DEF IInv

(* Map.Get takes globalLock, which nobody holds; past it, the app's mutex  *)
(* is in syncMap or is about to be put there.                              *)
LEMMA GetLockStep ==
  ASSUME IInv, NEW t \in Threads, GetLock(t)
  PROVE  IInv'
<1>1. TypeOK'
  BY DEF IInv, TypeOK, GetLock, Goto, PCs, locals
<1>2. GlobalLockInGet'
  BY CacheAssumption DEF IInv, TypeOK, GlobalLockInGet, InGet, GetLock, Goto,
       locals
<1>3. TimerInv'
  BY DEF IInv, TimerInv, GetLock, Goto, locals
<1>4. NoOrphanLock'
  BY CacheAssumption DEF IInv, TypeOK, NoOrphanLock, InUpdate, GetLock, Goto,
       locals, FirstGeneration, Generations
<1>5. FirstGeneration'
  BY CacheAssumption DEF IInv, TypeOK, FirstGeneration, InUpdate, PastGet,
       GetLock, Goto, locals, Generations
<1>6. LockFaultsNeedReset'
  BY DEF IInv, LockFaultsNeedReset, GetLock, Goto, locals
<1> QED
  BY <1>1, <1>2, <1>3, <1>4, <1>5, <1>6 DEF IInv

(* Map.Get adds the app's mutex: syncMap only grows. *)
LEMMA GetInsertStep ==
  ASSUME IInv, NEW t \in Threads, GetInsert(t)
  PROVE  IInv'
<1>1. TypeOK'
  BY DEF IInv, TypeOK, GetInsert, Goto, PCs, locals
<1>2. GlobalLockInGet'
  BY CacheAssumption DEF IInv, TypeOK, GlobalLockInGet, InGet, GetInsert,
       Goto, locals
<1>3. TimerInv'
  BY DEF IInv, TimerInv, GetInsert, Goto, locals
<1>4. NoOrphanLock'
  BY CacheAssumption DEF IInv, TypeOK, NoOrphanLock, InUpdate, GetInsert,
       Goto, locals, FirstGeneration, Generations
<1>5. FirstGeneration'
  BY CacheAssumption DEF IInv, TypeOK, FirstGeneration, InUpdate, PastGet,
       GetInsert, Goto, locals, Generations
<1>6. LockFaultsNeedReset'
  BY DEF IInv, LockFaultsNeedReset, GetInsert, Goto, locals
<1> QED
  BY <1>1, <1>2, <1>3, <1>4, <1>5, <1>6 DEF IInv

(* Map.Get releases globalLock and leaves the critical section in the same *)
(* step.                                                                   *)
LEMMA GetReadStep ==
  ASSUME IInv, NEW t \in Threads, GetRead(t)
  PROVE  IInv'
<1>1. TypeOK'
  BY DEF IInv, TypeOK, GetRead, LeaveGet, Goto, PCs, Results
<1>2. GlobalLockInGet'
  BY CacheAssumption DEF IInv, TypeOK, GlobalLockInGet, InGet, GetRead,
                         LeaveGet, Goto
<1>3. TimerInv'
  BY DEF IInv, TimerInv, GetRead, LeaveGet, Goto
<1>4. NoOrphanLock'
  BY CacheAssumption DEF IInv, TypeOK, NoOrphanLock, InUpdate, GetRead,
                         LeaveGet, Goto,
       FirstGeneration, Generations
<1>5. FirstGeneration'
  BY CacheAssumption DEF IInv, TypeOK, FirstGeneration, InUpdate, PastGet,
       GetRead, LeaveGet, Goto, Generations
<1>6. LockFaultsNeedReset'
  BY DEF IInv, LockFaultsNeedReset, GetRead, LeaveGet, Goto
<1> QED
  BY <1>1, <1>2, <1>3, <1>4, <1>5, <1>6 DEF IInv

(* Houston's answer or error touches no lock. *)
LEMMA FetchStep ==
  ASSUME IInv, NEW t \in Threads, Fetch(t)
  PROVE  IInv'
<1>1. TypeOK'
  BY DEF IInv, TypeOK, Fetch, Goto, PCs, Results, shared
<1>2. GlobalLockInGet'
  BY CacheAssumption DEF IInv, TypeOK, GlobalLockInGet, InGet, Fetch, Goto,
       shared
<1>3. TimerInv'
  BY DEF IInv, TimerInv, Fetch, Goto, shared
<1>4. NoOrphanLock'
  BY CacheAssumption DEF IInv, TypeOK, NoOrphanLock, InUpdate, Fetch, Goto,
       shared, FirstGeneration, Generations
<1>5. FirstGeneration'
  BY CacheAssumption DEF IInv, TypeOK, FirstGeneration, InUpdate, PastGet,
       Fetch, Goto, shared, Generations
<1>6. LockFaultsNeedReset'
  BY DEF IInv, LockFaultsNeedReset, Fetch, Goto, shared
<1> QED
  BY <1>1, <1>2, <1>3, <1>4, <1>5, <1>6 DEF IInv

(* UpdateIntegrationsForApp calls Map.Get for its mutex. *)
LEMMA EnsureLockStep ==
  ASSUME IInv, NEW t \in Threads, EnsureLock(t)
  PROVE  IInv'
<1>1. TypeOK'
  BY DEF IInv, TypeOK, EnsureLock, Goto, PCs, shared
<1>2. GlobalLockInGet'
  BY CacheAssumption DEF IInv, TypeOK, GlobalLockInGet, InGet, EnsureLock,
       Goto, shared
<1>3. TimerInv'
  BY DEF IInv, TimerInv, EnsureLock, Goto, shared
<1>4. NoOrphanLock'
  BY CacheAssumption DEF IInv, TypeOK, NoOrphanLock, InUpdate, EnsureLock,
       Goto, shared, FirstGeneration, Generations
<1>5. FirstGeneration'
  BY CacheAssumption DEF IInv, TypeOK, FirstGeneration, InUpdate, PastGet,
       EnsureLock, Goto, shared, Generations
<1>6. LockFaultsNeedReset'
  BY DEF IInv, LockFaultsNeedReset, EnsureLock, Goto, shared
<1> QED
  BY <1>1, <1>2, <1>3, <1>4, <1>5, <1>6 DEF IInv

(* A free mutex is locked: its holder is the goroutine that enters the     *)
(* update, and no other one is inside it for the same app.                 *)
LEMMA LockKeyStep ==
  ASSUME IInv, NEW t \in Threads, LockKey(t)
  PROVE  IInv'
<1>1. TypeOK'
  BY DEF IInv, TypeOK, LockKey, LockFree, Goto, PCs, locals
<1>2. GlobalLockInGet'
  BY CacheAssumption DEF IInv, TypeOK, GlobalLockInGet, InGet, LockKey,
                         LockFree, Goto,
       locals
<1>3. TimerInv'
  BY DEF IInv, TimerInv, LockKey, LockFree, Goto, locals
<1>4. NoOrphanLock'
  BY CacheAssumption DEF IInv, TypeOK, NoOrphanLock, InUpdate, LockKey,
                         LockFree, Goto,
       locals, FirstGeneration, Generations
<1>5. FirstGeneration'
  BY CacheAssumption DEF IInv, TypeOK, FirstGeneration, InUpdate, PastGet,
       LockKey, LockFree, Goto, locals, Generations
<1>6. LockFaultsNeedReset'
  BY DEF IInv, LockFaultsNeedReset, LockKey, LockFree, Goto, locals
<1> QED
  BY <1>1, <1>2, <1>3, <1>4, <1>5, <1>6 DEF IInv

(* Put begins: t is already in the update. *)
LEMMA PutBeginStep ==
  ASSUME IInv, NEW t \in Threads, PutBegin(t)
  PROVE  IInv'
<1>1. TypeOK'
  BY DEF IInv, TypeOK, PutBegin, Goto, PCs, shared
<1>2. GlobalLockInGet'
  BY CacheAssumption DEF IInv, TypeOK, GlobalLockInGet, InGet, PutBegin,
       Goto, shared
<1>3. TimerInv'
  BY DEF IInv, TimerInv, PutBegin, Goto, shared
<1>4. NoOrphanLock'
  BY CacheAssumption DEF IInv, TypeOK, NoOrphanLock, InUpdate, PutBegin,
       Goto, shared, FirstGeneration, Generations
<1>5. FirstGeneration'
  BY CacheAssumption DEF IInv, TypeOK, FirstGeneration, InUpdate, PastGet,
       PutBegin, Goto, shared, Generations
<1>6. LockFaultsNeedReset'
  BY DEF IInv, LockFaultsNeedReset, PutBegin, Goto, shared
<1> QED
  BY <1>1, <1>2, <1>3, <1>4, <1>5, <1>6 DEF IInv

(* Put ends: t is still in the update. *)
LEMMA PutEndStep ==
  ASSUME IInv, NEW t \in Threads, PutEnd(t)
  PROVE  IInv'
<1>1. TypeOK'
  BY DEF IInv, TypeOK, PutEnd, AfterPut, Goto, PCs, Generations, Versions
<1>2. GlobalLockInGet'
  BY CacheAssumption DEF IInv, TypeOK, GlobalLockInGet, InGet, PutEnd,
                         AfterPut, Goto,
       locals
<1>3. TimerInv'
  BY DEF IInv, TimerInv, PutEnd, AfterPut, Goto, locals
<1>4. NoOrphanLock'
  BY CacheAssumption DEF IInv, TypeOK, NoOrphanLock, InUpdate, PutEnd,
                         AfterPut, Goto,
       locals, FirstGeneration, Generations
<1>5. FirstGeneration'
  BY CacheAssumption DEF IInv, TypeOK, FirstGeneration, InUpdate, PastGet,
       PutEnd, AfterPut, Goto, locals, Generations
<1>6. LockFaultsNeedReset'
  BY DEF IInv, LockFaultsNeedReset, PutEnd, AfterPut, Goto, locals
<1> QED
  BY <1>1, <1>2, <1>3, <1>4, <1>5, <1>6 DEF IInv

(* Houston changes an app: the process is not involved. *)
LEMMA HoustonChangeStep ==
  ASSUME IInv, NEW a \in Apps, HoustonChange(a)
  PROVE  IInv'
<1>1. TypeOK'
  BY CacheAssumption DEF IInv, TypeOK, HoustonChange, Versions, locals
<1>2. GlobalLockInGet'
  BY CacheAssumption DEF IInv, TypeOK, GlobalLockInGet, InGet, HoustonChange,
       locals
<1>3. TimerInv'
  BY DEF IInv, TimerInv, HoustonChange, locals
<1>4. NoOrphanLock'
  BY CacheAssumption DEF IInv, TypeOK, NoOrphanLock, InUpdate, HoustonChange,
       locals, FirstGeneration, Generations
<1>5. FirstGeneration'
  BY CacheAssumption DEF IInv, TypeOK, FirstGeneration, InUpdate, PastGet,
       HoustonChange, locals, Generations
<1>6. LockFaultsNeedReset'
  BY DEF IInv, LockFaultsNeedReset, HoustonChange, locals
<1> QED
  BY <1>1, <1>2, <1>3, <1>4, <1>5, <1>6 DEF IInv

(* The maps are replaced once, and the mutexes of the new syncMap are      *)
(* free.                                                                   *)
LEMMA resetCacheStep ==
  ASSUME IInv, resetCache
  PROVE  IInv'
<1>1. TypeOK'
  BY DEF IInv, TypeOK, resetCache, Generations, locals
<1>2. GlobalLockInGet'
  BY CacheAssumption DEF IInv, TypeOK, GlobalLockInGet, InGet, resetCache,
       locals
<1>3. TimerInv'
  BY CacheAssumption DEF IInv, TypeOK, TimerInv, resetCache, locals
<1>4. NoOrphanLock'
  BY CacheAssumption DEF IInv, TypeOK, NoOrphanLock, InUpdate, resetCache,
       locals, FirstGeneration, Generations
<1>5. FirstGeneration'
  BY CacheAssumption DEF IInv, TypeOK, FirstGeneration, InUpdate, PastGet,
       resetCache, locals, Generations
<1>6. LockFaultsNeedReset'
  BY DEF IInv, LockFaultsNeedReset, resetCache, locals, Running
<1> QED
  BY <1>1, <1>2, <1>3, <1>4, <1>5, <1>6 DEF IInv

(* The runtime aborts the process, for another reason than a lock. *)
LEMMA ConcurrentMapAccessStep ==
  ASSUME IInv, ConcurrentMapAccess
  PROVE  IInv'
<1>1. TypeOK'
  BY DEF IInv, TypeOK, ConcurrentMapAccess, Faults, shared, locals
<1>2. GlobalLockInGet'
  BY CacheAssumption DEF IInv, TypeOK, GlobalLockInGet, InGet,
       ConcurrentMapAccess, shared, locals
<1>3. TimerInv'
  BY DEF IInv, TimerInv, ConcurrentMapAccess, shared, locals
<1>4. NoOrphanLock'
  BY CacheAssumption DEF IInv, TypeOK, NoOrphanLock, InUpdate,
       ConcurrentMapAccess, shared, locals, FirstGeneration, Generations
<1>5. FirstGeneration'
  BY CacheAssumption DEF IInv, TypeOK, FirstGeneration, InUpdate, PastGet,
       ConcurrentMapAccess, shared, locals, Generations
<1>6. LockFaultsNeedReset'
  BY DEF IInv, LockFaultsNeedReset, ConcurrentMapAccess, shared, locals
<1> QED
  BY <1>1, <1>2, <1>3, <1>4, <1>5, <1>6 DEF IInv

(* A second pair of maps exists only if the timer was there to fire. *)
LEMMA ResetNeedsTTL == IInv /\ gen = 1 => ~DisableCacheTTL
<1> SUFFICES ASSUME IInv, gen = 1, DisableCacheTTL PROVE FALSE
  OBVIOUS
<1>1. timer = "fired" /\ timer = "off"
  BY DEF IInv, TimerInv
<1> QED
  BY <1>1

(* The listener takes a broadcast: it is idle before and holds no lock. *)
LEMMA SSEEventListenerStep ==
  ASSUME IInv, NEW t \in Threads, SSEEventListener(t)
  PROVE  IInv'
<1>1. PICK e \in broadcast :
        /\ broadcast' = broadcast \ {e}
        /\ \/ UNCHANGED <<pc, appId, inUpdate>>
           \/ /\ pc' = [pc EXCEPT ![t] = "fetch"]
              /\ appId' = [appId EXCEPT ![t] = e[1]]
              /\ inUpdate' = [inUpdate EXCEPT ![t] = TRUE]
  BY DEF SSEEventListener, AppOf
<1>2. e[1] \in Apps
  BY DEF IInv, TypeOK
<1>3. pc[t] = "idle"
  BY DEF SSEEventListener
<1>4. TypeOK'
  BY <1>1, <1>2 DEF IInv, TypeOK, SSEEventListener, PCs
<1>5. GlobalLockInGet'
  BY <1>1, <1>3 DEF IInv, TypeOK, GlobalLockInGet, InGet, SSEEventListener
<1>6. TimerInv'
  BY DEF IInv, TimerInv, SSEEventListener
<1>7. NoOrphanLock'
  BY <1>1, <1>3, CacheAssumption
  DEF IInv, TypeOK, NoOrphanLock, InUpdate, Generations, SSEEventListener
<1>8. FirstGeneration'
  BY <1>1, <1>3 DEF IInv, TypeOK, FirstGeneration, InUpdate, PastGet,
                    SSEEventListener
<1>9. LockFaultsNeedReset'
  BY DEF IInv, LockFaultsNeedReset, SSEEventListener
<1> QED
  BY <1>4, <1>5, <1>6, <1>7, <1>8, <1>9 DEF IInv

(* Either the mutex is there, or this is after resetCache. *)
LEMMA FindLockStep ==
  ASSUME IInv, NEW t \in Threads, FindLock(t)
  PROVE  IInv'
<1>1. CASE appId[t] \in syncMap
  <2>1. /\ pc[t] = "lock"
        /\ pc' = [pc EXCEPT ![t] = "locking"]
        /\ lock' = [lock EXCEPT ![t] = gen]
        /\ UNCHANGED <<shared, appId, inUpdate, ints, m, ret, fault>>
    BY <1>1 DEF FindLock, Goto
  <2>2. TypeOK'
    BY <2>1 DEF IInv, TypeOK, PCs, shared
  <2>3. GlobalLockInGet'
    BY <2>1 DEF IInv, TypeOK, GlobalLockInGet, InGet, shared
  <2>4. TimerInv'
    BY <2>1 DEF IInv, TimerInv, shared
  <2>5. NoOrphanLock'
    BY <2>1, CacheAssumption
    DEF IInv, TypeOK, NoOrphanLock, InUpdate, Generations, shared
  <2>6. FirstGeneration'
    BY <1>1, <2>1 DEF IInv, TypeOK, FirstGeneration, InUpdate, PastGet, shared
  <2>7. LockFaultsNeedReset'
    BY <2>1 DEF IInv, LockFaultsNeedReset, shared
  <2> QED
    BY <2>2, <2>3, <2>4, <2>5, <2>6, <2>7 DEF IInv
<1>2. CASE appId[t] \notin syncMap
  <2>1. /\ pc[t] = "lock"
        /\ fault' = "nil mutex"
        /\ UNCHANGED <<shared, pc, locals>>
    BY <1>2 DEF FindLock, Goto, locals
  <2>2. gen = 1
    <3>1. PastGet(t)
      BY <2>1 DEF PastGet
    <3>2. gen # 0
      BY <1>2, <3>1 DEF IInv, FirstGeneration
    <3> QED
      BY <3>2 DEF IInv, TypeOK, Generations
  <2>3. ~DisableCacheTTL
    BY <2>2, ResetNeedsTTL
  <2> QED
    BY <2>1, <2>2, <2>3 DEF IInv, TypeOK, Faults, GlobalLockInGet, InGet,
                            TimerInv,
         NoOrphanLock, FirstGeneration, InUpdate, PastGet,
         LockFaultsNeedReset, shared, locals
<1> QED
  BY <1>1, <1>2

(* Before resetCache the mutex found is the one t holds.  After it, t may  *)
(* release another goroutine's, which leaves that one without a lock but   *)
(* no lock without a holder.                                               *)
LEMMA UnlockKeyStep ==
  ASSUME IInv, NEW t \in Threads, UnlockKey(t)
  PROVE  IInv'
<1>1. pc[t] = "unlock"
  BY DEF UnlockKey
<1>2. CASE fault' # fault
  <2>1. /\ fault' \in {"nil mutex", "unlock of unlocked mutex"}
        /\ appId[t] \notin syncMap \/ rwmutex[gen][appId[t]] = Nil
        /\ UNCHANGED <<shared, pc, locals>>
    BY <1>2 DEF UnlockKey, shared, locals
  <2>2. gen = 1
    <3>1. PastGet(t) /\ InUpdate(t)
      BY <1>1 DEF PastGet, InUpdate
    <3>2. gen # 0
      BY <2>1, <3>1, CacheAssumption DEF IInv, FirstGeneration
    <3> QED
      BY <3>2 DEF IInv, TypeOK, Generations
  <2>3. ~DisableCacheTTL
    BY <2>2, ResetNeedsTTL
  <2> QED
    BY <2>1, <2>2, <2>3 DEF IInv, TypeOK, Faults, GlobalLockInGet, InGet,
                            TimerInv,
         NoOrphanLock, FirstGeneration, InUpdate, PastGet,
         LockFaultsNeedReset, shared, locals
<1>3. CASE fault' = fault
  <2>1. /\ rwmutex[gen][appId[t]] # Nil
        /\ rwmutex' = [rwmutex EXCEPT ![gen][appId[t]] = Nil]
        /\ pc' = [pc EXCEPT ![t] = "idle"]
        /\ lock' = [lock EXCEPT ![t] = 0]
        /\ UNCHANGED <<houston, broadcast, timer, gen, integrationsMap,
                       syncMap, globalLock, appId, inUpdate, ints, m, ret, fault>>
    BY <1>3 DEF UnlockKey, Running
  <2>2. TypeOK'
    BY <2>1 DEF IInv, TypeOK, PCs, Generations, locals
  <2>3. GlobalLockInGet'
    BY <1>1, <2>1 DEF IInv, TypeOK, GlobalLockInGet, InGet
  <2>4. TimerInv'
    BY <2>1 DEF IInv, TimerInv
  <2>5. NoOrphanLock'
    BY <2>1, CacheAssumption
    DEF IInv, TypeOK, NoOrphanLock, InUpdate, Generations, locals
  <2>6. FirstGeneration'
    BY <1>1, <2>1, CacheAssumption
    DEF IInv, TypeOK, FirstGeneration, InUpdate, PastGet, Generations, locals
  <2>7. LockFaultsNeedReset'
    BY <2>1 DEF IInv, LockFaultsNeedReset
  <2> QED
    BY <2>2, <2>3, <2>4, <2>5, <2>6, <2>7 DEF IInv
<1> QED
  BY <1>2, <1>3

-----------------------------------------------------------------------------
(* NewClient leaves the package in a state of the invariant. *)
LEMMA InitIInv == Init => IInv
<1> SUFFICES ASSUME Init PROVE IInv
  OBVIOUS
<1>1. TypeOK
  BY CacheAssumption
  DEF Init, TypeOK, Generations, Versions, PCs, Results, Faults
<1> QED
  BY <1>1, CacheAssumption
  DEF IInv, Init, GlobalLockInGet, InGet, TimerInv, NoOrphanLock,
      FirstGeneration, InUpdate, PastGet, LockFaultsNeedReset, Generations

(* Every step of every goroutine preserves the invariant. *)
LEMMA NextIInv == IInv /\ [Next]_vars => IInv'
<1> SUFFICES ASSUME IInv, [Next]_vars PROVE IInv'
  OBVIOUS
<1>1. CASE UNCHANGED vars
  BY <1>1 DEF vars, shared, locals, IInv, TypeOK, GlobalLockInGet, InGet,
       TimerInv, NoOrphanLock, FirstGeneration, InUpdate, PastGet,
       LockFaultsNeedReset
<1>2. CASE \E a \in Apps : HoustonChange(a)
  BY <1>2, HoustonChangeStep
<1>3. CASE \E t \in Threads, a \in Apps : GetIntegrations(t, a)
  BY <1>3, GetIntegrationsStep
<1>4. CASE \E t \in Threads : SSEEventListener(t)
  BY <1>4, SSEEventListenerStep
<1>5. CASE \E t \in Threads : Step(t)
  BY <1>5, GetLockStep, GetInsertStep, GetReadStep, FetchStep, EnsureLockStep,
     FindLockStep, LockKeyStep, PutBeginStep, PutEndStep, UnlockKeyStep
  DEF Step
<1>6. CASE resetCache
  BY <1>6, resetCacheStep
<1>7. CASE ConcurrentMapAccess
  BY <1>7, ConcurrentMapAccessStep
<1> QED
  BY <1>1, <1>2, <1>3, <1>4, <1>5, <1>6, <1>7 DEF Next

(* The invariant holds in every reachable state of the cache. *)
THEOREM Invariance == Spec => []IInv
<1>1. Init => IInv
  BY InitIInv
<1>2. IInv /\ [Next]_vars => IInv'
  BY NextIInv
<1> QED
  BY <1>1, <1>2, PTL DEF Spec

(* Every variable of the cache keeps its type, for any constants. *)
THEOREM TypeCorrect == Spec => []TypeOK
<1>1. IInv => TypeOK
  BY DEF IInv
<1> QED
  BY <1>1, Invariance, PTL

(* Map.Get holds globalLock from its first to its last step and nobody     *)
(* else ever holds it.                                                     *)
THEOREM GlobalLockDiscipline == Spec => []GlobalLockInGet
<1>1. IInv => GlobalLockInGet
  BY DEF IInv
<1> QED
  BY <1>1, Invariance, PTL

(* A mutex that Map.Get may wait for is held by a goroutine that needs no  *)
(* other lock to release it.                                               *)
THEOREM NoOrphanLocks == Spec => []NoOrphanLock
<1>1. IInv => NoOrphanLock
  BY DEF IInv
<1> QED
  BY <1>1, Invariance, PTL

(* The entry of an app has one writer at a time until resetCache has run:  *)
(* both writers would hold the app's one mutex.                            *)
THEOREM MutualExclusion == Spec => []KeyExclusion
<1>1. IInv => KeyExclusion
  BY DEF IInv, FirstGeneration, KeyExclusion
<1> QED
  BY <1>1, Invariance, PTL

(* The two unsynchronised lookups of syncMap in UpdateIntegrationsForApp   *)
(* are safe unless the TTL is enabled and has expired.                     *)
THEOREM LookupsSafeUntilReset == Spec => []LockFaultsNeedReset
<1>1. IInv => LockFaultsNeedReset
  BY DEF IInv
<1> QED
  BY <1>1, Invariance, PTL
=============================================================================
