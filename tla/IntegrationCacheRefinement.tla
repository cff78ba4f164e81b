--------------------- MODULE IntegrationCacheRefinement ---------------------
(***************************************************************************)
(* IntegrationCache implements AbstractCache, for any number of apps, SSE  *)
(* listeners and Houston versions, with and without the TTL.               *)
(*                                                                         *)
(* Most steps are stutters: readers see integrationsMap[gen], and only     *)
(* PutEnd and resetCache change that.  The invariant AInv says what the    *)
(* two need: a receiver loaded earlier is never newer than the map in use, *)
(* the map of the second generation is empty until it is in use, and a     *)
(* goroutine that has an answer is inside UpdateIntegrationsForApp.        *)
(***************************************************************************)
EXTENDS IntegrationCacheProofs

InUpdateCall(t) == pc[t] \in {"fetch", "fetched", "lock", "locking", "put",
                              "write", "unlock"}

(* What a goroutine knows at its control point. *)
AnswerInv ==
  \A t \in Threads :
    /\ InUpdateCall(t) \/ (t # Consumer /\ pc[t] # "idle") => inUpdate[t]
    /\ HasAnswer(t) => ints[t] # Nil

(* The first pair of maps, as long as it is in use. *)
FirstMap ==
  gen = 0 =>
    /\ \A t \in Threads : m[t] = 0
    /\ integrationsMap[1] = [a \in Apps |-> Nil]
    /\ \A t \in Threads : pc[t] = "unlock" => integrationsMap[0][appId[t]] # Nil

AInv == AnswerInv /\ FirstMap /\ NilMeansFilled

-----------------------------------------------------------------------------
(* One step of a goroutine inside the cache. *)
LEMMA StepAInv ==
  ASSUME IInv, AInv, NEW t \in Threads, Step(t)
  PROVE  AInv'
<1> USE CacheAssumption DEF Generations
<1>1. CASE GetLock(t)
  <2>1. AnswerInv'
    BY <1>1 DEF IInv, TypeOK, AInv, AnswerInv, InUpdateCall, HasAnswer,
         Versions, GetLock, Goto, shared, locals
  <2>2. FirstMap'
    BY <1>1 DEF IInv, TypeOK, AInv, AnswerInv, FirstMap, HasAnswer, GetLock,
                Goto, shared, locals
  <2>3. NilMeansFilled'
    BY <1>1 DEF IInv, TypeOK, AInv, FirstMap, NilMeansFilled, Threads,
         GetLock, Goto, shared, locals
  <2> QED
    BY <2>1, <2>2, <2>3 DEF AInv
<1>2. CASE GetInsert(t)
  <2>1. AnswerInv'
    BY <1>2 DEF IInv, TypeOK, AInv, AnswerInv, InUpdateCall, HasAnswer,
         Versions, GetInsert, Goto, shared, locals
  <2>2. FirstMap'
    BY <1>2 DEF IInv, TypeOK, AInv, AnswerInv, FirstMap, HasAnswer,
                GetInsert, Goto, shared, locals
  <2>3. NilMeansFilled'
    BY <1>2 DEF IInv, TypeOK, AInv, FirstMap, NilMeansFilled, Threads,
         GetInsert, Goto, shared, locals
  <2> QED
    BY <2>1, <2>2, <2>3 DEF AInv
<1>3. CASE GetRead(t)
  <2>1. CASE inUpdate[t]
    <3>1. /\ pc[t] = "read"
          /\ pc' = [pc EXCEPT ![t] = "lock"]
          /\ UNCHANGED <<gen, integrationsMap, appId, inUpdate, ints, m, ret>>
      BY <1>3, <2>1 DEF GetRead, Goto
    <3>2. AnswerInv'
      BY <3>1, <2>1 DEF IInv, TypeOK, AInv, AnswerInv, InUpdateCall, HasAnswer
    <3>3. FirstMap'
      BY <3>1 DEF IInv, TypeOK, AInv, FirstMap
    <3>4. NilMeansFilled'
      BY <3>1 DEF IInv, TypeOK, AInv, NilMeansFilled, Threads
    <3> QED
      BY <3>2, <3>3, <3>4 DEF AInv
  <2>2. CASE ~inUpdate[t]
    <3> DEFINE entry == integrationsMap[m[t]][appId[t]]
    <3>1. /\ pc[t] = "read"
          /\ pc' = [pc EXCEPT ![t] = IF entry = Nil THEN "fetch" ELSE "idle"]
          /\ inUpdate' = [inUpdate EXCEPT ![t] = (entry = Nil)]
          /\ ret' = IF entry = Nil THEN "nil" ELSE "integrations"
          /\ UNCHANGED <<gen, integrationsMap, appId, ints, m>>
      BY <1>3, <2>2 DEF GetRead, Goto
    <3>2. t = Consumer
      BY <3>1, <2>2 DEF AInv, AnswerInv
    <3> HIDE DEF entry
    <3>3. AnswerInv'
      <4>1. CASE entry = Nil
        BY <3>1, <3>2, <4>1
        DEF IInv, TypeOK, AInv, AnswerInv, InUpdateCall, HasAnswer
      <4>2. CASE entry # Nil
        BY <3>1, <3>2, <4>2
        DEF IInv, TypeOK, AInv, AnswerInv, InUpdateCall, HasAnswer
      <4> QED
        BY <4>1, <4>2
    <3>4. FirstMap'
      BY <3>1 DEF IInv, TypeOK, AInv, FirstMap
    <3>5. NilMeansFilled'
      BY <3>1, <3>2 DEF IInv, TypeOK, NilMeansFilled
    <3> QED
      BY <3>3, <3>4, <3>5 DEF AInv
  <2> QED
    BY <2>1, <2>2
<1>4. CASE Fetch(t)
  <2>1. AnswerInv'
    BY <1>4 DEF IInv, TypeOK, AInv, AnswerInv, InUpdateCall, HasAnswer,
         Versions, Fetch, Goto, shared, locals
  <2>2. FirstMap'
    BY <1>4 DEF IInv, TypeOK, AInv, AnswerInv, FirstMap, HasAnswer, Fetch,
                Goto, shared, locals
  <2>3. NilMeansFilled'
    BY <1>4 DEF IInv, TypeOK, AInv, FirstMap, NilMeansFilled, Threads,
         Fetch, Goto, shared, locals
  <2> QED
    BY <2>1, <2>2, <2>3 DEF AInv
<1>5. CASE EnsureLock(t)
  <2>1. AnswerInv'
    BY <1>5 DEF IInv, TypeOK, AInv, AnswerInv, InUpdateCall, HasAnswer,
         Versions, EnsureLock, Goto, shared, locals
  <2>2. FirstMap'
    BY <1>5 DEF IInv, TypeOK, AInv, AnswerInv, FirstMap, HasAnswer,
                EnsureLock, Goto, shared, locals
  <2>3. NilMeansFilled'
    BY <1>5 DEF IInv, TypeOK, AInv, FirstMap, NilMeansFilled, Threads,
         EnsureLock, Goto, shared, locals
  <2> QED
    BY <2>1, <2>2, <2>3 DEF AInv
<1>6. CASE FindLock(t)
  <2>1. AnswerInv'
    BY <1>6 DEF IInv, TypeOK, AInv, AnswerInv, InUpdateCall, HasAnswer,
         Versions, FindLock, Goto, shared, locals
  <2>2. FirstMap'
    BY <1>6 DEF IInv, TypeOK, AInv, AnswerInv, FirstMap, HasAnswer, FindLock,
                Goto, shared, locals
  <2>3. NilMeansFilled'
    BY <1>6 DEF IInv, TypeOK, AInv, FirstMap, NilMeansFilled, Threads,
         FindLock, Goto, shared, locals
  <2> QED
    BY <2>1, <2>2, <2>3 DEF AInv
<1>7. CASE LockKey(t)
  <2>1. AnswerInv'
    BY <1>7 DEF IInv, TypeOK, AInv, AnswerInv, InUpdateCall, HasAnswer,
         Versions, LockKey, LockFree, Goto, shared, locals
  <2>2. FirstMap'
    BY <1>7 DEF IInv, TypeOK, AInv, AnswerInv, FirstMap, HasAnswer, LockKey,
                LockFree, Goto, shared, locals
  <2>3. NilMeansFilled'
    BY <1>7 DEF IInv, TypeOK, AInv, FirstMap, NilMeansFilled, Threads,
         LockKey, LockFree, Goto, shared, locals
  <2> QED
    BY <2>1, <2>2, <2>3 DEF AInv
<1>8. CASE PutBegin(t)
  <2>1. AnswerInv'
    BY <1>8 DEF IInv, TypeOK, AInv, AnswerInv, InUpdateCall, HasAnswer,
         Versions, PutBegin, Goto, shared, locals
  <2>2. FirstMap'
    BY <1>8 DEF IInv, TypeOK, AInv, AnswerInv, FirstMap, HasAnswer, PutBegin,
                Goto, shared, locals
  <2>3. NilMeansFilled'
    BY <1>8 DEF IInv, TypeOK, AInv, FirstMap, NilMeansFilled, Threads,
         PutBegin, Goto, shared, locals
  <2> QED
    BY <2>1, <2>2, <2>3 DEF AInv
<1>9. CASE PutEnd(t)
  <2>1. AnswerInv'
    BY <1>9 DEF IInv, TypeOK, AInv, AnswerInv, InUpdateCall, HasAnswer,
         Versions, PutEnd, AfterPut, Running, Goto, shared, locals
  <2>2. FirstMap'
    BY <1>9 DEF IInv, TypeOK, AInv, AnswerInv, FirstMap, HasAnswer, PutEnd,
                AfterPut, Running, Goto, shared, locals
  <2>3. NilMeansFilled'
    BY <1>9 DEF IInv, TypeOK, AInv, FirstMap, AnswerInv, HasAnswer,
                NilMeansFilled, Threads,
         PutEnd, AfterPut, Running, Goto, shared, locals
  <2> QED
    BY <2>1, <2>2, <2>3 DEF AInv
<1>10. CASE UnlockKey(t)
  <2>1. AnswerInv'
    BY <1>10 DEF IInv, TypeOK, AInv, AnswerInv, InUpdateCall, HasAnswer,
         Versions, UnlockKey, Goto, shared, locals
  <2>2. FirstMap'
    BY <1>10 DEF IInv, TypeOK, AInv, AnswerInv, FirstMap, HasAnswer,
                 UnlockKey, Goto, shared, locals
  <2>3. NilMeansFilled'
    BY <1>10 DEF IInv, TypeOK, AInv, FirstMap, NilMeansFilled, Threads,
         UnlockKey, Goto, shared, locals
  <2> QED
    BY <2>1, <2>2, <2>3 DEF AInv
<1> QED
  BY <1>1, <1>2, <1>3, <1>4, <1>5, <1>6, <1>7, <1>8, <1>9, <1>10 DEF Step

(* The other steps: a call begins, Houston changes, the cache expires, the *)
(* process is aborted.                                                     *)
LEMMA NextAInv == IInv /\ AInv /\ [Next]_vars => AInv'
<1> SUFFICES ASSUME IInv, AInv, [Next]_vars PROVE AInv'
  OBVIOUS
<1> USE CacheAssumption DEF Generations
<1>1. ASSUME UNCHANGED vars PROVE AInv'
  BY <1>1 DEF vars, shared, locals, AInv, AnswerInv, InUpdateCall, HasAnswer,
       FirstMap, NilMeansFilled
<1>2. ASSUME NEW a \in Apps, HoustonChange(a) PROVE AInv'
  BY <1>2 DEF HoustonChange, locals, AInv, AnswerInv, InUpdateCall, HasAnswer,
       FirstMap, NilMeansFilled
<1>3. ASSUME NEW t \in Threads, NEW a \in Apps, GetIntegrations(t, a)
      PROVE  AInv'
  <2>1. AnswerInv'
    BY <1>3 DEF IInv, TypeOK, AInv, AnswerInv, InUpdateCall, HasAnswer,
         GetIntegrations, Goto, shared
  <2>2. FirstMap' /\ NilMeansFilled'
    BY <1>3 DEF IInv, TypeOK, AInv, FirstMap, NilMeansFilled,
         GetIntegrations, Goto, shared
  <2> QED
    BY <2>1, <2>2 DEF AInv
<1>4. ASSUME NEW t \in Threads, SSEEventListener(t) PROVE AInv'
  <2>1. PICK e \in broadcast :
          \/ UNCHANGED <<pc, appId, inUpdate>>
          \/ /\ pc' = [pc EXCEPT ![t] = "fetch"]
             /\ appId' = [appId EXCEPT ![t] = AppOf(e)]
             /\ inUpdate' = [inUpdate EXCEPT ![t] = TRUE]
    BY <1>4 DEF SSEEventListener
  <2>2. /\ t # Consumer
        /\ UNCHANGED <<gen, integrationsMap, ints, m, ret>>
    BY <1>4 DEF SSEEventListener
  <2>3. AnswerInv'
    BY <2>1, <2>2 DEF IInv, TypeOK, AInv, AnswerInv, InUpdateCall, HasAnswer
  <2>4. FirstMap' /\ NilMeansFilled'
    BY <2>1, <2>2 DEF IInv, TypeOK, AInv, FirstMap, NilMeansFilled, Threads
  <2> QED
    BY <2>3, <2>4 DEF AInv
<1>5. ASSUME NEW t \in Threads, Step(t) PROVE AInv'
  BY <1>5, StepAInv
<1>6. ASSUME resetCache PROVE AInv'
  BY <1>6 DEF resetCache, locals, AInv, AnswerInv, InUpdateCall, HasAnswer,
       FirstMap, NilMeansFilled
<1>7. ASSUME ConcurrentMapAccess PROVE AInv'
  BY <1>7 DEF ConcurrentMapAccess, shared, locals, AInv, AnswerInv,
       InUpdateCall, HasAnswer, FirstMap, NilMeansFilled
<1> QED
  BY <1>1, <1>2, <1>3, <1>4, <1>5, <1>6, <1>7 DEF Next

(* NewClient: no entry, no answer, nothing returned. *)
LEMMA InitAInv == Init => AInv
  BY CacheAssumption DEF Init, AInv, AnswerInv, InUpdateCall, HasAnswer,
       FirstMap, NilMeansFilled, Generations

(* Both invariants hold in every reachable state of the cache. *)
THEOREM AnswerInvariance == Spec => [](IInv /\ AInv)
<1>1. Init => IInv /\ AInv
  BY InitIInv, InitAInv
<1>2. (IInv /\ AInv) /\ [Next]_vars => (IInv /\ AInv)'
  BY NextIInv, NextAInv
<1> QED
  BY <1>1, <1>2, PTL DEF Spec

(* A miss is answered with nil only when the update that follows it has    *)
(* filled the entry: GetIntegrations drops one message of an app, not two. *)
THEOREM NilIsFilled == Spec => []NilMeansFilled
<1>1. IInv /\ AInv => NilMeansFilled
  BY DEF AInv
<1> QED
  BY <1>1, AnswerInvariance, PTL

-----------------------------------------------------------------------------
(* The refinement.                                                         *)

Answer == [t \in Threads |-> IF HasAnswer(t) THEN <<appId[t], ints[t]>> ELSE Nil]

(* A step that leaves Houston, the map in use and all answers alone is a   *)
(* stutter of AbstractCache.                                               *)
LEMMA Stutter ==
  ASSUME UNCHANGED <<houston, gen, integrationsMap>>, Answer' = Answer
  PROVE  UNCHANGED Abstract!vars
  BY DEF Abstract!vars, Answer

(* One step of a goroutine inside the cache: Fetch asks, PutEnd stores, or *)
(* loses the answer when its receiver is the map of before the expiry; all *)
(* others are stutters.                                                    *)
LEMMA StepRefines ==
  ASSUME IInv, AInv, NEW t \in Threads, Step(t)
  PROVE  [Abstract!Next]_(Abstract!vars)
<1> USE CacheAssumption DEF Generations
<1>1. CASE GetLock(t)
  <2>1. UNCHANGED <<houston, gen, integrationsMap>>
    BY <1>1 DEF GetLock, Goto, shared, locals
  <2>2. \A u \in Threads : /\ HasAnswer(u)' <=> HasAnswer(u)
                           /\ appId'[u] = appId[u] /\ ints'[u] = ints[u]
    BY <1>1 DEF IInv, TypeOK, AInv, AnswerInv, InUpdateCall, HasAnswer,
                GetLock, Goto, shared, locals
  <2> QED
    BY <2>1, <2>2, Stutter DEF Answer
<1>2. CASE GetInsert(t)
  <2>1. UNCHANGED <<houston, gen, integrationsMap>>
    BY <1>2 DEF GetInsert, Goto, shared, locals
  <2>2. \A u \in Threads : /\ HasAnswer(u)' <=> HasAnswer(u)
                           /\ appId'[u] = appId[u] /\ ints'[u] = ints[u]
    BY <1>2 DEF IInv, TypeOK, AInv, AnswerInv, InUpdateCall, HasAnswer,
                GetInsert, Goto, shared, locals
  <2> QED
    BY <2>1, <2>2, Stutter DEF Answer
<1>3. CASE GetRead(t)
  <2>1. UNCHANGED <<houston, gen, integrationsMap>>
    BY <1>3 DEF GetRead, LeaveGet, Goto, shared, locals
  <2>2. \A u \in Threads : /\ HasAnswer(u)' <=> HasAnswer(u)
                           /\ appId'[u] = appId[u] /\ ints'[u] = ints[u]
    BY <1>3 DEF IInv, TypeOK, AInv, AnswerInv, InUpdateCall, HasAnswer,
                GetRead, LeaveGet, Goto, shared, locals
  <2> QED
    BY <2>1, <2>2, Stutter DEF Answer
<1>4. CASE Fetch(t)
  <2>1. UNCHANGED <<houston, gen, integrationsMap, appId>>
    BY <1>4 DEF Fetch, Goto, shared
  <2>2. ~HasAnswer(t) /\ appId[t] \in Apps
    BY <1>4 DEF IInv, TypeOK, Fetch, Goto, HasAnswer
  <2>3. \A u \in Threads \ {t} : /\ HasAnswer(u)' <=> HasAnswer(u)
                                 /\ ints'[u] = ints[u]
    BY <1>4 DEF IInv, TypeOK, Fetch, Goto, HasAnswer
  <2>4. CASE pc'[t] = "fetched"
    <3>1. HasAnswer(t)' /\ ints'[t] = houston[appId[t]]
      BY <1>4, <2>4 DEF IInv, TypeOK, Fetch, Goto, HasAnswer
    <3>2. Answer' = [Answer EXCEPT ![t] = <<appId[t], houston[appId[t]]>>]
      BY <2>1, <2>3, <3>1 DEF Answer
    <3>3. Answer[t] = Nil
      BY <2>2 DEF Answer
    <3>4. PICK a \in Apps : a = appId[t]
      BY <2>2
    <3>5. Abstract!Ask(t, a)
      BY <2>1, <3>2, <3>3, <3>4 DEF Abstract!Ask, Answer
    <3> QED
      BY <3>5 DEF Abstract!Next
  <2>5. CASE pc'[t] # "fetched"
    <3>1. ~HasAnswer(t)'
      BY <1>4, <2>5 DEF IInv, TypeOK, Fetch, Goto, HasAnswer
    <3> QED
      BY <2>1, <2>2, <2>3, <3>1, Stutter DEF Answer
  <2> QED
    BY <2>4, <2>5
<1>5. CASE EnsureLock(t)
  <2>1. UNCHANGED <<houston, gen, integrationsMap>>
    BY <1>5 DEF EnsureLock, Goto, shared, locals
  <2>2. \A u \in Threads : /\ HasAnswer(u)' <=> HasAnswer(u)
                           /\ appId'[u] = appId[u] /\ ints'[u] = ints[u]
    BY <1>5 DEF IInv, TypeOK, AInv, AnswerInv, InUpdateCall, HasAnswer,
                EnsureLock, Goto, shared, locals
  <2> QED
    BY <2>1, <2>2, Stutter DEF Answer
<1>6. CASE FindLock(t)
  <2>1. UNCHANGED <<houston, gen, integrationsMap>>
    BY <1>6 DEF FindLock, Goto, shared, locals
  <2>2. \A u \in Threads : /\ HasAnswer(u)' <=> HasAnswer(u)
                           /\ appId'[u] = appId[u] /\ ints'[u] = ints[u]
    BY <1>6 DEF IInv, TypeOK, AInv, AnswerInv, InUpdateCall, HasAnswer,
                FindLock, Goto, shared, locals
  <2> QED
    BY <2>1, <2>2, Stutter DEF Answer
<1>7. CASE LockKey(t)
  <2>1. UNCHANGED <<houston, gen, integrationsMap>>
    BY <1>7 DEF LockKey, LockFree, Goto, shared, locals
  <2>2. \A u \in Threads : /\ HasAnswer(u)' <=> HasAnswer(u)
                           /\ appId'[u] = appId[u] /\ ints'[u] = ints[u]
    BY <1>7 DEF IInv, TypeOK, AInv, AnswerInv, InUpdateCall, HasAnswer,
                LockKey, LockFree, Goto, shared, locals
  <2> QED
    BY <2>1, <2>2, Stutter DEF Answer
<1>8. CASE PutBegin(t)
  <2>1. UNCHANGED <<houston, gen, integrationsMap>>
    BY <1>8 DEF PutBegin, Goto, shared, locals
  <2>2. \A u \in Threads : /\ HasAnswer(u)' <=> HasAnswer(u)
                           /\ appId'[u] = appId[u] /\ ints'[u] = ints[u]
    BY <1>8 DEF IInv, TypeOK, AInv, AnswerInv, InUpdateCall, HasAnswer,
                PutBegin, Goto, shared, locals
  <2> QED
    BY <2>1, <2>2, Stutter DEF Answer
<1>9. CASE PutEnd(t)
  <2>1. /\ UNCHANGED <<houston, gen, appId>>
        /\ integrationsMap' = [integrationsMap EXCEPT ![m[t]][appId[t]] = ints[t]]
    BY <1>9 DEF PutEnd, Goto
  <2>2. HasAnswer(t) /\ ~HasAnswer(t)'
    BY <1>9 DEF IInv, TypeOK, PutEnd, AfterPut, Goto, HasAnswer
  <2>3. \A u \in Threads \ {t} : /\ HasAnswer(u)' <=> HasAnswer(u)
                                 /\ ints'[u] = ints[u]
    BY <1>9 DEF IInv, TypeOK, PutEnd, AfterPut, Goto, HasAnswer
  <2>4. /\ appId[t] \in Apps
        /\ ints[t] \in 0..MaxVersion
    BY <2>2 DEF IInv, TypeOK, AInv, AnswerInv, Versions
  <2>5. Answer' = [Answer EXCEPT ![t] = Nil]
    BY <2>1, <2>2, <2>3 DEF Answer
  <2>6. CASE m[t] = gen
    <3>1. integrationsMap'[gen'] = [integrationsMap[gen] EXCEPT ![appId[t]] = ints[t]]
      BY <2>1, <2>6 DEF IInv, TypeOK
    <3>2. Answer[t] = <<appId[t], ints[t]>>
      BY <2>2 DEF Answer
    <3>3. PICK a \in Apps, v \in 0..MaxVersion : a = appId[t] /\ v = ints[t]
      BY <2>4
    <3>4. Abstract!Store(t, a, v)
      BY <2>1, <2>5, <3>1, <3>2, <3>3 DEF Abstract!Store, Answer
    <3> QED
      BY <3>4 DEF Abstract!Next
  <2>7. CASE m[t] # gen
    <3>1. gen = 1
      BY <2>7 DEF IInv, TypeOK, AInv, FirstMap
    <3>2. integrationsMap'[gen'] = integrationsMap[gen]
      BY <2>1, <2>7 DEF IInv, TypeOK
    <3>3. Abstract!Lose(t)
      BY <2>1, <2>5, <3>1, <3>2 DEF Abstract!Lose, Answer
    <3> QED
      BY <3>3 DEF Abstract!Next
  <2> QED
    BY <2>6, <2>7
<1>10. CASE UnlockKey(t)
  <2>1. UNCHANGED <<houston, gen, integrationsMap>>
    BY <1>10 DEF UnlockKey, Goto, shared, locals
  <2>2. \A u \in Threads : /\ HasAnswer(u)' <=> HasAnswer(u)
                           /\ appId'[u] = appId[u] /\ ints'[u] = ints[u]
    BY <1>10 DEF IInv, TypeOK, AInv, AnswerInv, InUpdateCall, HasAnswer,
                 UnlockKey, Goto, shared, locals
  <2> QED
    BY <2>1, <2>2, Stutter DEF Answer
<1> QED
  BY <1>1, <1>2, <1>3, <1>4, <1>5, <1>6, <1>7, <1>8, <1>9, <1>10 DEF Step

(* Every step of the cache is a step of AbstractCache or a stutter. *)
LEMMA NextRefines ==
  ASSUME IInv, AInv, [Next]_vars
  PROVE  [Abstract!Next]_(Abstract!vars)
<1> USE CacheAssumption DEF Generations
<1>1. ASSUME UNCHANGED vars PROVE UNCHANGED Abstract!vars
  BY <1>1, Stutter DEF vars, shared, locals, Answer, HasAnswer
<1>2. ASSUME NEW a \in Apps, HoustonChange(a) PROVE Abstract!Next
  <2>1. Answer' = Answer
    BY <1>2 DEF HoustonChange, locals, Answer, HasAnswer
  <2>2. Abstract!Change(a)
    BY <1>2, <2>1 DEF HoustonChange, Abstract!Change, Answer
  <2> QED
    BY <2>2 DEF Abstract!Next
<1>3. ASSUME NEW t \in Threads, NEW a \in Apps, GetIntegrations(t, a)
      PROVE  UNCHANGED Abstract!vars
  <2>1. UNCHANGED <<houston, gen, integrationsMap>>
    BY <1>3 DEF GetIntegrations, shared
  <2>2. \A u \in Threads : /\ HasAnswer(u)' <=> HasAnswer(u)
                           /\ HasAnswer(u) => appId'[u] = appId[u] /\ ints'[u] = ints[u]
    BY <1>3 DEF IInv, TypeOK, GetIntegrations, Goto, HasAnswer
  <2> QED
    BY <2>1, <2>2, Stutter DEF Answer
<1>4. ASSUME NEW t \in Threads, SSEEventListener(t)
      PROVE  UNCHANGED Abstract!vars
  <2>1. UNCHANGED <<houston, gen, integrationsMap, ints>>
    BY <1>4 DEF SSEEventListener
  <2>2. \A u \in Threads : /\ HasAnswer(u)' <=> HasAnswer(u)
                           /\ HasAnswer(u) => appId'[u] = appId[u]
    BY <1>4 DEF IInv, TypeOK, SSEEventListener, HasAnswer
  <2> QED
    BY <2>1, <2>2, Stutter DEF Answer
<1>5. ASSUME NEW t \in Threads, Step(t)
      PROVE  [Abstract!Next]_(Abstract!vars)
  BY <1>5, StepRefines
<1>6. ASSUME resetCache PROVE Abstract!Next
  <2>1. gen = 0 /\ ~DisableCacheTTL
    BY <1>6 DEF resetCache, IInv, TypeOK, TimerInv
  <2>2. integrationsMap'[gen'] = [a \in Apps |-> Nil]
    BY <1>6, <2>1 DEF resetCache, AInv, FirstMap
  <2>3. Answer' = Answer
    BY <1>6 DEF resetCache, locals, Answer, HasAnswer
  <2>4. Abstract!Expire
    BY <1>6, <2>1, <2>2, <2>3
    DEF resetCache, Abstract!Expire, Abstract!Empty, Answer
  <2> QED
    BY <2>4 DEF Abstract!Next
<1>7. ASSUME ConcurrentMapAccess PROVE UNCHANGED Abstract!vars
  BY <1>7, Stutter DEF ConcurrentMapAccess, shared, locals, Answer, HasAnswer
<1> QED
  BY <1>1, <1>2, <1>3, <1>4, <1>5, <1>6, <1>7 DEF Next

(* NewClient leaves an empty cache and nobody with an answer. *)
LEMMA InitRefines == Init => Abstract!Init
  BY CacheAssumption DEF Init, Abstract!Init, Abstract!Empty, Generations,
       HasAnswer

(* What Map.Get can return changes only as AbstractCache says: a goroutine *)
(* stores the answer it fetched, once, or the TTL expires, once; no answer *)
(* is lost before that.                                                    *)
THEOREM Refinement == Spec => ImplementsAbstractCache
<1>1. Init => Abstract!Init
  BY InitRefines
<1>2. IInv /\ AInv /\ [Next]_vars => [Abstract!Next]_(Abstract!vars)
  BY NextRefines
<1> QED
  BY <1>1, <1>2, AnswerInvariance, PTL
  DEF Spec, ImplementsAbstractCache, Abstract!Spec
=============================================================================
