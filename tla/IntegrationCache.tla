-------------------------- MODULE IntegrationCache --------------------------
(***************************************************************************)
(* The cache of enabled integrations (integrations/integrations.go).       *)
(*                                                                         *)
(* The package keeps two global maps, integrationsMap (app id -> enabled   *)
(* integrations) and syncMap (app id -> RWMutex), and one globalLock.      *)
(* Three kinds of goroutine work on them: the Kafka consumer, which calls  *)
(* GetIntegrations for every message; an SSE listener, which calls         *)
(* UpdateIntegrationsForApp for every broadcast; and the TTL goroutine,    *)
(* which replaces both maps once.  Each action below is one step of a      *)
(* goroutine between two points where another one can run.                 *)
(*                                                                         *)
(* What an app has enabled is abstracted to a version number: Houston      *)
(* counts it up at every change.                                           *)
(*                                                                         *)
(* Go maps are not safe for concurrent use.  A map assignment is therefore *)
(* two steps (the runtime raises its "writing" flag, then stores), and an  *)
(* access of the same map between them may abort the process, or may not:  *)
(* the runtime's check is best effort.                                     *)
(***************************************************************************)
EXTENDS Naturals

CONSTANTS
  Apps,            \* application ids
  Consumer,        \* the goroutine that runs clickstreamConsumer.Run
  Listeners,       \* goroutines that run SSEEventListener; {} is --disable-sse
  DisableCacheTTL, \* config.DisableCacheTTL
  MaxVersion,      \* bound: how often Houston changes one app
  Nil              \* a nil *map, and a mutex that nobody holds

Threads == {Consumer} \cup Listeners

ASSUME CacheAssumption ==
  /\ Consumer \notin Listeners
  /\ Nil \notin Threads
  /\ Nil \notin Nat
  /\ DisableCacheTTL \in BOOLEAN
  /\ MaxVersion \in Nat

VARIABLES
  houston,         \* Houston: the current version of every app
  broadcast,       \* SSE events under way: <<app, version announced>>
  timer,           \* the TTL timer: "off", "armed" or "fired"
  gen,             \* which pair of maps the two package variables point to
  integrationsMap, \* [generation -> [app -> version or Nil]]
  syncMap,         \* apps with a mutex in the current syncMap
  rwmutex,         \* [generation -> [app -> the goroutine holding Lock()]]
  globalLock,      \* the goroutine holding globalLock
  pc, appId,       \* per goroutine: control point, argument of the call
  inUpdate,        \* ... is it inside UpdateIntegrationsForApp
  ints,            \* ... Houston's answer (integrations.go:138)
  m,               \* ... receiver of the running Map method (a generation)
  lock,            \* ... mutex being locked (its generation)
  ret,             \* what the consumer's last GetIntegrations returned
  fault            \* what aborted the process, or "none"

shared == <<houston, broadcast, timer, gen, integrationsMap, syncMap, rwmutex,
            globalLock>>
locals == <<appId, inUpdate, ints, m, lock, ret>>
vars   == <<shared, pc, locals, fault>>

-----------------------------------------------------------------------------
(* NewTimer is never re-armed, so there are at most two pairs of maps.     *)
Generations == 0..1
Versions    == 0..MaxVersion

Results == {"none", "nil", "integrations", "error"}
Faults  == {"none", "nil mutex", "unlock of unlocked mutex",
            "concurrent map access"}
PCs     == {"idle", "lookup", "insert", "read", "fetch", "fetched", "lock",
            "locking", "put", "write", "unlock"}

TypeOK ==
  /\ houston \in [Apps -> Versions]
  /\ broadcast \subseteq Apps \X Versions
  /\ timer \in {"off", "armed", "fired"}
  /\ gen \in Generations
  /\ integrationsMap \in [Generations -> [Apps -> Versions \cup {Nil}]]
  /\ syncMap \subseteq Apps
  /\ rwmutex \in [Generations -> [Apps -> Threads \cup {Nil}]]
  /\ globalLock \in Threads \cup {Nil}
  /\ pc \in [Threads -> PCs]
  /\ appId \in [Threads -> Apps]
  /\ inUpdate \in [Threads -> BOOLEAN]
  /\ ints \in [Threads -> Versions \cup {Nil}]
  /\ m \in [Threads -> Generations]
  /\ lock \in [Threads -> Generations]
  /\ ret \in Results
  /\ fault \in Faults

(* The state after NewClient: empty maps, the timer armed unless disabled. *)
Init ==
  /\ houston = [a \in Apps |-> 0]
  /\ broadcast = {}
  /\ timer = IF DisableCacheTTL THEN "off" ELSE "armed"
  /\ gen = 0
  /\ integrationsMap = [g \in Generations |-> [a \in Apps |-> Nil]]
  /\ syncMap = {}
  /\ rwmutex = [g \in Generations |-> [a \in Apps |-> Nil]]
  /\ globalLock = Nil
  /\ pc = [t \in Threads |-> "idle"]
  /\ appId \in [Threads -> Apps]
  /\ inUpdate = [t \in Threads |-> FALSE]
  /\ ints = [t \in Threads |-> Nil]
  /\ m = [t \in Threads |-> 0]
  /\ lock = [t \in Threads |-> 0]
  /\ ret = "none"
  /\ fault = "none"

(* The process runs until a goroutine aborts it. *)
Running == fault = "none"

(* Control of goroutine t moves on from one point to another. *)
Goto(t, from, to) ==
  /\ Running
  /\ pc[t] = from
  /\ pc' = [pc EXCEPT ![t] = to]

(* Some goroutine is between the two halves of an assignment to            *)
(* m.integrations of generation g, or to syncMap.                          *)
WritingMap(g)  == \E u \in Threads : pc[u] = "write" /\ m[u] = g
WritingSyncMap == \E u \in Threads : pc[u] = "insert"

-----------------------------------------------------------------------------
(* Houston, external: an app changes, and the broadcast reaches this       *)
(* process or is lost.                                                     *)
HoustonChange(a) ==
  /\ Running
  /\ houston[a] < MaxVersion
  /\ houston' = [houston EXCEPT ![a] = @ + 1]
  /\ \/ broadcast' = broadcast \cup {<<a, houston[a] + 1>>}
     \/ UNCHANGED broadcast
  /\ UNCHANGED <<timer, gen, integrationsMap, syncMap, rwmutex, globalLock,
                 pc, locals, fault>>

(* GetIntegrations begins: the receiver of integrationsMap.Get is loaded   *)
(* before globalLock is taken.                                             *)
GetIntegrations(t, a) ==
  /\ t = Consumer
  /\ Goto(t, "idle", "lookup")
  /\ appId' = [appId EXCEPT ![t] = a]
  /\ inUpdate' = [inUpdate EXCEPT ![t] = FALSE]
  /\ m' = [m EXCEPT ![t] = gen]
  /\ ret' = "none"
  /\ UNCHANGED <<shared, ints, lock, fault>>

(* Mutant: the whole event is taken for the app id. *)
WholeEvent(e) == e

AppOf(e) == e[1]

(* A broadcast arrives.  It is dropped when its data is not JSON, else the *)
(* listener enters UpdateIntegrationsForApp.                               *)
SSEEventListener(t) ==
  /\ Running
  /\ t \in Listeners
  /\ pc[t] = "idle"
  /\ \E e \in broadcast :
       /\ broadcast' = broadcast \ {e}
       /\ \/ UNCHANGED <<pc, appId, inUpdate>>
          \/ /\ pc' = [pc EXCEPT ![t] = "fetch"]
             /\ appId' = [appId EXCEPT ![t] = AppOf(e)]
             /\ inUpdate' = [inUpdate EXCEPT ![t] = TRUE]
  /\ UNCHANGED <<houston, timer, gen, integrationsMap, syncMap, rwmutex,
                 globalLock, ints, m, lock, ret, fault>>

-----------------------------------------------------------------------------
(* Map.Get, in three steps under globalLock.                               *)

(* globalLock.Lock() and the lookup of the app's mutex. *)
GetLock(t) ==
  /\ globalLock = Nil
  /\ globalLock' = t
  /\ Goto(t, "lookup", IF appId[t] \in syncMap THEN "read" ELSE "insert")
  /\ UNCHANGED <<houston, broadcast, timer, gen, integrationsMap, syncMap,
                 rwmutex, locals, fault>>

(* syncMap[key] = lock. *)
GetInsert(t) ==
  /\ Goto(t, "insert", "read")
  /\ syncMap' = syncMap \cup {appId[t]}
  /\ UNCHANGED <<houston, broadcast, timer, gen, integrationsMap, rwmutex,
                 globalLock, locals, fault>>

(* Mutant: a cache hit returns without releasing globalLock. *)
LeaveGetOnMiss(entry) == globalLock' = IF entry = Nil THEN Nil ELSE globalLock

(* The deferred globalLock.Unlock(). *)
LeaveGet(entry) == globalLock' = Nil

(* lock.RLock(), the read of m.integrations, and both unlocks.  For the    *)
(* call at integrations.go:115 the value decides between returning and     *)
(* UpdateIntegrationsForApp; the call at line 143 discards it.             *)
GetRead(t) ==
  LET entry == integrationsMap[m[t]][appId[t]] IN
  /\ rwmutex[gen][appId[t]] = Nil
  /\ LeaveGet(entry)
  /\ \/ /\ inUpdate[t]
        /\ Goto(t, "read", "lock")
        /\ UNCHANGED <<inUpdate, ret>>
     \/ /\ ~inUpdate[t]
        /\ Goto(t, "read", IF entry = Nil THEN "fetch" ELSE "idle")
        /\ inUpdate' = [inUpdate EXCEPT ![t] = (entry = Nil)]
        /\ ret' = IF entry = Nil THEN "nil" ELSE "integrations"
  /\ UNCHANGED <<houston, broadcast, timer, gen, integrationsMap, syncMap,
                 rwmutex, appId, ints, m, lock, fault>>

-----------------------------------------------------------------------------
(* UpdateIntegrationsForApp.                                               *)

(* houstonClient.GetIntegrations: an error ends the call (GetIntegrations  *)
(* passes it on, SSEEventListener ignores it).                             *)
Fetch(t) ==
  /\ \/ /\ Goto(t, "fetch", "fetched")
        /\ ints' = [ints EXCEPT ![t] = houston[appId[t]]]
        /\ UNCHANGED ret
     \/ /\ Goto(t, "fetch", "idle")
        /\ ret' = IF t = Consumer THEN "error" ELSE ret
        /\ UNCHANGED ints
  /\ UNCHANGED <<shared, appId, inUpdate, m, lock, fault>>

(* Mutant: the call of Get is left out. *)
EnsureLockOmitted(t) ==
  /\ Goto(t, "fetched", "lock")
  /\ UNCHANGED <<shared, locals, fault>>

(* integrationsMap.Get(appId), called for its side effect on syncMap. *)
EnsureLock(t) ==
  /\ Goto(t, "fetched", "lookup")
  /\ m' = [m EXCEPT ![t] = gen]
  /\ UNCHANGED <<shared, appId, inUpdate, ints, lock, ret, fault>>

(* syncMap[appId].Lock(): the map is read without globalLock; a missing    *)
(* entry is a nil *RWMutex and the call panics.                            *)
FindLock(t) ==
  /\ \/ /\ appId[t] \in syncMap
        /\ Goto(t, "lock", "locking")
        /\ lock' = [lock EXCEPT ![t] = gen]
        /\ UNCHANGED fault
     \/ /\ appId[t] \notin syncMap
        /\ Running /\ pc[t] = "lock"
        /\ fault' = "nil mutex"
        /\ UNCHANGED <<pc, lock>>
  /\ UNCHANGED <<shared, appId, inUpdate, ints, m, ret>>

(* Mutant: RLock in place of Lock. *)
LockShared(g, a) == TRUE

LockFree(g, a) == rwmutex[g][a] = Nil

LockKey(t) ==
  /\ LockFree(lock[t], appId[t])
  /\ Goto(t, "locking", "put")
  /\ rwmutex' = [rwmutex EXCEPT ![lock[t]][appId[t]] = t]
  /\ UNCHANGED <<houston, broadcast, timer, gen, integrationsMap, syncMap,
                 globalLock, locals, fault>>

(* Mutant: the new integrations are not stored. *)
PutOmitted(t) ==
  /\ Goto(t, "put", "unlock")
  /\ UNCHANGED <<shared, locals, fault>>

(* integrationsMap.Put: load the receiver and begin the map assignment... *)
PutBegin(t) ==
  /\ Goto(t, "put", "write")
  /\ m' = [m EXCEPT ![t] = gen]
  /\ UNCHANGED <<shared, appId, inUpdate, ints, lock, ret, fault>>

(* Mutant: return after Put, without the Unlock. *)
Returns == "idle"

AfterPut == "unlock"

(* ... and finish it. *)
PutEnd(t) ==
  /\ Goto(t, "write", AfterPut)
  /\ integrationsMap' = [integrationsMap EXCEPT ![m[t]][appId[t]] = ints[t]]
  /\ ints' = [ints EXCEPT ![t] = Nil]
  /\ m' = [m EXCEPT ![t] = 0]
  /\ UNCHANGED <<houston, broadcast, timer, gen, syncMap, rwmutex, globalLock,
                 appId, inUpdate, lock, ret, fault>>

(* syncMap[appId].Unlock(): the mutex is looked up again.  It can be gone  *)
(* (nil), or be another mutex than the one locked: free, which is fatal,   *)
(* or held by another goroutine, which then loses it.  GetIntegrations     *)
(* goes on to return the value it read before the update.                  *)
UnlockKey(t) ==
  /\ Running
  /\ pc[t] = "unlock"
  /\ \/ /\ appId[t] \notin syncMap
        /\ fault' = "nil mutex"
        /\ UNCHANGED <<pc, rwmutex, lock>>
     \/ /\ appId[t] \in syncMap
        /\ rwmutex[gen][appId[t]] = Nil
        /\ fault' = "unlock of unlocked mutex"
        /\ UNCHANGED <<pc, rwmutex, lock>>
     \/ /\ appId[t] \in syncMap
        /\ rwmutex[gen][appId[t]] # Nil
        /\ rwmutex' = [rwmutex EXCEPT ![gen][appId[t]] = Nil]
        /\ pc' = [pc EXCEPT ![t] = "idle"]
        /\ lock' = [lock EXCEPT ![t] = 0]
        /\ UNCHANGED fault
  /\ UNCHANGED <<houston, broadcast, timer, gen, integrationsMap, syncMap,
                 globalLock, appId, inUpdate, ints, m, ret>>

-----------------------------------------------------------------------------
(* The timer fires, once: both package variables get fresh maps. *)
resetCache ==
  /\ Running
  /\ timer = "armed"
  /\ globalLock = Nil
  /\ timer' = "fired"
  /\ gen' = 1
  /\ syncMap' = {}
  /\ UNCHANGED <<houston, broadcast, integrationsMap, rwmutex, globalLock, pc,
                 locals, fault>>

(* The runtime notices a second access of a map that is being assigned to: *)
(* Get or Put of the map t works on, a lookup in syncMap while another     *)
(* goroutine adds a mutex, or /integrations encoding the whole map         *)
(* (GetAllIntegrations takes no lock).                                     *)
ConcurrentMapAccess ==
  /\ Running
  /\ \/ \E t \in Threads : pc[t] = "read" /\ WritingMap(m[t])
                             /\ rwmutex[gen][appId[t]] = Nil
     \/ \E t \in Threads : pc[t] = "put" /\ WritingMap(gen)
     \/ \E t \in Threads : pc[t] \in {"lock", "unlock"} /\ WritingSyncMap
     \/ WritingMap(gen)
  /\ fault' = "concurrent map access"
  /\ UNCHANGED <<shared, pc, locals>>

Step(t) ==
  \/ GetLock(t) \/ GetInsert(t) \/ GetRead(t)
  \/ Fetch(t) \/ EnsureLock(t) \/ FindLock(t) \/ LockKey(t)
  \/ PutBegin(t) \/ PutEnd(t) \/ UnlockKey(t)

Next ==
  \/ \E a \in Apps : HoustonChange(a)
  \/ \E t \in Threads, a \in Apps : GetIntegrations(t, a)
  \/ \E t \in Threads : SSEEventListener(t)
  \/ \E t \in Threads : Step(t)
  \/ resetCache
  \/ ConcurrentMapAccess

Spec == Init /\ [][Next]_vars

(* Scheduling: the Go scheduler runs every runnable goroutine, and a       *)
(* sync.Mutex or RWMutex that is released again and again is handed to     *)
(* every waiter (starvation mode): strong fairness of a goroutine's steps. *)
(* That Fetch ends is an assumption on Houston and the network, as the     *)
(* http.Client has no timeout.                                             *)
Fairness == \A t \in Threads : SF_vars(Step(t))

FairSpec == Spec /\ Fairness

-----------------------------------------------------------------------------
(* Properties                                                              *)

InGet(t)    == pc[t] \in {"insert", "read"}
InUpdate(t) == pc[t] \in {"put", "write", "unlock"}

(* globalLock has an owner exactly while that goroutine is inside Map.Get: *)
(* every path out of Get releases it.                                      *)
GlobalLockInGet == \A t \in Threads : globalLock = t <=> InGet(t)

(* Map.Get waits for an app's RWMutex while it holds globalLock, which     *)
(* would stop every other goroutine.  The holder of a mutex of the current *)
(* syncMap is always a goroutine that is past its last lock acquisition    *)
(* for that very app, so the wait is for someone who can finish.           *)
NoOrphanLock ==
  \A a \in Apps : rwmutex[gen][a] # Nil =>
    LET h == rwmutex[gen][a] IN
    InUpdate(h) /\ appId[h] = a /\ lock[h] = gen

(* Until resetCache has run, the per-app mutex does what it is there for:  *)
(* two goroutines never write the entry of one app at the same time.       *)
KeyExclusion ==
  gen = 0 => \A t, u \in Threads :
               t # u /\ InUpdate(t) /\ InUpdate(u) => appId[t] # appId[u]

(* syncMap[appId] is read twice without globalLock.  The lookups panic, or *)
(* unlock a mutex that is not locked, only after resetCache has replaced   *)
(* syncMap: with the TTL disabled no interleaving does.                    *)
LockFaultsNeedReset ==
  fault \in {"nil mutex", "unlock of unlocked mutex"} =>
    gen = 1 /\ ~DisableCacheTTL

(* GetIntegrations returns the variable it read before the update, so a    *)
(* miss is answered with nil and its message is dropped.  But when it is,  *)
(* the entry is in the cache: one message of an app is dropped, not two.   *)
NilMeansFilled ==
  pc[Consumer] = "idle" /\ ret = "nil" /\ gen = 0 =>
    integrationsMap[gen][appId[Consumer]] # Nil

(* The goroutine has Houston's answer and has not finished storing it. *)
HasAnswer(t) ==
  \/ pc[t] \in {"fetched", "lock", "locking", "put", "write"}
  \/ pc[t] \in {"lookup", "insert", "read"} /\ inUpdate[t]

Abstract == INSTANCE AbstractCache WITH
  Goroutines <- Threads,
  CanExpire  <- ~DisableCacheTTL,
  answer     <- [t \in Threads |-> IF HasAnswer(t) THEN <<appId[t], ints[t]>>
                                                   ELSE Nil],
  cache      <- integrationsMap[gen],
  expired    <- gen = 1

(* With its locks, its two generations of maps and receivers loaded early, *)
(* the cache implements the one of AbstractCache: what Map.Get can return  *)
(* changes only when a goroutine stores the answer it fetched, once, or    *)
(* when the TTL expires, once; and before that no answer is lost.          *)
ImplementsAbstractCache == Abstract!Spec

(* The message loop never hangs in the cache: every GetIntegrations        *)
(* returns, or the process has been aborted.                               *)
CallReturns ==
  pc[Consumer] # "idle" ~> (pc[Consumer] = "idle" \/ fault # "none")

-----------------------------------------------------------------------------
(* What the documentation says and the code does not do.                   *)

(* README.md:5, "When an event is received by Event Router, it will update *)
(* the app IDs integrations with the latest from Houston": what the cache  *)
(* holds for an app is never replaced by something older.                  *)
CacheNeverRegresses ==
  [][\A a \in Apps :
       LET old == integrationsMap[gen][a]
           new == integrationsMap'[gen'][a]
       IN  old # Nil /\ new # Nil => new >= old]_vars
=============================================================================
