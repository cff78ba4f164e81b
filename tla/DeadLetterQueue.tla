--------------------------- MODULE DeadLetterQueue ---------------------------
(***************************************************************************)
(* The dead letter queue (deadletterqueue/client.go): messages that could  *)
(* not be produced are kept per key and uploaded to S3 when a key has      *)
(* QueueSize of them, when the flush timer fires, and at shutdown.         *)
(*                                                                         *)
(* Goroutines: the callers of AddToQueue (the producer's handleEvents) and *)
(* start(), which waits for the timer and for the shutdown channel.  The   *)
(* queue is guarded by globalLock; an upload happens with the lock held.   *)
(*                                                                         *)
(* A key is a sequence: <<k>> for the key "k" a caller gave, and           *)
(* Append(key, now) for key + "/" + now.  Data are numbered in the order   *)
(* of the AddToQueue calls, so that every datum can be told apart.         *)
(***************************************************************************)
EXTENDS Naturals, Sequences, FiniteSets

CONSTANTS
  Adders,     \* goroutines that call AddToQueue
  Keys,       \* keys in the format "appID/Integration"
  QueueSize,  \* ClientConfig.QueueSize; 0 if the setting is not a number
  MaxCalls,   \* bound: AddToQueue calls
  MaxClock,   \* bound: seconds on the clock
  MaxDepth,   \* bound: length of keys that a range visits after adding them
  Nobody      \* globalLock is free

ASSUME QueueAssumption ==
  /\ IsFiniteSet(Adders)
  /\ Nobody \notin Adders \cup {"start"}
  /\ "start" \notin Adders
  /\ QueueSize \in Nat
  /\ MaxCalls \in Nat /\ MaxClock \in Nat /\ MaxDepth \in Nat \ {0}

VARIABLES
  queue,       \* [some keys -> sequence of data]
  globalLock,
  adding,      \* addingWaitGroup's counter
  timer,       \* "armed" or "fired"
  shutdown,    \* the shutdown channel is closed
  clock,       \* time.Now().Unix()
  s3,          \* the bucket: [some objects -> [body, buffer]], where buffer is
               \* what the bytes.Buffer held when the body was uploaded
  calls,       \* number of AddToQueue calls so far
  apc, key, datum, \* per adder: control point, qo.Key, qo.Data
  spc,         \* control point of start()
  present,     \* keys in the map when the running Flush began its range
  seen,        \* keys its range has visited
  accepted,    \* history: data appended to the queue, as <<key, datum>>
  owed         \* history: data accepted before Close was called

adder   == <<calls, apc, key, datum>>
ranging == <<present, seen>>
history == <<accepted, owed>>
vars    == <<queue, globalLock, adding, timer, shutdown, clock, s3, adder,
             spc, ranging, history>>

Data    == 1..MaxCalls
Seconds == 0..MaxClock

TypeOK ==
  /\ \A k \in DOMAIN queue : /\ Head(k) \in Keys
                             /\ Tail(k) \in Seq(Seconds)
                             /\ queue[k] \in Seq(Data)
  /\ globalLock \in Adders \cup {"start", Nobody}
  /\ adding \in 0..Cardinality(Adders)
  /\ timer \in {"armed", "fired"}
  /\ shutdown \in BOOLEAN
  /\ clock \in Seconds
  /\ \A o \in DOMAIN s3 : /\ Head(o) \in Keys
                          /\ Tail(o) \in Seq(Seconds)
                          /\ s3[o].body \in Seq(Data)
                          /\ s3[o].buffer \in Seq(Data)
  /\ calls \in 0..MaxCalls
  /\ apc \in [Adders -> {"idle", "lock", "flush", "unlock", "done"}]
  /\ key \in [Adders -> Keys]
  /\ datum \in [Adders -> 0..MaxCalls]
  /\ spc \in {"select", "lock", "range", "wait", "closing lock",
              "closing range", "closed"}
  /\ present \subseteq DOMAIN queue
  /\ seen \subseteq DOMAIN queue
  /\ accepted \subseteq Keys \X Data
  /\ owed \subseteq accepted

Init ==
  /\ queue = [k \in {} |-> <<>>]
  /\ globalLock = Nobody
  /\ adding = 0
  /\ timer = "armed"
  /\ shutdown = FALSE
  /\ clock = 0
  /\ s3 = [o \in {} |-> <<>>]
  /\ calls = 0
  /\ apc = [a \in Adders |-> "idle"]
  /\ key \in [Adders -> Keys]
  /\ datum = [a \in Adders |-> 0]
  /\ spc = "select"
  /\ present = {}
  /\ seen = {}
  /\ accepted = {}
  /\ owed = {}

(* SendToS3: the upload succeeds or returns an error, and the object is    *)
(* there or it is not.                                                     *)
SendToS3 == BOOLEAN

-----------------------------------------------------------------------------
(* Mutant: the entry is cleared whether the upload succeeds or not. *)
ClearAlways(k, to, ok) == [queue EXCEPT ![k] = <<>>]

(* Mutant: the entry of the uploaded key is cleared, although the object's *)
(* name is the same for a second upload within the second.                 *)
ClearUploaded(k, to, ok) == IF ok THEN [queue EXCEPT ![k] = <<>>] ELSE queue

(* key is reassigned before the upload, so the entry that is cleared at    *)
(* the end is that of the longer key.                                      *)
Cleared(k, to, ok) ==
  IF ok THEN [x \in DOMAIN queue \cup {to} |->
                IF x = to THEN <<>> ELSE queue[x]]
        ELSE queue

(* flush(key): the values are written to a bytes.Buffer, which grows an    *)
(* array of its own; the slice `data' that is uploaded stays empty.        *)
flush(k, ok) ==
  LET data == <<>>
      to   == Append(k, clock)
  IN  /\ s3' = IF ok THEN [o \in DOMAIN s3 \cup {to} |->
                             IF o = to THEN [body |-> data, buffer |-> queue[k]]
                                       ELSE s3[o]]
                     ELSE s3
      /\ queue' = Cleared(k, to, ok)

(* AddToQueue: an empty or ill-formed key and empty data end the call at   *)
(* once; otherwise the caller waits for globalLock.                        *)
AddToQueue(a, k) ==
  /\ apc[a] = "idle"
  /\ calls < MaxCalls
  /\ calls' = calls + 1
  /\ \/ UNCHANGED <<apc, key, datum>>
     \/ /\ apc' = [apc EXCEPT ![a] = "lock"]
        /\ key' = [key EXCEPT ![a] = k]
        /\ datum' = [datum EXCEPT ![a] = calls + 1]
  /\ UNCHANGED <<queue, globalLock, adding, timer, shutdown, clock, s3,
                 spc, ranging, history>>

Contents(k) == IF k \in DOMAIN queue THEN queue[k] ELSE <<>>

(* The lock, addingWaitGroup.Add(1), the append and the size test. *)
AddLocked(a) ==
  LET k   == <<key[a]>>
      new == Append(Contents(k), datum[a])
  IN
  /\ apc[a] = "lock"
  /\ globalLock = Nobody
  /\ globalLock' = a
  /\ adding' = adding + 1
  /\ queue' = [x \in DOMAIN queue \cup {k} |-> IF x = k THEN new ELSE queue[x]]
  /\ accepted' = accepted \cup {<<key[a], datum[a]>>}
  /\ apc' = [apc EXCEPT ![a] =
               IF Len(new) >= QueueSize THEN "flush" ELSE "unlock"]
  /\ UNCHANGED <<timer, shutdown, clock, s3, calls, key, datum, spc,
                 ranging, owed>>

AddFlush(a) ==
  /\ apc[a] = "flush"
  /\ \E ok \in SendToS3 : flush(<<key[a]>>, ok)
  /\ apc' = [apc EXCEPT ![a] = "unlock"]
  /\ UNCHANGED <<globalLock, adding, timer, shutdown, clock, calls, key, datum,
                 spc, ranging, history>>

(* Mutant: addingWaitGroup.Done() is called here as well. *)
UnlockAndDone == globalLock' = Nobody /\ adding' = adding - 1

Unlock == globalLock' = Nobody /\ UNCHANGED adding

(* Deferred calls run last in, first out: Unlock, then Done. *)
AddUnlock(a) ==
  /\ apc[a] = "unlock"
  /\ Unlock
  /\ apc' = [apc EXCEPT ![a] = "done"]
  /\ UNCHANGED <<queue, timer, shutdown, clock, s3, calls, key, datum, spc,
                 ranging, history>>

(* Mutant: addingWaitGroup.Done() is missing. *)
DoneMissing == UNCHANGED adding

Done == adding' = adding - 1

AddDone(a) ==
  /\ apc[a] = "done"
  /\ Done
  /\ apc' = [apc EXCEPT ![a] = "idle"]
  /\ UNCHANGED <<queue, globalLock, timer, shutdown, clock, s3, calls, key,
                 datum, spc, ranging, history>>

-----------------------------------------------------------------------------
(* start(): the timer is never reset, so its branch is taken once. *)
TimerFires ==
  /\ spc = "select"
  /\ timer = "armed"
  /\ timer' = "fired"
  /\ spc' = "lock"
  /\ UNCHANGED <<queue, globalLock, adding, shutdown, clock, s3, adder,
                 ranging, history>>

(* Flush takes the lock and begins `for key := range c.queue'. *)
FlushLocked ==
  /\ globalLock = Nobody
  /\ globalLock' = "start"
  /\ \/ spc = "lock" /\ spc' = "range"
     \/ spc = "closing lock" /\ spc' = "closing range"
  /\ present' = DOMAIN queue
  /\ seen' = {}
  /\ UNCHANGED <<queue, adding, timer, shutdown, clock, s3, adder, history>>

(* One round of the range.  It visits every key that was present; a key    *)
(* that flush itself adds may be visited too.  An error is collected and   *)
(* the range goes on.                                                      *)
FlushKey(k, ok) ==
  /\ spc \in {"range", "closing range"}
  /\ k \notin seen
  /\ k \in present \/ Len(k) <= MaxDepth
  /\ flush(k, ok)
  /\ seen' = seen \cup {k}
  /\ UNCHANGED <<globalLock, adding, timer, shutdown, clock, adder, spc,
                 present, history>>

(* Mutant: Flush may return early, as it would on the first error. *)
MayReturn == TRUE

RangeEnds == present \subseteq seen

FlushUnlock ==
  /\ spc \in {"range", "closing range"}
  /\ RangeEnds
  /\ globalLock' = Nobody
  /\ spc' = IF spc = "range" THEN "select" ELSE "closed"
  /\ UNCHANGED <<queue, adding, timer, shutdown, clock, s3, adder, ranging,
                 history>>

(* The shutdown branch calls Close... *)
CloseBegin ==
  /\ spc = "select"
  /\ shutdown
  /\ spc' = "wait"
  /\ owed' = accepted
  /\ UNCHANGED <<queue, globalLock, adding, timer, shutdown, clock, s3,
                 adder, ranging, accepted>>

(* ... which waits for the WaitGroup and then calls Flush. *)
CloseWait ==
  /\ spc = "wait"
  /\ adding = 0
  /\ spc' = "closing lock"
  /\ UNCHANGED <<queue, globalLock, adding, timer, shutdown, clock, s3,
                 adder, ranging, history>>

-----------------------------------------------------------------------------
Shutdown ==
  /\ ~shutdown
  /\ shutdown' = TRUE
  /\ UNCHANGED <<queue, globalLock, adding, timer, clock, s3, adder, spc,
                 ranging, history>>

(* Time passes. *)
Tick ==
  /\ clock < MaxClock
  /\ clock' = clock + 1
  /\ UNCHANGED <<queue, globalLock, adding, timer, shutdown, s3, adder,
                 spc, ranging, history>>

AdderStep(a) == AddLocked(a) \/ AddFlush(a) \/ AddUnlock(a) \/ AddDone(a)

StartStep ==
  \/ FlushLocked
  \/ \E k \in DOMAIN queue, ok \in SendToS3 : FlushKey(k, ok)
  \/ FlushUnlock
  \/ CloseWait

Next ==
  \/ \E a \in Adders, k \in Keys : AddToQueue(a, k)
  \/ \E a \in Adders : AdderStep(a)
  \/ TimerFires \/ StartStep \/ CloseBegin
  \/ Shutdown \/ Tick

Spec == Init /\ [][Next]_vars

-----------------------------------------------------------------------------
(* Properties                                                              *)

Elements(seq) == {seq[i] : i \in DOMAIN seq}

Critical(a) == apc[a] \in {"flush", "unlock"}
Ranging     == spc \in {"range", "closing range"}

(* The queue is only worked on by one goroutine at a time: every caller    *)
(* and start() release globalLock on every path, S3 errors included.       *)
QueueExclusion ==
  /\ globalLock = "start" <=> Ranging
  /\ \A a \in Adders : globalLock = a <=> Critical(a)

(* A datum that AddToQueue took is never dropped by a failed upload, by an *)
(* upload that replaces an object of the same second, or at shutdown: it   *)
(* is still queued under its key, or it is in the body of some object.     *)
NothingDropped ==
  \A p \in accepted :
    \/ p[2] \in Elements(Contents(<<p[1]>>))
    \/ \E o \in DOMAIN s3 : p[2] \in Elements(s3[o].body)

(* The entries flush adds to the map for its longer keys stay empty: no    *)
(* datum moves to a key that no caller knows.                              *)
DerivedKeysEmpty == \A k \in DOMAIN queue : Len(k) > 1 => queue[k] = <<>>

(* Objects are named by the second, so an upload may replace an earlier    *)
(* one.  What the new one was made from starts with all the old one was    *)
(* made from.                                                              *)
OverwriteKeepsData ==
  [][\A o \in DOMAIN s3 :
       LET old == s3[o].buffer
           new == s3'[o].buffer
       IN  Len(old) <= Len(new) /\ SubSeq(new, 1, Len(old)) = old]_vars

(* When Close is over, its Flush has tried the key of every datum that was *)
(* accepted before Close was called, also if uploads of other keys failed. *)
CloseTriesAll == spc = "closed" => \A p \in owed : <<p[1]>> \in seen

-----------------------------------------------------------------------------
(* What a comment and the tests say and the code does not do.              *)

(* client.go:127, "Flush will flush the content of the queue to S3", and   *)
(* client_test.go:72, `deadletterClient.Length(qo.Key) != 0' after it is   *)
(* an error: a successful upload leaves the data in the object and not in  *)
(* the queue.                                                              *)
FlushMovesToS3 ==
  [][\A o \in DOMAIN s3' \ DOMAIN s3 :
       LET k == SubSeq(o, 1, Len(o) - 1)
       IN  s3'[o].body = queue[k] /\ queue'[k] = <<>>]_vars
=============================================================================
