------------------------------- MODULE Router -------------------------------
(***************************************************************************)
(* The producer and the dead letter queue together, as `start' wires them  *)
(* (cmd/start.go): handleEvents calls AddToQueue for a copy that failed    *)
(* and reads no delivery report until the call returns, both wait for the  *)
(* same shutdown channel, and the end of the process stops both.           *)
(*                                                                         *)
(* The key of a queue object is the app's id, "/", and the topic printed   *)
(* with %s.  The topic is a POINTER, so its address is printed: two copies *)
(* of one app and integration may be given different keys, and two of      *)
(* different integrations the same one.  A key here is any of Keys.        *)
(***************************************************************************)
EXTENDS ClickstreamProducer

CONSTANTS
  Keys,       \* keys in the format "appID/address"
  QueueSize,  \* ClientConfig.QueueSize
  MaxDepth,   \* bound: length of keys that a range visits after adding them
  Nobody      \* globalLock is free

ASSUME RouterAssumption ==
  /\ IsFiniteSet(Copies)
  /\ Nobody \notin {"handleEvents", "start"}
  /\ QueueSize \in Nat /\ MaxDepth \in Nat \ {0}

VARIABLES
  queue, globalLock, adding, timer, clock, s3, calls, apc, key, datum, spc,
  present, seen, accepted, owed,
  given         \* given[d] is the copy whose value is datum d of the queue

(* handleEvents is the only caller, and a copy has one delivery report.    *)
(* All happens within one second, so that object names collide most.       *)
D == INSTANCE DeadLetterQueue WITH
       Adders <- {"handleEvents"}, MaxCalls <- Cardinality(Copies),
       MaxClock <- 0

dlq    == <<queue, globalLock, adding, timer, clock, s3, calls, apc, key,
            datum, spc, present, seen, accepted, owed>>
rest   == <<consumer, library, events, handler, shouldShutdown, destroyed,
            proc, sent>>
system == <<vars, dlq, given>>

RouterInit == Init /\ D!Init /\ given = <<>>

(* handleEvents is not inside AddToQueue. *)
Idle == apc["handleEvents"] = "idle"

(* A delivery report.  The key holds a "/" and the value is that of a      *)
(* message HandleMessage could parse, so AddToQueue does not refuse it.    *)
HandleReport(e) ==
  /\ Idle
  /\ handleEvents(e)
  /\ IF deadletter' # deadletter
     THEN /\ \E k \in Keys : D!AddToQueue("handleEvents", k)
          /\ apc'["handleEvents"] = "lock"
          /\ given' = Append(given, e[1])
     ELSE UNCHANGED <<dlq, given>>

(* The steps of one part alone. *)
ProducerOnly(A) == A /\ UNCHANGED <<dlq, given>>
QueueOnly(A)    == Running /\ EnableRetry /\ A /\ UNCHANGED <<rest, given>>

(* The goroutines: `start''s loop, channelProducer, librdkafka's own,      *)
(* poller, handleEvents, start() of the queue.                             *)
ConsumerLoop    == ProducerOnly(ConsumerStep \/ CloseConsumer)
ChannelProducer == ProducerOnly(ReceiveCopy \/ Produce)
Librdkafka      == ProducerOnly(\E q \in outq : Deliver(q))
Poller          == ProducerOnly((\E r \in reports : Poll(r)) \/ PollerEnds)

EventHandler ==
  \/ \E e \in events : HandleReport(e)
  \/ QueueOnly(D!AdderStep("handleEvents"))
  \/ ProducerOnly(Idle /\ FlushBegin)
  \/ ProducerOnly(CloseTermChan \/ CloseProduceChannel \/ Close)

QueueLoop == QueueOnly(D!StartStep \/ D!CloseBegin)

RouterNext ==
  \/ ConsumerLoop \/ ChannelProducer \/ Librdkafka \/ Poller
  \/ EventHandler \/ QueueLoop
  \/ QueueOnly(D!TimerFires)
  \/ ProducerOnly(Signal \/ SetShouldShutdown \/ MainReturns)

RouterSpec == RouterInit /\ [][RouterNext]_system

(* The goroutines that only move on what is there: of their steps there    *)
(* are finitely many, since a copy passes each owner once and the queue is *)
(* flushed by its size, by its timer and by Close.                         *)
Movers ==
  \/ ChannelProducer \/ Librdkafka \/ Poller \/ EventHandler \/ QueueLoop
  \/ ProducerOnly(SetShouldShutdown)

(* Every goroutine is scheduled; librdkafka settles each copy within       *)
(* message.timeout.ms, and an S3 call ends.  One condition for all Movers  *)
(* says as much as one each, as none of them can go on for ever while      *)
(* another waits.  Weak fairness is enough: a goroutine that waits for     *)
(* globalLock, or whose select has a second branch ready, is passed over   *)
(* only as often as there are messages and flushes.                        *)
RouterFairness == WF_system(ConsumerLoop) /\ WF_system(Movers)

RouterFairSpec == RouterSpec /\ RouterFairness

-----------------------------------------------------------------------------
(* Properties                                                              *)

(* The data the queue has: in the hands of an AddToQueue that waits for    *)
(* the lock, in an entry, or in the body of an uploaded object.            *)
Holds(d) ==
  \/ apc["handleEvents"] = "lock" /\ datum["handleEvents"] = d
  \/ \E k \in DOMAIN queue : d \in D!Elements(queue[k])
  \/ \E o \in DOMAIN s3 : d \in D!Elements(s3[o].body)

Queued == {given[d] : d \in {x \in DOMAIN given : Holds(x)}}

(* Between HandleMessage and the bucket nothing is lost on the way: until  *)
(* the poller has been told to end and ended, and with --retry, each copy  *)
(* sent is in the producer's hands, in its topic, or kept by the dead      *)
(* letter queue, whatever fails and wherever the two goroutines stand; and *)
(* a copy the queue was once given is kept to the end.                     *)
NothingLostOnTheWay ==
  EnableRetry =>
    /\ deadletter \subseteq Queued
    /\ polling \/ ~terminating =>
         sent \subseteq InChannel \cup InHand \cup InOutq \cup InReports
                          \cup InEvents \cup Logged \cup Queued

(* As long as nobody asks for a shutdown, every message read is handled to *)
(* the end, never blocked for good on the bounded channel, and every copy  *)
(* comes to its topic or is accepted by the dead letter queue: neither     *)
(* channelProducer nor handleEvents hangs, also while start() holds the    *)
(* queue's lock for a flush.                                               *)
EveryMessageLands ==
  <>[](\/ /\ pc \notin {"range", "assign", "send", "retry"}
          /\ sent \subseteq Logged \cup {given[p[2]] : p \in accepted}
       \/ shutdown)

(* After a signal the loop of `start', the producer and the dead letter    *)
(* queue all stop for good, although the loop may find its flag not set    *)
(* yet, handleEvents may be inside AddToQueue, and Close of the queue      *)
(* waits for the calls that are under way; or the process is gone first.   *)
AllGoroutinesStop ==
  <>[](shutdown => \/ ~Running
                   \/ /\ pc = "ended" /\ hpc = "closed" /\ ~polling
                      /\ EnableRetry => spc = "closed")
=============================================================================
