----------------------------- MODULE RouterProofs -----------------------------
(***************************************************************************)
(* Safety of the producer and the dead letter queue as `start' wires them, *)
(* for any messages, integrations, keys and sizes.                         *)
(*                                                                         *)
(* In the composition each part takes the steps of its own specification   *)
(* and no others, so all that is proved of the parts alone holds here.     *)
(* What remains is what lies between them: handleEvents gives a copy to    *)
(* AddToQueue in the step that takes its report, and what AddToQueue has   *)
(* taken is in its hands until it is in the queue.                         *)
(***************************************************************************)
EXTENDS Router, ClickstreamProducerProofs

(* The queue of the composition again, with what is proved of it. *)
Q == INSTANCE DeadLetterQueueProofs WITH
       Adders <- {"handleEvents"}, MaxCalls <- Cardinality(Copies),
       MaxClock <- 0

LEMMA QueueConstants == Q!QueueAssumption
<1>1. IsFiniteSet({"handleEvents"})
  BY FS_Singleton
<1>2. Cardinality(Copies) \in Nat
  BY FS_CardinalityType, RouterAssumption
<1>3. Q!IsFiniteSet({"handleEvents"})
  BY <1>1 DEF IsFiniteSet, Q!IsFiniteSet
<1> QED
  BY <1>2, <1>3, RouterAssumption DEF Q!QueueAssumption

(* The queue's steps in the composition. *)
QueueStep ==
  \/ D!AdderStep("handleEvents") \/ D!StartStep \/ D!CloseBegin \/ D!TimerFires

LEMMA QueueStepIsOne == QueueStep => Q!Next /\ UNCHANGED shutdown
<1> USE DEF D!adder, D!ranging, D!history, Q!adder, Q!ranging, Q!history
<1>1. D!AddLocked("handleEvents")
        => Q!AddLocked("handleEvents") /\ UNCHANGED shutdown
  BY DEF D!AddLocked, D!Contents, Q!AddLocked, Q!Contents
<1>2. D!AddFlush("handleEvents")
        => Q!AddFlush("handleEvents") /\ UNCHANGED shutdown
  BY DEF D!AddFlush, D!flush, D!Cleared, D!SendToS3,
         Q!AddFlush, Q!flush, Q!Cleared, Q!SendToS3
<1>3. D!AddUnlock("handleEvents")
        => Q!AddUnlock("handleEvents") /\ UNCHANGED shutdown
  BY DEF D!AddUnlock, D!Unlock, Q!AddUnlock, Q!Unlock
<1>4. D!AddDone("handleEvents")
        => Q!AddDone("handleEvents") /\ UNCHANGED shutdown
  BY DEF D!AddDone, D!Done, Q!AddDone, Q!Done
<1>5. D!FlushLocked => Q!FlushLocked /\ UNCHANGED shutdown
  BY DEF D!FlushLocked, Q!FlushLocked
<1>6. ASSUME NEW k, NEW ok
      PROVE  D!FlushKey(k, ok) => Q!FlushKey(k, ok) /\ UNCHANGED shutdown
  BY DEF D!FlushKey, D!flush, D!Cleared, Q!FlushKey, Q!flush, Q!Cleared
<1>7. D!FlushUnlock => Q!FlushUnlock /\ UNCHANGED shutdown
  BY DEF D!FlushUnlock, D!RangeEnds, Q!FlushUnlock, Q!RangeEnds
<1>8. D!CloseWait => Q!CloseWait /\ UNCHANGED shutdown
  BY DEF D!CloseWait, Q!CloseWait
<1>9. D!CloseBegin => Q!CloseBegin /\ UNCHANGED shutdown
  BY DEF D!CloseBegin, Q!CloseBegin
<1>10. D!TimerFires => Q!TimerFires /\ UNCHANGED shutdown
  BY DEF D!TimerFires, Q!TimerFires
<1>11. D!AdderStep("handleEvents")
         => Q!AdderStep("handleEvents") /\ UNCHANGED shutdown
  BY <1>1, <1>2, <1>3, <1>4 DEF D!AdderStep, Q!AdderStep
<1>12. D!StartStep => Q!StartStep /\ UNCHANGED shutdown
  BY <1>5, <1>6, <1>7, <1>8
     DEF D!StartStep, Q!StartStep, D!SendToS3, Q!SendToS3
<1> QED
  BY <1>9, <1>10, <1>11, <1>12 DEF QueueStep, Q!Next

(* The producer's steps without handleEvents: the dead letters stay, and   *)
(* the shutdown channel is closed by the signal only.                      *)
ProducerStep ==
  \/ ConsumerStep \/ CloseConsumer
  \/ ReceiveCopy \/ Produce
  \/ \E q \in outq : Deliver(q)
  \/ \E r \in reports : Poll(r)
  \/ PollerEnds
  \/ FlushBegin \/ CloseTermChan \/ CloseProduceChannel \/ Close
  \/ Signal \/ SetShouldShutdown \/ MainReturns

LEMMA ProducerStepIsOne ==
  ProducerStep => /\ Next /\ UNCHANGED deadletter
                  /\ \/ UNCHANGED shutdown
                     \/ ~shutdown /\ shutdown' = TRUE
<1> USE DEF handler, stop, consumer, library, kafka
<1>1. ConsumerStep => UNCHANGED <<deadletter, shutdown>>
  BY DEF ConsumerStep, CheckShutdown, RunConsumer, ReceiveMessage,
     NextIntegration, AssignIntegration, SendToIntegration, SendToRetry,
     SendCopy, SendOnClosed, HandleMessageReturns
<1>2. CloseConsumer \/ ReceiveCopy \/ Produce \/ (\E q \in outq : Deliver(q))
        => UNCHANGED <<deadletter, shutdown>>
  BY DEF CloseConsumer, ReceiveCopy, Produce, Deliver
<1>6. (\E r \in reports : Poll(r)) \/ PollerEnds
        => UNCHANGED <<deadletter, shutdown>>
  BY DEF Poll, PollerEnds
<1>3. FlushBegin \/ CloseTermChan \/ CloseProduceChannel \/ Close
        => UNCHANGED <<deadletter, shutdown>>
  BY DEF FlushBegin, CloseTermChan, CloseProduceChannel, Close
<1>7. SetShouldShutdown \/ MainReturns => UNCHANGED <<deadletter, shutdown>>
  BY DEF SetShouldShutdown, MainReturns
<1>4. Signal => UNCHANGED deadletter /\ ~shutdown /\ shutdown' = TRUE
  BY DEF Signal
<1>5. ProducerStep => Next
  BY DEF ProducerStep, Next
<1> QED
  BY <1>1, <1>2, <1>3, <1>4, <1>5, <1>6, <1>7 DEF ProducerStep

(* A step of the composition is one of the producer alone, of the queue    *)
(* alone, or a delivery report.                                            *)
LEMMA WhoseStep ==
  ASSUME [RouterNext]_system
  PROVE  \/ UNCHANGED system
         \/ ProducerStep /\ UNCHANGED <<dlq, given>>
         \/ QueueStep /\ UNCHANGED <<rest, given>>
         \/ \E e \in events : HandleReport(e)
<1>1. ConsumerLoop \/ ChannelProducer \/ Librdkafka \/ Poller
        => ProducerStep /\ UNCHANGED <<dlq, given>>
  BY DEF ConsumerLoop, ChannelProducer, Librdkafka, Poller, ProducerOnly,
     ProducerStep
<1>2. EventHandler => \/ ProducerStep /\ UNCHANGED <<dlq, given>>
                      \/ QueueStep /\ UNCHANGED <<rest, given>>
                      \/ \E e \in events : HandleReport(e)
  BY DEF EventHandler, ProducerOnly, QueueOnly, ProducerStep, QueueStep
<1>3. QueueLoop \/ QueueOnly(D!TimerFires)
        => QueueStep /\ UNCHANGED <<rest, given>>
  BY DEF QueueLoop, QueueOnly, QueueStep
<1>4. ProducerOnly(Signal \/ SetShouldShutdown \/ MainReturns)
        => ProducerStep /\ UNCHANGED <<dlq, given>>
  BY DEF ProducerOnly, ProducerStep
<1> QED
  BY <1>1, <1>2, <1>3, <1>4 DEF RouterNext

-----------------------------------------------------------------------------
(* In the composition the producer is what module ClickstreamProducer says *)
(* it is: the queue's steps change nothing of it, and handleEvents waits   *)
(* for AddToQueue between two of its own.                                  *)
THEOREM ProducerInRouter == RouterSpec => Spec
<1>1. RouterInit => Init
  BY DEF RouterInit
<1>2. ASSUME [RouterNext]_system PROVE [Next]_vars
  <2>1. CASE UNCHANGED system
    BY <2>1 DEF system
  <2>2. CASE ProducerStep
    BY <2>2, ProducerStepIsOne
  <2>3. CASE QueueStep /\ UNCHANGED <<rest, given>>
    BY <2>3, QueueStepIsOne DEF rest, vars, stop
  <2>4. CASE \E e \in events : HandleReport(e)
    BY <2>4 DEF HandleReport, Next
  <2> QED
    BY <1>2, <2>1, <2>2, <2>3, <2>4, WhoseStep
<1> QED
  BY <1>1, <1>2, PTL DEF RouterSpec, Spec

(* And the queue is what module DeadLetterQueue says it is, although its   *)
(* caller is not free to call and the shutdown channel is not its own.     *)
LEMMA QueueKept == RouterSpec => Q!Spec
<1> USE DEF D!adder, D!ranging, D!history, Q!adder, Q!ranging, Q!history
<1>1. RouterInit => Q!Init
  BY DEF RouterInit, D!Init, Q!Init, Init
<1>2. ASSUME [RouterNext]_system PROVE [Q!Next]_(Q!vars)
  <2>1. CASE UNCHANGED system
    BY <2>1 DEF system, vars, stop, dlq, Q!vars
  <2>2. CASE ProducerStep /\ UNCHANGED <<dlq, given>>
    <3>1. CASE UNCHANGED shutdown
      BY <2>2, <3>1 DEF dlq, Q!vars
    <3>2. CASE ~shutdown /\ shutdown' = TRUE
      <4>1. Q!Shutdown
        BY <2>2, <3>2 DEF dlq, Q!Shutdown
      <4> QED
        BY <4>1 DEF Q!Next
    <3> QED
      BY <2>2, <3>1, <3>2, ProducerStepIsOne
  <2>3. CASE QueueStep
    BY <2>3, QueueStepIsOne
  <2>4. ASSUME NEW e \in events, HandleReport(e) PROVE [Q!Next]_(Q!vars)
    <3>1. CASE deadletter' # deadletter
      <4>1. PICK k \in Keys : D!AddToQueue("handleEvents", k)
        BY <2>4, <3>1 DEF HandleReport
      <4>2. Q!AddToQueue("handleEvents", k)
        BY <4>1 DEF D!AddToQueue, Q!AddToQueue
      <4> QED
        BY <4>2 DEF Q!Next
    <3>2. CASE deadletter' = deadletter
      BY <2>4, <3>2 DEF HandleReport, handleEvents, stop, dlq, Q!vars
    <3> QED
      BY <3>1, <3>2
  <2> QED
    BY <1>2, <2>1, <2>2, <2>3, <2>4, WhoseStep
<1> QED
  BY <1>1, <1>2, PTL DEF RouterSpec, Q!Spec

THEOREM QueueInRouter == RouterSpec => D!Spec
<1> USE DEF D!adder, D!ranging, D!history
<1>1. RouterInit => D!Init
  BY DEF RouterInit
<1>2. ASSUME [RouterNext]_system PROVE [D!Next]_(D!vars)
  <2>1. CASE UNCHANGED system
    BY <2>1 DEF system, vars, stop, dlq, D!vars
  <2>2. CASE ProducerStep /\ UNCHANGED <<dlq, given>>
    <3>1. CASE UNCHANGED shutdown
      BY <2>2, <3>1 DEF dlq, D!vars
    <3>2. CASE ~shutdown /\ shutdown' = TRUE
      <4>1. D!Shutdown
        BY <2>2, <3>2 DEF dlq, D!Shutdown
      <4> QED
        BY <4>1 DEF D!Next
    <3> QED
      BY <2>2, <3>1, <3>2, ProducerStepIsOne
  <2>3. CASE QueueStep
    BY <2>3 DEF QueueStep, D!Next
  <2>4. ASSUME NEW e \in events, HandleReport(e) PROVE [D!Next]_(D!vars)
    <3>1. CASE deadletter' # deadletter
      BY <2>4, <3>1 DEF HandleReport, D!Next
    <3>2. CASE deadletter' = deadletter
      BY <2>4, <3>2 DEF HandleReport, handleEvents, stop, dlq, D!vars
    <3> QED
      BY <3>1, <3>2
  <2> QED
    BY <1>2, <2>1, <2>2, <2>3, <2>4, WhoseStep
<1> QED
  BY <1>1, <1>2, PTL DEF RouterSpec, D!Spec

-----------------------------------------------------------------------------
(* A datum that AddToQueue has in its hands, waiting for the lock. *)
Waiting(d) == apc["handleEvents"] = "lock" /\ datum["handleEvents"] = d

(* Every dead letter was given to the queue, and what was given is waiting *)
(* or has been accepted.                                                   *)
Kept ==
  /\ given \in Seq(Copies) /\ calls = Len(given)
  /\ \A d \in DOMAIN given :
       Waiting(d) \/ \E k \in Keys : <<k, d>> \in accepted
  /\ \A c \in deadletter : \E d \in DOMAIN given : given[d] = c

LEMMA KeptInit == RouterInit => Kept
BY DEF RouterInit, Init, D!Init, Kept

(* Of the queue's steps only AddLocked ends the wait, and it accepts. *)
LEMMA QueueStepKeeps ==
  ASSUME QueueStep, Q!Control, NEW d
  PROVE  /\ UNCHANGED calls /\ accepted \subseteq accepted'
         /\ Waiting(d) => Waiting(d)' \/ \E k \in Keys : <<k, d>> \in accepted'
<1> USE DEF D!adder, D!ranging, D!history
<1>1. CASE D!AddLocked("handleEvents")
  <2>1. /\ UNCHANGED calls /\ key["handleEvents"] \in Keys
        /\ accepted' = accepted \cup
             {<<key["handleEvents"], datum["handleEvents"]>>}
    BY <1>1 DEF D!AddLocked, Q!Control
  <2> QED
    BY <2>1 DEF Waiting
<1>2. CASE \/ D!AddFlush("handleEvents") \/ D!AddUnlock("handleEvents")
           \/ D!AddDone("handleEvents")
  <2>1. UNCHANGED <<calls, accepted>> /\ apc["handleEvents"] # "lock"
    BY <1>2 DEF D!AddFlush, D!AddUnlock, D!AddDone
  <2> QED
    BY <2>1 DEF Waiting
<1>3. CASE D!StartStep \/ D!CloseBegin \/ D!TimerFires
  <2>1. UNCHANGED <<calls, accepted, apc, datum>>
    BY <1>3 DEF D!StartStep, D!FlushLocked, D!FlushKey, D!FlushUnlock,
       D!CloseWait, D!CloseBegin, D!TimerFires
  <2> QED
    BY <2>1 DEF Waiting
<1> QED
  BY <1>1, <1>2, <1>3 DEF QueueStep, D!AdderStep

(* The step that takes a report of a failure gives the copy to the queue.  *)
LEMMA HandleReportKeeps ==
  ASSUME TypeOK, Q!Control, Kept, NEW e \in events, HandleReport(e),
         deadletter' # deadletter
  PROVE  Kept'
<1>1. e[1] \in Copies
  BY DEF TypeOK
<1>2. deadletter' = deadletter \cup {e[1]}
  BY DEF HandleReport, handleEvents
<1>3. given' = Append(given, e[1]) /\ apc'["handleEvents"] = "lock"
      /\ apc["handleEvents"] = "idle"
  BY DEF HandleReport, Idle
<1>4. /\ calls' = calls + 1 /\ datum'["handleEvents"] = calls + 1
      /\ UNCHANGED accepted
  BY <1>3 DEF HandleReport, D!AddToQueue, D!history, Q!Control
<1>5. /\ given \in Seq(Copies) /\ calls = Len(given) /\ Len(given) \in Nat
      /\ given' \in Seq(Copies) /\ Len(given') = Len(given) + 1
      /\ given'[Len(given) + 1] = e[1]
      /\ \A d \in DOMAIN given : given'[d] = given[d]
      /\ DOMAIN given' = DOMAIN given \cup {Len(given) + 1}
  BY <1>1, <1>3 DEF Kept
<1>6. \A d \in DOMAIN given : \E k \in Keys : <<k, d>> \in accepted
  BY <1>3 DEF Kept, Waiting
<1>7. ASSUME NEW d, d = Len(given) + 1 PROVE Waiting(d)'
  BY <1>3, <1>4, <1>5, <1>7 DEF Waiting
<1>8. \A d \in DOMAIN given' :
         Waiting(d)' \/ \E k \in Keys : <<k, d>> \in accepted'
  BY <1>4, <1>5, <1>6, <1>7
<1>9. \A c \in deadletter' : \E d \in DOMAIN given' : given'[d] = c
  <2>1. \A c \in deadletter : \E d \in DOMAIN given : given[d] = c
    BY DEF Kept
  <2> QED
    BY <1>2, <1>5, <2>1
<1>10. calls' = Len(given')
  BY <1>4, <1>5
<1> QED
  BY <1>5, <1>8, <1>9, <1>10 DEF Kept

LEMMA KeptStep == TypeOK /\ Q!Control /\ Kept /\ [RouterNext]_system => Kept'
<1> SUFFICES ASSUME TypeOK, Q!Control, Kept, [RouterNext]_system PROVE Kept'
  OBVIOUS
<1>1. CASE UNCHANGED <<dlq, given, deadletter>>
  BY <1>1 DEF dlq, Kept, Waiting
<1>2. CASE UNCHANGED system
  BY <1>1, <1>2 DEF system, vars, handler
<1>3. CASE ProducerStep /\ UNCHANGED <<dlq, given>>
  BY <1>1, <1>3, ProducerStepIsOne
<1>4. CASE QueueStep /\ UNCHANGED <<rest, given>>
  <2>1. UNCHANGED <<given, deadletter>>
    BY <1>4 DEF rest, handler
  <2>2. ASSUME NEW d \in DOMAIN given
        PROVE  Waiting(d)' \/ \E k \in Keys : <<k, d>> \in accepted'
    BY <1>4, QueueStepKeeps DEF Kept
  <2>3. UNCHANGED calls
    BY <1>4, QueueStepKeeps
  <2> QED
    BY <2>1, <2>2, <2>3 DEF Kept
<1>5. ASSUME NEW e \in events, HandleReport(e) PROVE Kept'
  <2>1. CASE deadletter' # deadletter
    BY <1>5, <2>1, HandleReportKeeps
  <2>2. CASE deadletter' = deadletter
    BY <1>1, <1>5, <2>2 DEF HandleReport
  <2> QED
    BY <2>1, <2>2
<1> QED
  BY <1>2, <1>3, <1>4, <1>5, WhoseStep

(* Between HandleMessage and the bucket nothing is lost on the way: until  *)
(* the poller has ended, each copy sent is with the producer, in its topic *)
(* or with the queue, and a copy the queue was given stays with it, in the *)
(* hands of AddToQueue or in an entry.                                     *)
THEOREM NothingLostBetween == RouterSpec => []NothingLostOnTheWay
<1>1. RouterSpec => []PInv
  BY ProducerInRouter, PInvAlways, PTL
<1>2. Q!QueueAssumption => (Q!Spec => []Q!DInv)
  BY Q!DeadLetterInvariance
<1>3. Q!QueueAssumption => (Q!Spec => []Q!NothingDropped)
  BY Q!NothingIsDropped
<1>4. RouterSpec => []Q!DInv /\ []Q!NothingDropped
  BY <1>2, <1>3, QueueKept, QueueConstants, PTL
<1>5. PInv => TypeOK
  BY DEF PInv
<1>6. Q!DInv => Q!Control
  BY DEF Q!DInv
<1>7. RouterSpec => []Kept
  BY <1>1, <1>4, <1>5, <1>6, KeptInit, KeptStep, PTL DEF RouterSpec
<1>8. ASSUME Kept, Q!NothingDropped, NEW d \in DOMAIN given PROVE Holds(d)
  <2>1. CASE Waiting(d)
    BY <2>1 DEF Holds, Waiting
  <2>2. CASE \E k \in Keys : <<k, d>> \in accepted
    <3>1. PICK k \in Keys : <<k, d>> \in accepted
      BY <2>2
    <3>2. <<k, d>>[1] = k /\ <<k, d>>[2] = d
      OBVIOUS
    <3>3. \/ d \in Q!Elements(Q!Contents(<<k>>))
          \/ \E o \in DOMAIN s3 : d \in Q!Elements(s3[o].body)
      BY <1>8, <3>1, <3>2 DEF Q!NothingDropped
    <3>4. d \in Q!Elements(Q!Contents(<<k>>))
            => <<k>> \in DOMAIN queue /\ d \in D!Elements(queue[<<k>>])
      BY DEF Q!Elements, Q!Contents, D!Elements
    <3>5. \A o : Q!Elements(s3[o].body) = D!Elements(s3[o].body)
      BY DEF Q!Elements, D!Elements
    <3> QED
      BY <3>3, <3>4, <3>5 DEF Holds
  <2> QED
    BY <1>8, <2>1, <2>2 DEF Kept
<1>9. PInv /\ Kept /\ Q!NothingDropped => NothingLostOnTheWay
  <2> SUFFICES ASSUME PInv, Kept, Q!NothingDropped, EnableRetry
               PROVE  /\ deadletter \subseteq Queued
                      /\ polling \/ ~terminating =>
                           sent \subseteq InChannel \cup InHand \cup InOutq
                                  \cup InReports \cup InEvents \cup Logged
                                  \cup Queued
    BY DEF NothingLostOnTheWay
  <2>1. deadletter \subseteq Queued
    BY <1>8 DEF Kept, Queued
  <2>2. polling \/ ~terminating => Lost = {}
    BY DEF PInv, NothingLost, Stopping
  <2>3. counted \subseteq Logged
    BY DEF PInv, OneOwner, SettledOnce
  <2> QED
    BY <2>1, <2>2, <2>3 DEF Lost
<1> QED
  BY <1>1, <1>4, <1>7, <1>9, PTL

=============================================================================
