---------------------- MODULE ClickstreamProducerProofs ----------------------
(***************************************************************************)
(* Safety of the message path, for any messages, integrations, answers of  *)
(* the cache and size of the produce channel, with and without --retry.    *)
(*                                                                         *)
(* The argument has two halves.  The loop of HandleMessage visits the      *)
(* names of a map once each, so the copy it is about to send is new, and   *)
(* the shared loop variable holds the topic of a round that is no earlier  *)
(* than that of any copy sent.  And each of the library's steps takes a    *)
(* copy from one owner and gives it to the next, so a copy has one owner   *)
(* at a time, and the two lists of those settled never meet.               *)
(***************************************************************************)
EXTENDS ClickstreamProducer, FiniteSetTheorems, SequenceTheorems, TLAPS

(* The shutdown comes before everything that it causes. *)
Stopping ==
  /\ NoUseAfterDestroy
  /\ RestartIsSafe
  /\ ~polling => terminating
  /\ hpc # "select" => shutdown

InHandleMessage == pc \in {"range", "assign", "send", "retry"}

(* The loop of HandleMessage: each name of the message's map is visited at *)
(* most once.                                                              *)
Loops ==
  /\ InHandleMessage => cur \in Messages \ inbox
  /\ pc \in {"assign", "send"} => visited[cur] # <<>>
  /\ pc = "retry" => visited[cur] = <<>>
  /\ \A m \in inbox : visited[m] = <<>>
  /\ \A m \in Messages : \A i, j \in DOMAIN visited[m] :
       /\ visited[m][i] \in DOMAIN integrations[m]
       /\ visited[m][i] = visited[m][j] => i = j

(* The rounds that have assigned the loop variable, and those that are     *)
(* over.                                                                   *)
Assigned(m) ==
  IF pc = "assign" /\ cur = m THEN Len(visited[m]) - 1 ELSE Len(visited[m])

Over(m) ==
  IF pc \in {"assign", "send"} /\ cur = m THEN Len(visited[m]) - 1
                                          ELSE Len(visited[m])

LoopVariable ==
  \A m \in Messages :
    integration[m] = IF Assigned(m) = 0 THEN Nil
                     ELSE integrations[m][visited[m][Assigned(m)]]

(* What was sent comes from a round that is over, or from a HandleMessage  *)
(* that is over and had no round.                                          *)
SentCopies ==
  \A c \in sent :
    /\ c[1] \notin inbox
    /\ c[2] = Retry => visited[c[1]] = <<>> /\ ~(InHandleMessage /\ cur = c[1])
    /\ c[2] # Retry => \E i \in 1..Over(c[1]) : visited[c[1]][i] = c[2]

(* A topic is that of the copy's round or a later one; to be torn it takes *)
(* a later one.                                                            *)
Forward(q) ==
  LET m == q[1][1]
      n == q[1][2]
  IN  /\ n = Retry => q[2] = RetryTopic
      /\ n # Retry => \E i, j \in DOMAIN visited[m] :
                         /\ visited[m][i] = n
                         /\ \/ i < j /\ q[2] = Torn
                            \/ /\ i <= j
                               /\ q[2] = integrations[m][visited[m][j]]

Aliases == \A q \in outq \cup topicLog : Forward(q)

(* Delivery reports of success and of failure, polled or not. *)
Good == {c \in Copies : <<c, FALSE>> \in reports \cup events}
Bad  == {c \in Copies : <<c, TRUE>> \in reports \cup events}

(* Every copy has one owner, and a success is reported of what has been    *)
(* appended.                                                               *)
OneOwner ==
  /\ InChannel \cup InHand \cup InOutq \cup Good \cup Bad \cup deadletter
       \cup counted \subseteq sent
  /\ InChannel \cap (InHand \cup InOutq \cup Good \cup Bad \cup deadletter
                     \cup counted) = {}
  /\ InHand \cap (InOutq \cup Good \cup Bad \cup deadletter \cup counted) = {}
  /\ InOutq \cap (Good \cup Bad \cup deadletter \cup counted) = {}
  /\ Good \cap (Bad \cup deadletter \cup counted) = {}
  /\ Bad \cap (deadletter \cup counted) = {}
  /\ Good \subseteq Logged
  /\ SettledOnce

(* No owner has it twice. *)
Unique ==
  /\ \A i, j \in DOMAIN produceChannel :
       produceChannel[i] = produceChannel[j] => i = j
  /\ \A q, r \in outq : q[1] = r[1] => q = r
  /\ reports \cap events = {}

NothingLost == polling => Lost = {}

Finite ==
  /\ IsFiniteSet(outq) /\ IsFiniteSet(reports) /\ IsFiniteSet(events)
  /\ IsFiniteSet(deadletter) /\ IsFiniteSet(counted) /\ IsFiniteSet(sent)

(* No owner keeps a copy that it has passed on. *)
Balance ==
  Len(produceChannel) + Cardinality(InHand) + Cardinality(outq)
    + Cardinality(reports) + Cardinality(events) + Cardinality(deadletter)
    + Cardinality(counted) <= Cardinality(sent)

PInv ==
  /\ TypeOK /\ Stopping /\ Loops /\ LoopVariable /\ SentCopies /\ Aliases
  /\ OneOwner /\ Unique /\ NothingLost /\ Finite /\ Balance

-----------------------------------------------------------------------------
(* The types of the consumer goroutine, of the copies on their way, and of *)
(* the rest.                                                               *)
LoopTypes ==
  /\ inbox \subseteq Messages
  /\ pc \in {"check", "health", "select", "range", "assign", "send",
            "retry", "ended"}
  /\ cur \in Messages \cup {Nil}
  /\ integrations \in [Messages -> Answers \cup {NoAnswer}]
  /\ visited \in [Messages -> Seq(Names)]
  /\ integration \in [Messages -> Topics \cup {Nil}]
  /\ sent \subseteq Copies

CopyTypes ==
  /\ produceChannel \in Seq(Copies) /\ Len(produceChannel) <= ChannelSize
  /\ hand \in Copies \cup {Nil}
  /\ outq \subseteq Copies \X AnyTopic
  /\ topicLog \subseteq Copies \X AnyTopic
  /\ reports \subseteq Copies \X BOOLEAN
  /\ events \subseteq Copies \X BOOLEAN
  /\ deadletter \subseteq Copies
  /\ counted \subseteq Copies

FlagTypes ==
  /\ hpc \in {"select", "flush", "terminate", "wait", "closed"}
  /\ polling \in BOOLEAN
  /\ shutdown \in BOOLEAN /\ shouldShutdown \in BOOLEAN
  /\ destroyed \in BOOLEAN
  /\ proc \in {"running", "panicked", "exited"}

LEMMA TypesSplit == TypeOK <=> LoopTypes /\ CopyTypes /\ FlagTypes
BY DEF TypeOK, LoopTypes, CopyTypes, FlagTypes

(* The steps of the consumer goroutine, and those that move a copy. *)
LoopStep == ConsumerStep \/ CloseConsumer

MoveStep ==
  \/ SendToIntegration \/ SendToRetry
  \/ ReceiveCopy \/ Produce
  \/ \E q \in outq : Deliver(q)
  \/ \E r \in reports : Poll(r)
  \/ PollerEnds
  \/ \E e \in events : handleEvents(e)
  \/ Close

copies == <<library, events, deadletter, counted, sent>>

LEMMA Frames ==
  ASSUME [Next]_vars
  PROVE  [LoopStep]_<<consumer, sent>> /\ [MoveStep]_copies
<1> USE DEF copies, consumer, library, kafka, handler, stop
<1>1. CASE UNCHANGED vars
  BY <1>1 DEF vars
<1>2. CASE ConsumerStep
  <2>1. [MoveStep]_copies
    BY <1>2 DEF ConsumerStep, MoveStep, CheckShutdown, RunConsumer,
       ReceiveMessage, NextIntegration, AssignIntegration, SendOnClosed,
       HandleMessageReturns
  <2> QED
    BY <1>2, <2>1 DEF LoopStep
<1>3. CASE CloseConsumer
  BY <1>3 DEF LoopStep, CloseConsumer
<1>4. CASE \/ ReceiveCopy \/ Produce \/ PollerEnds \/ Close
           \/ \E q \in outq : Deliver(q)
           \/ \E r \in reports : Poll(r)
           \/ \E e \in events : handleEvents(e)
  BY <1>4 DEF MoveStep, ReceiveCopy, Produce, Close, Deliver, Poll, PollerEnds,
     handleEvents
<1>5. CASE \/ FlushBegin \/ CloseTermChan \/ CloseProduceChannel
           \/ Signal \/ SetShouldShutdown \/ MainReturns
  BY <1>5 DEF FlushBegin, CloseTermChan, CloseProduceChannel, Signal,
     SetShouldShutdown, MainReturns
<1> QED
  BY <1>1, <1>2, <1>3, <1>4, <1>5 DEF Next

(* What a map of integrations may hold. *)
LEMMA TopicOfName ==
  ASSUME LoopTypes, NEW m \in Messages, NEW n \in DOMAIN integrations[m]
  PROVE  integrations[m][n] \in Topics
<1>1. integrations[m] \in Answers \/ DOMAIN integrations[m] = {}
  BY DEF LoopTypes, NoAnswer
<1> QED
  BY <1>1, ProducerAssumption

(* The consumer goroutine's own variables. *)
LEMMA LoopTypesStep ==
  ASSUME LoopTypes, Loops, [LoopStep]_<<consumer, sent>>
  PROVE  LoopTypes'
<1> USE ProducerAssumption DEF LoopTypes, Loops, InHandleMessage, Copies
<1>0. ASSUME UNCHANGED <<consumer, sent>> PROVE LoopTypes'
  BY <1>0 DEF consumer
<1>1. ASSUME CheckShutdown PROVE LoopTypes'
  BY <1>1 DEF CheckShutdown, consumer
<1>2. ASSUME RunConsumer PROVE LoopTypes'
  BY <1>2 DEF RunConsumer, KeepsConsumer, consumer
<1>3. ASSUME NEW m \in inbox, ReceiveMessage(m) PROVE LoopTypes'
  <2>1. /\ inbox' = inbox \ {m} /\ m \in Messages
        /\ UNCHANGED <<visited, integration, sent>>
    BY <1>3 DEF ReceiveMessage
  <2>2. CASE UNCHANGED <<pc, cur, integrations>>
    BY <2>1, <2>2
  <2>3. CASE cur' = m /\ pc' = "retry" /\ UNCHANGED integrations
    BY <2>1, <2>3
  <2>4. ASSUME NEW ans \in Answers, cur' = m, pc' = "range",
               integrations' = [integrations EXCEPT ![m] = ans]
        PROVE  LoopTypes'
    BY <2>1, <2>4
  <2> QED
    BY <1>3, <2>2, <2>3, <2>4 DEF ReceiveMessage
<1>4. ASSUME NEW n \in Names, NextIntegration(n) PROVE LoopTypes'
  BY <1>4 DEF NextIntegration, Visited, consumer
<1>5. ASSUME AssignIntegration PROVE LoopTypes'
  <2>1. /\ cur \in Messages /\ pc' \in {"range", "send"}
        /\ integration' = [integration EXCEPT ![cur] = RangeValue]
        /\ UNCHANGED <<inbox, cur, integrations, visited, sent>>
    BY <1>5 DEF AssignIntegration
  <2>2. name \in DOMAIN integrations[cur]
    BY <1>5 DEF AssignIntegration, name
  <2>3. RangeValue \in Topics
    BY <2>1, <2>2, TopicOfName DEF RangeValue
  <2> QED
    BY <2>1, <2>3
<1>6. ASSUME SendToIntegration PROVE LoopTypes'
  BY <1>6 DEF SendToIntegration, SendCopy, name, consumer
<1>7. ASSUME SendToRetry PROVE LoopTypes'
  BY <1>7 DEF SendToRetry, SendCopy, consumer
<1>8. ASSUME SendOnClosed PROVE LoopTypes'
  BY <1>8 DEF SendOnClosed, consumer
<1>9. ASSUME HandleMessageReturns PROVE LoopTypes'
  BY <1>9 DEF HandleMessageReturns, consumer
<1>10. ASSUME CloseConsumer PROVE LoopTypes'
  BY <1>10 DEF CloseConsumer, consumer
<1> QED
  BY <1>0, <1>1, <1>2, <1>3, <1>4, <1>5, <1>6, <1>7, <1>8, <1>9, <1>10 DEF
     LoopStep, ConsumerStep

(* A name is visited once, and a message received once. *)
LEMMA LoopsStep ==
  ASSUME LoopTypes, Loops, [LoopStep]_<<consumer, sent>>
  PROVE  Loops'
<1> USE ProducerAssumption DEF LoopTypes, Loops, InHandleMessage
<1>0. ASSUME UNCHANGED <<consumer, sent>> PROVE Loops'
  BY <1>0 DEF consumer
<1>1. ASSUME CheckShutdown PROVE Loops'
  BY <1>1 DEF CheckShutdown, consumer
<1>2. ASSUME RunConsumer PROVE Loops'
  BY <1>2 DEF RunConsumer, KeepsConsumer, consumer
<1>3. ASSUME NEW m \in inbox, ReceiveMessage(m) PROVE Loops'
  <2>1. /\ pc = "select" /\ inbox' = inbox \ {m} /\ m \in Messages
        /\ UNCHANGED visited
        /\ visited[m] = <<>>
    BY <1>3 DEF ReceiveMessage
  <2>2. CASE UNCHANGED <<pc, cur, integrations>>
    BY <2>1, <2>2
  <2>3. CASE cur' = m /\ pc' = "retry" /\ UNCHANGED integrations
    BY <2>1, <2>3
  <2>4. ASSUME NEW ans \in Answers, cur' = m, pc' = "range",
               integrations' = [integrations EXCEPT ![m] = ans]
        PROVE  Loops'
    <3>1. \A k \in Messages \ {m} : integrations'[k] = integrations[k]
      BY <2>4
    <3>2. DOMAIN visited'[m] = {}
      BY <2>1
    <3> QED
      BY <2>1, <2>4, <3>1, <3>2
  <2> QED
    BY <1>3, <2>2, <2>3, <2>4 DEF ReceiveMessage
<1>4. ASSUME NEW n \in Names, NextIntegration(n) PROVE Loops'
  <2>1. /\ pc = "range" /\ pc' = "assign" /\ cur \in Messages
        /\ UNCHANGED <<inbox, cur, integrations>>
        /\ visited' = [visited EXCEPT ![cur] = Append(visited[cur], n)]
    BY <1>4 DEF NextIntegration
  <2>2. /\ n \in DOMAIN integrations[cur]
        /\ \A i \in DOMAIN visited[cur] : visited[cur][i] # n
    BY <1>4 DEF NextIntegration, Visited
  <2>3. \A m \in Messages \ {cur} : visited'[m] = visited[m]
    BY <2>1
  <2>4. visited'[cur] = Append(visited[cur], n) /\ cur \notin inbox
    BY <2>1
  <2>5. \A m \in inbox : visited'[m] = <<>>
    BY <2>3, <2>4
  <2>6. ASSUME NEW i \in DOMAIN visited'[cur], NEW j \in DOMAIN visited'[cur]
        PROVE  /\ visited'[cur][i] \in DOMAIN integrations[cur]
               /\ visited'[cur][i] = visited'[cur][j] => i = j
    BY <2>1, <2>2, <2>4, <2>6
  <2>7. \A m \in Messages : \A i, j \in DOMAIN visited'[m] :
          /\ visited'[m][i] \in DOMAIN integrations[m]
          /\ visited'[m][i] = visited'[m][j] => i = j
    BY <2>3, <2>6
  <2>8. visited'[cur] # <<>>
    BY <2>1, <2>4
  <2> QED
    BY <2>1, <2>4, <2>5, <2>7, <2>8
<1>5. ASSUME AssignIntegration PROVE Loops'
  BY <1>5 DEF AssignIntegration, RangeValue, name, consumer
<1>6. ASSUME SendToIntegration PROVE Loops'
  BY <1>6 DEF SendToIntegration, SendCopy, name, consumer
<1>7. ASSUME SendToRetry PROVE Loops'
  BY <1>7 DEF SendToRetry, SendCopy, consumer
<1>8. ASSUME SendOnClosed PROVE Loops'
  BY <1>8 DEF SendOnClosed, consumer
<1>9. ASSUME HandleMessageReturns PROVE Loops'
  BY <1>9 DEF HandleMessageReturns, consumer
<1>10. ASSUME CloseConsumer PROVE Loops'
  BY <1>10 DEF CloseConsumer, consumer
<1> QED
  BY <1>0, <1>1, <1>2, <1>3, <1>4, <1>5, <1>6, <1>7, <1>8, <1>9, <1>10 DEF
     LoopStep, ConsumerStep

(* The loop variable is assigned in every round, before a copy is sent. *)
LEMMA LoopVariableStep ==
  ASSUME LoopTypes, Loops, LoopVariable, [LoopStep]_<<consumer, sent>>
  PROVE  LoopVariable'
<1> USE ProducerAssumption DEF LoopTypes, Loops, InHandleMessage,
    LoopVariable, Assigned
<1>0. ASSUME UNCHANGED <<consumer, sent>> PROVE LoopVariable'
  BY <1>0 DEF consumer
<1>1. ASSUME CheckShutdown PROVE LoopVariable'
  BY <1>1 DEF CheckShutdown, consumer
<1>2. ASSUME RunConsumer PROVE LoopVariable'
  BY <1>2 DEF RunConsumer, KeepsConsumer, consumer
<1>3. ASSUME NEW m \in inbox, ReceiveMessage(m) PROVE LoopVariable'
  <2>1. /\ pc = "select" /\ pc' # "assign" /\ m \in Messages
        /\ UNCHANGED <<visited, integration>>
        /\ Len(visited[m]) = 0
    BY <1>3 DEF ReceiveMessage
  <2>2. \A k \in Messages \ {m} : integrations'[k] = integrations[k]
    BY <1>3 DEF ReceiveMessage
  <2>3. ASSUME NEW k \in Messages
        PROVE  integration'[k] =
                 IF Len(visited[k]) = 0 THEN Nil
                 ELSE integrations'[k][visited[k][Len(visited[k])]]
    <3>1. integration[k] = IF Len(visited[k]) = 0 THEN Nil
                           ELSE integrations[k][visited[k][Len(visited[k])]]
      BY <2>1
    <3> QED
      BY <2>1, <2>2, <3>1
  <2> QED
    BY <2>1, <2>3
<1>4. ASSUME NEW n \in Names, NextIntegration(n) PROVE LoopVariable'
  BY <1>4 DEF NextIntegration, Visited, consumer
<1>5. ASSUME AssignIntegration PROVE LoopVariable'
  BY <1>5 DEF AssignIntegration, RangeValue, name, consumer
<1>6. ASSUME SendToIntegration PROVE LoopVariable'
  BY <1>6 DEF SendToIntegration, SendCopy, name, consumer
<1>7. ASSUME SendToRetry PROVE LoopVariable'
  BY <1>7 DEF SendToRetry, SendCopy, consumer
<1>8. ASSUME SendOnClosed PROVE LoopVariable'
  BY <1>8 DEF SendOnClosed, consumer
<1>9. ASSUME HandleMessageReturns PROVE LoopVariable'
  BY <1>9 DEF HandleMessageReturns, consumer
<1>10. ASSUME CloseConsumer PROVE LoopVariable'
  BY <1>10 DEF CloseConsumer, consumer
<1> QED
  BY <1>0, <1>1, <1>2, <1>3, <1>4, <1>5, <1>6, <1>7, <1>8, <1>9, <1>10 DEF
     LoopStep, ConsumerStep

(* A copy is sent at the end of a round. *)
LEMMA SentCopiesStep ==
  ASSUME LoopTypes, Loops, SentCopies, [LoopStep]_<<consumer, sent>>
  PROVE  SentCopies'
<1> USE ProducerAssumption DEF LoopTypes, Loops, InHandleMessage,
    SentCopies, Over
<1>0. ASSUME UNCHANGED <<consumer, sent>> PROVE SentCopies'
  BY <1>0 DEF consumer
<1>1. ASSUME CheckShutdown PROVE SentCopies'
  BY <1>1 DEF CheckShutdown, consumer
<1>2. ASSUME RunConsumer PROVE SentCopies'
  BY <1>2 DEF RunConsumer, KeepsConsumer, consumer
<1>3. ASSUME NEW m \in inbox, ReceiveMessage(m) PROVE SentCopies'
  BY <1>3 DEF ReceiveMessage, consumer
<1>4. ASSUME NEW n \in Names, NextIntegration(n) PROVE SentCopies'
  BY <1>4 DEF NextIntegration, Visited, consumer
<1>5. ASSUME AssignIntegration PROVE SentCopies'
  BY <1>5 DEF AssignIntegration, RangeValue, name, consumer
<1>6. ASSUME SendToIntegration PROVE SentCopies'
  <2>1. /\ pc = "send" /\ pc' = "range" /\ cur \in Messages \ inbox
        /\ UNCHANGED <<inbox, cur, visited>>
        /\ sent' = sent \cup {<<cur, name>>}
        /\ visited[cur] \in Seq(Names) /\ visited[cur] # <<>>
    BY <1>6 DEF SendToIntegration, SendCopy
  <2>2. /\ Over(cur)' = Len(visited[cur])
        /\ \A m \in Messages : Over(m) \in Int /\ Over(m) <= Over(m)'
    BY <2>1
  <2>3. name \in Names /\ Len(visited[cur]) \in 1..Over(cur)'
    BY <2>1, <2>2 DEF name
  <2>4. /\ <<cur, name>>[1] \notin inbox' /\ <<cur, name>>[2] # Retry
        /\ \E i \in 1..Over(cur)' : visited'[cur][i] = <<cur, name>>[2]
    BY <2>1, <2>3, ProducerAssumption DEF name
  <2>5. ASSUME NEW c \in sent
        PROVE  /\ c[1] \notin inbox'
               /\ c[2] = Retry => /\ visited'[c[1]] = <<>>
                                  /\ ~(InHandleMessage' /\ cur' = c[1])
               /\ c[2] # Retry =>
                    \E i \in 1..Over(c[1])' : visited'[c[1]][i] = c[2]
    <3>1. c[1] \in Messages /\ c \in Copies
      BY DEF Copies
    <3>2. c[2] # Retry => \E i \in 1..Over(c[1])' : visited'[c[1]][i] = c[2]
      <4>1. Over(c[1]) <= Over(c[1])' /\ Over(c[1]) \in Int
            /\ Over(c[1])' \in Int
        BY <2>1, <3>1
      <4>2. c[2] # Retry => \E i \in 1..Over(c[1]) : visited[c[1]][i] = c[2]
        OBVIOUS
      <4> HIDE DEF Over
      <4> QED
        BY <2>1, <4>1, <4>2
    <3> QED
      BY <2>1, <3>1, <3>2
  <2> HIDE DEF Over, InHandleMessage
  <2> QED
    BY <2>1, <2>4, <2>5
<1>7. ASSUME SendToRetry PROVE SentCopies'
  BY <1>7 DEF SendToRetry, SendCopy, consumer
<1>8. ASSUME SendOnClosed PROVE SentCopies'
  BY <1>8 DEF SendOnClosed, consumer
<1>9. ASSUME HandleMessageReturns PROVE SentCopies'
  BY <1>9 DEF HandleMessageReturns, consumer
<1>10. ASSUME CloseConsumer PROVE SentCopies'
  BY <1>10 DEF CloseConsumer, consumer
<1> QED
  BY <1>0, <1>1, <1>2, <1>3, <1>4, <1>5, <1>6, <1>7, <1>8, <1>9, <1>10 DEF
     LoopStep, ConsumerStep

-----------------------------------------------------------------------------
(* The names visited stay, and so does the map they are looked up in. *)
LEMMA VisitsGrow ==
  ASSUME LoopTypes, Loops, [LoopStep]_<<consumer, sent>>, NEW m \in Messages
  PROVE  /\ \A i \in DOMAIN visited[m] : /\ i \in DOMAIN visited'[m]
                                         /\ visited'[m][i] = visited[m][i]
         /\ visited[m] # <<>> => integrations'[m] = integrations[m]
<1> USE DEF LoopTypes, consumer
<1>1. CASE UNCHANGED <<visited, integrations>>
  BY <1>1
<1>2. CASE \E k \in inbox : ReceiveMessage(k)
  <2>1. PICK k \in inbox : ReceiveMessage(k)
    BY <1>2
  <2>2. /\ UNCHANGED visited /\ visited[k] = <<>>
        /\ \A l \in Messages \ {k} : integrations'[l] = integrations[l]
    BY <2>1 DEF ReceiveMessage, Loops
  <2> QED
    BY <2>2
<1>3. CASE \E n \in Names : NextIntegration(n)
  <2>1. PICK n \in Names : NextIntegration(n)
    BY <1>3
  <2>2. /\ UNCHANGED integrations
        /\ visited' = [visited EXCEPT ![cur] = Append(visited[cur], n)]
    BY <2>1 DEF NextIntegration
  <2>3. visited[m] \in Seq(Names)
    OBVIOUS
  <2>4. CASE cur # m
    BY <2>2, <2>4
  <2>5. CASE cur = m
    BY <2>2, <2>3, <2>5
  <2> QED
    BY <2>4, <2>5
<1> QED
  BY <1>1, <1>2, <1>3 DEF LoopStep, ConsumerStep, CheckShutdown, RunConsumer,
     AssignIntegration, SendToIntegration, SendToRetry, SendCopy, SendOnClosed,
     HandleMessageReturns, CloseConsumer

(* So a topic that was of its round or a later one remains so. *)
LEMMA ForwardStays ==
  ASSUME LoopTypes, Loops, [LoopStep]_<<consumer, sent>>,
         NEW q \in Copies \X AnyTopic, Forward(q)
  PROVE  Forward(q)'
<1> DEFINE m == q[1][1]
           n == q[1][2]
<1>1. q[1] \in Copies /\ m \in Messages
  BY DEF Copies
<1>2. CASE n = Retry
  BY <1>2 DEF Forward
<1>3. CASE n # Retry
  <2>1. PICK i, j \in DOMAIN visited[m] :
               /\ visited[m][i] = n
               /\ \/ i < j /\ q[2] = Torn
                  \/ i <= j /\ q[2] = integrations[m][visited[m][j]]
    BY <1>3 DEF Forward
  <2>2. visited[m] # <<>>
    BY <2>1
  <2>3. /\ i \in DOMAIN visited'[m] /\ visited'[m][i] = visited[m][i]
        /\ j \in DOMAIN visited'[m] /\ visited'[m][j] = visited[m][j]
        /\ integrations'[m] = integrations[m]
    BY <1>1, <2>2, VisitsGrow
  <2> HIDE DEF m, n
  <2>4. \E k, l \in DOMAIN visited'[m] :
           /\ visited'[m][k] = n
           /\ \/ k < l /\ q[2] = Torn
              \/ k <= l /\ q[2] = integrations'[m][visited'[m][l]]
    BY <2>1, <2>3
  <2> QED
    BY <1>3, <2>4 DEF Forward, m, n
<1> QED
  BY <1>2, <1>3

(* What channelProducer reads for a copy in its hand: AliasOnlyForward at  *)
(* the moment it comes true.                                               *)
LEMMA ReadForward ==
  ASSUME LoopTypes, Loops, LoopVariable, SentCopies,
         NEW c \in sent, NEW topic \in TopicRead(c)
  PROVE  topic \in AnyTopic /\ Forward(<<c, topic>>)
<1> DEFINE m == c[1]
           n == c[2]
<1>1. c \in Copies /\ m \in Messages /\ n \in Names \cup {Retry}
  BY DEF LoopTypes, Copies
<1>2. CASE n = Retry
  BY <1>2 DEF TopicRead, AnyTopic, Forward
<1>3. CASE n # Retry
  <2>1. PICK i \in 1..Over(m) : visited[m][i] = n
    BY <1>3 DEF SentCopies
  <2>2. /\ visited[m] \in Seq(Names) /\ Len(visited[m]) \in Nat
        /\ DOMAIN visited[m] = 1..Len(visited[m])
    BY <1>1 DEF LoopTypes
  <2>3. /\ Assigned(m) \in 1..Len(visited[m])
        /\ i \in DOMAIN visited[m] /\ i <= Assigned(m)
    BY <2>1, <2>2 DEF Over, Assigned
  <2>4. integration[m] = integrations[m][visited[m][Assigned(m)]]
    BY <1>1, <2>3 DEF LoopVariable
  <2>5. \A j \in DOMAIN visited[m] :
           integrations[m][visited[m][j]] \in Topics
    BY <1>1, TopicOfName DEF Loops
  <2>6. \/ topic = integration[m]
        \/ /\ pc = "assign" /\ cur = m
           /\ topic \in {integrations[cur][name], Torn}
    BY <1>3 DEF TopicRead
  <2>7. CASE topic = integration[m]
    BY <1>3, <2>1, <2>2, <2>3, <2>4, <2>5, <2>7 DEF Forward, AnyTopic
  <2>8. CASE /\ pc = "assign" /\ cur = m
             /\ topic \in {integrations[cur][name], Torn}
    <3>1. /\ i < Len(visited[m]) /\ name = visited[m][Len(visited[m])]
          /\ Len(visited[m]) \in DOMAIN visited[m]
      BY <2>1, <2>2, <2>3, <2>8 DEF Assigned, name
    <3> QED
      BY <1>3, <2>1, <2>3, <2>5, <2>8, <3>1 DEF Forward, AnyTopic
  <2> QED
    BY <2>6, <2>7, <2>8
<1> QED
  BY <1>2, <1>3

(* The copies that HandleMessage sends are new. *)
LEMMA NewCopy ==
  ASSUME LoopTypes, Loops, SentCopies
  PROVE  /\ SendToIntegration => <<cur, name>> \in Copies \ sent
         /\ SendToRetry => <<cur, Retry>> \in Copies \ sent
<1>1. ASSUME SendToIntegration PROVE <<cur, name>> \in Copies \ sent
  <2>1. /\ pc = "send" /\ cur \in Messages
        /\ visited[cur] \in Seq(Names) /\ visited[cur] # <<>>
    BY <1>1 DEF SendToIntegration, LoopTypes, Loops, InHandleMessage
  <2>2. /\ name \in Names /\ name = visited[cur][Len(visited[cur])]
        /\ Len(visited[cur]) \in DOMAIN visited[cur]
    BY <2>1 DEF name
  <2>3. ASSUME <<cur, name>> \in sent PROVE FALSE
    <3>1. PICK i \in 1..Over(cur) : visited[cur][i] = name
      BY <2>2, <2>3, ProducerAssumption DEF SentCopies
    <3>2. i \in DOMAIN visited[cur] /\ i # Len(visited[cur])
      BY <2>1 DEF Over
    <3> QED
      BY <2>1, <2>2, <3>1, <3>2 DEF Loops
  <2> QED
    BY <2>1, <2>2, <2>3 DEF Copies
<1>2. ASSUME SendToRetry PROVE <<cur, Retry>> \in Copies \ sent
  BY <1>2 DEF SendToRetry, SentCopies, Loops, InHandleMessage, Copies
<1> QED
  BY <1>1, <1>2

(* What is on its way are copies and topics. *)
LEMMA CopyTypesStep ==
  ASSUME LoopTypes, CopyTypes, Loops, LoopVariable, SentCopies,
         OneOwner, [MoveStep]_copies
  PROVE  CopyTypes'
<1> USE ProducerAssumption DEF CopyTypes, kafka
<1>0. ASSUME UNCHANGED copies PROVE CopyTypes'
  BY <1>0 DEF copies, library
<1>1. ASSUME SendToIntegration PROVE CopyTypes'
  <2>1. /\ produceChannel' = Append(produceChannel, <<cur, name>>)
        /\ Len(produceChannel) < ChannelSize
        /\ UNCHANGED <<hand, kafka, events, deadletter, counted>>
    BY <1>1 DEF SendToIntegration, SendCopy, HasRoom, handler
  <2>2. <<cur, name>> \in Copies
    BY <1>1, NewCopy
  <2> QED
    BY <2>1, <2>2
<1>2. ASSUME SendToRetry PROVE CopyTypes'
  <2>1. /\ produceChannel' = Append(produceChannel, <<cur, Retry>>)
        /\ Len(produceChannel) < ChannelSize
        /\ UNCHANGED <<hand, kafka, events, deadletter, counted>>
    BY <1>2 DEF SendToRetry, SendCopy, HasRoom, handler
  <2>2. <<cur, Retry>> \in Copies
    BY <1>2, NewCopy
  <2> QED
    BY <2>1, <2>2
<1>3. ASSUME ReceiveCopy PROVE CopyTypes'
  <2>1. /\ produceChannel # <<>>
        /\ hand' = Head(produceChannel)
        /\ produceChannel' = Tail(produceChannel)
        /\ UNCHANGED <<kafka, events, deadletter, counted>>
    BY <1>3 DEF ReceiveCopy, CopyWaiting, handler
  <2>2. /\ Head(produceChannel) \in Copies
        /\ Tail(produceChannel) \in Seq(Copies)
        /\ Len(Tail(produceChannel)) <= ChannelSize
    BY <2>1
  <2> QED
    BY <2>1, <2>2
<1>4. ASSUME Produce PROVE CopyTypes'
  <2>1. /\ hand \in Copies /\ hand' = Nil
        /\ UNCHANGED <<produceChannel, topicLog, reports, deadletter, counted>>
    BY <1>4 DEF Produce, handler
  <2>2. ASSUME NEW topic \in TopicRead(hand),
               outq' = outq \cup {<<hand, topic>>}, UNCHANGED events
        PROVE  CopyTypes'
    <3>1. hand \in sent
      BY <2>1, ProducerAssumption DEF OneOwner, InHand, Copies
    <3>2. topic \in AnyTopic
      BY <3>1, ReadForward
    <3> QED
      BY <2>1, <2>2, <3>2
  <2>3. CASE events' = events \cup {<<hand, TRUE>>} /\ UNCHANGED outq
    <3>0. <<hand, TRUE>> \in Copies \X BOOLEAN
      BY <2>1
    <3>1. events' \subseteq Copies \X BOOLEAN
      BY <2>3, <3>0
    <3> QED
      BY <2>1, <2>3, <3>1
  <2> QED
    BY <1>4, <2>2, <2>3 DEF Produce, Reported
<1>5. ASSUME NEW q \in outq, Deliver(q) PROVE CopyTypes'
  <2>1. /\ outq' \subseteq outq /\ q[1] \in Copies
        /\ topicLog' \subseteq topicLog \cup {q}
        /\ UNCHANGED <<produceChannel, hand, events, deadletter, counted>>
    BY <1>5 DEF Deliver, handler
  <2>2. reports' \subseteq reports \cup {<<q[1], FALSE>>, <<q[1], TRUE>>}
    BY <1>5 DEF Deliver
  <2>3. /\ <<q[1], FALSE>> \in Copies \X BOOLEAN
        /\ <<q[1], TRUE>> \in Copies \X BOOLEAN
    BY <2>1
  <2>4. reports' \subseteq Copies \X BOOLEAN
    BY <2>2, <2>3
  <2> QED
    BY <2>1, <2>4
<1>8. ASSUME NEW r \in reports, Poll(r) PROVE CopyTypes'
  BY <1>8 DEF Poll, handler
<1>9. ASSUME PollerEnds PROVE CopyTypes'
  <2>1. reports' \subseteq reports
    BY <1>9 DEF PollerEnds
  <2>2. UNCHANGED <<produceChannel, hand, outq, topicLog, events, deadletter,
                    counted>>
    BY <1>9 DEF PollerEnds, handler
  <2> QED
    BY <2>1, <2>2
<1>6. ASSUME NEW e \in events, handleEvents(e) PROVE CopyTypes'
  BY <1>6 DEF handleEvents, DeliveryFailed, library
<1>7. ASSUME Close PROVE CopyTypes'
  BY <1>7 DEF Close, Terminated, library
<1> QED
  BY <1>0, <1>1, <1>2, <1>3, <1>4, <1>5, <1>6, <1>7, <1>8, <1>9 DEF MoveStep

(* A new entry of outq has been read for the copy in hand; an entry of the *)
(* log was in outq before.                                                 *)
LEMMA AliasesStep ==
  ASSUME LoopTypes, CopyTypes, Loops, LoopVariable, SentCopies, OneOwner,
         Aliases, [LoopStep]_<<consumer, sent>>, [MoveStep]_copies
  PROVE  Aliases'
<1> SUFFICES ASSUME NEW q \in outq' \cup topicLog' PROVE Forward(q)'
  BY DEF Aliases
<1>1. \/ q \in outq \cup topicLog
      \/ /\ hand # Nil
         /\ \E topic \in TopicRead(hand) : q = <<hand, topic>>
  BY DEF MoveStep, copies, library, kafka, SendToIntegration, SendToRetry,
         SendCopy, ReceiveCopy, Produce, Deliver, Poll, PollerEnds,
         handleEvents, Close
<1>2. CASE q \in outq \cup topicLog
  <2>1. q \in Copies \X AnyTopic
    BY <1>2 DEF CopyTypes
  <2> QED
    BY <1>2, <2>1, ForwardStays DEF Aliases
<1>3. ASSUME hand # Nil, NEW topic \in TopicRead(hand), q = <<hand, topic>>
      PROVE  Forward(q)'
  <2>1. hand \in sent /\ hand \in Copies
    BY <1>3 DEF OneOwner, InHand, CopyTypes
  <2>2. topic \in AnyTopic /\ Forward(q)
    BY <1>3, <2>1, ReadForward
  <2>3. q \in Copies \X AnyTopic
    BY <1>3, <2>1, <2>2
  <2> QED
    BY <2>2, <2>3, ForwardStays
<1> QED
  BY <1>1, <1>2, <1>3

-----------------------------------------------------------------------------
(* What each step does to the owners of a copy. *)
LEMMA SendMoves ==
  ASSUME CopyTypes, NEW c \in Copies, NEW to, SendCopy(c, to)
  PROVE  /\ sent' = sent \cup {c}
         /\ InChannel' = InChannel \cup {c}
         /\ UNCHANGED <<InHand, InOutq, Good, Bad, deadletter, counted,
                        Logged>>
<1>1. /\ produceChannel \in Seq(Copies)
      /\ produceChannel' = Append(produceChannel, c)
      /\ UNCHANGED <<hand, kafka, events, deadletter, counted>>
      /\ sent' = sent \cup {c}
  BY DEF CopyTypes, SendCopy, handler
<1>2. InChannel' = InChannel \cup {c}
  BY <1>1 DEF InChannel
<1>3. UNCHANGED <<InHand, InOutq, Good, Bad, Logged>>
  BY <1>1 DEF InHand, InOutq, Good, Bad, Logged, kafka
<1> QED
  BY <1>1, <1>2, <1>3

LEMMA ReceiveMoves ==
  ASSUME CopyTypes, Unique, ReceiveCopy
  PROVE  \E c \in InChannel :
           /\ InHand = {} /\ InHand' = {c}
           /\ InChannel' = InChannel \ {c}
           /\ UNCHANGED <<InOutq, Good, Bad, deadletter, counted, Logged,
                          sent>>
<1> DEFINE c == Head(produceChannel)
<1>1. /\ produceChannel \in Seq(Copies) /\ produceChannel # <<>>
      /\ hand = Nil /\ hand' = c
      /\ produceChannel' = Tail(produceChannel)
      /\ UNCHANGED <<kafka, events, deadletter, counted, sent>>
  BY DEF CopyTypes, ReceiveCopy, CopyWaiting, handler
<1>2. c \in InChannel /\ c \in Copies
  BY <1>1 DEF InChannel
<1>3. InHand = {} /\ InHand' = {c}
  BY <1>1, <1>2, ProducerAssumption DEF InHand, Copies
<1>4. InChannel' = InChannel \ {c}
  <2>1. \A x \in InChannel' : x \in InChannel /\ x # c
    <3>1. \A i \in DOMAIN Tail(produceChannel) :
             /\ i + 1 \in DOMAIN produceChannel /\ i + 1 # 1
             /\ Tail(produceChannel)[i] = produceChannel[i + 1]
      BY <1>1
    <3>2. 1 \in DOMAIN produceChannel /\ c = produceChannel[1]
      BY <1>1
    <3> QED
      BY <1>1, <3>1, <3>2 DEF InChannel, Unique
  <2>2. \A x \in InChannel : x # c => x \in InChannel'
    <3> SUFFICES ASSUME NEW i \in DOMAIN produceChannel,
                        produceChannel[i] # c
                 PROVE  produceChannel[i] \in InChannel'
      BY DEF InChannel
    <3>1. /\ i - 1 \in DOMAIN Tail(produceChannel)
          /\ Tail(produceChannel)[i - 1] = produceChannel[i]
      BY <1>1
    <3> QED
      BY <1>1, <3>1 DEF InChannel
  <2> QED
    BY <2>1, <2>2
<1>5. UNCHANGED <<InOutq, Good, Bad, Logged>>
  BY <1>1 DEF InOutq, Good, Bad, Logged, kafka
<1> QED
  BY <1>1, <1>2, <1>3, <1>4, <1>5

LEMMA ProduceMoves ==
  ASSUME CopyTypes, Produce
  PROVE  \E c \in Copies :
           /\ InHand = {c} /\ InHand' = {}
           /\ \/ InOutq' = InOutq \cup {c} /\ UNCHANGED <<Good, Bad>>
              \/ Bad' = Bad \cup {c} /\ UNCHANGED <<InOutq, Good>>
           /\ UNCHANGED <<InChannel, deadletter, counted, Logged, sent>>
<1>1. /\ hand \in Copies /\ hand # Nil /\ hand' = Nil
      /\ UNCHANGED <<produceChannel, topicLog, reports, deadletter, counted,
                     sent>>
  BY DEF CopyTypes, Produce, handler
<1>2. InHand = {hand} /\ InHand' = {}
  BY <1>1 DEF InHand
<1>3. UNCHANGED <<InChannel, Logged>>
  BY <1>1 DEF InChannel, Logged
<1>4. ASSUME NEW topic, outq' = outq \cup {<<hand, topic>>}, UNCHANGED events
      PROVE  InOutq' = InOutq \cup {hand} /\ UNCHANGED <<Good, Bad>>
  <2>1. <<hand, topic>>[1] = hand
    OBVIOUS
  <2>2. \A x : x \in InOutq' <=> x \in InOutq \/ x = hand
    BY <1>4, <2>1 DEF InOutq
  <2> QED
    BY <1>1, <1>4, <2>2 DEF Good, Bad
<1>5. ASSUME events' = events \cup {<<hand, TRUE>>}, UNCHANGED outq
      PROVE  Bad' = Bad \cup {hand} /\ UNCHANGED <<InOutq, Good>>
  <2>1. \A c : /\ <<c, TRUE>> = <<hand, TRUE>> <=> c = hand
               /\ <<c, FALSE>> # <<hand, TRUE>>
    OBVIOUS
  <2> QED
    BY <1>1, <1>5, <2>1 DEF InOutq, Good, Bad
<1> QED
  BY <1>1, <1>2, <1>3, <1>4, <1>5 DEF Produce, Reported

LEMMA DeliverMoves ==
  ASSUME CopyTypes, Unique, NEW q \in outq, Deliver(q)
  PROVE  \E c \in InOutq :
           /\ InOutq' = InOutq \ {c}
           /\ \/ /\ Logged' = Logged \cup {c} /\ Good' = Good \cup {c}
                 /\ UNCHANGED Bad
              \/ /\ Logged \subseteq Logged' /\ Bad' = Bad \cup {c}
                 /\ UNCHANGED Good
           /\ UNCHANGED <<InChannel, InHand, deadletter, counted, sent>>
<1>1. /\ q[1] \in Copies /\ outq' = outq \ {q}
      /\ UNCHANGED <<produceChannel, hand, events, deadletter, counted, sent>>
  BY DEF CopyTypes, Deliver, handler
<1>2. q[1] \in InOutq /\ InOutq' = InOutq \ {q[1]}
  BY <1>1 DEF InOutq, Unique
<1>3. UNCHANGED <<InChannel, InHand>>
  BY <1>1 DEF InChannel, InHand
<1>4. \A c : /\ <<c, TRUE>> = <<q[1], TRUE>> <=> c = q[1]
             /\ <<c, FALSE>> = <<q[1], FALSE>> <=> c = q[1]
             /\ <<c, FALSE>> # <<q[1], TRUE>>
             /\ <<c, TRUE>> # <<q[1], FALSE>>
  OBVIOUS
<1>5. CASE /\ topicLog' = topicLog \cup {q}
           /\ reports' = reports \cup {<<q[1], FALSE>>}
  <2>1. Logged' = Logged \cup {q[1]}
    BY <1>5 DEF Logged
  <2>2. Good' = Good \cup {q[1]} /\ UNCHANGED Bad
    BY <1>1, <1>4, <1>5 DEF Good, Bad
  <2> QED
    BY <1>1, <1>2, <1>3, <2>1, <2>2
<1>6. CASE /\ topicLog \subseteq topicLog'
           /\ reports' = reports \cup {<<q[1], TRUE>>}
  <2>1. Logged \subseteq Logged'
    BY <1>6 DEF Logged
  <2>2. Bad' = Bad \cup {q[1]} /\ UNCHANGED Good
    BY <1>1, <1>4, <1>6 DEF Good, Bad
  <2> QED
    BY <1>1, <1>2, <1>3, <2>1, <2>2
<1> QED
  BY <1>5, <1>6 DEF Deliver

(* A report stays what it is when it is polled, and the poller that ends   *)
(* may drop some.                                                          *)
LEMMA PollMoves ==
  ASSUME NEW r \in reports, Poll(r)
  PROVE  UNCHANGED <<InChannel, InHand, InOutq, Good, Bad, deadletter, counted,
                     Logged, sent>>
<1>1. /\ reports' \cup events' = reports \cup events
      /\ UNCHANGED <<produceChannel, hand, outq, topicLog, deadletter, counted,
                     sent>>
  BY DEF Poll, handler
<1> QED
  BY <1>1 DEF InChannel, InHand, InOutq, Good, Bad, Logged

LEMMA EndMoves ==
  ASSUME PollerEnds
  PROVE  /\ Good' \subseteq Good /\ Bad' \subseteq Bad
         /\ UNCHANGED <<InChannel, InHand, InOutq, deadletter, counted, Logged,
                        sent>>
<1>1. /\ reports' \cup events' \subseteq reports \cup events
      /\ UNCHANGED <<produceChannel, hand, outq, topicLog, deadletter, counted,
                     sent>>
  BY DEF PollerEnds, handler
<1> QED
  BY <1>1 DEF InChannel, InHand, InOutq, Good, Bad, Logged

LEMMA HandleMoves ==
  ASSUME CopyTypes, Unique, NEW e \in events, handleEvents(e)
  PROVE  \E c \in Copies :
           /\ \/ c \in Bad /\ Bad' = Bad \ {c} /\ UNCHANGED Good
                 /\ \/ EnableRetry /\ deadletter' = deadletter \cup {c}
                       /\ UNCHANGED counted
                    \/ ~EnableRetry /\ counted' = counted \cup {c}
                       /\ UNCHANGED deadletter
              \/ /\ c \in Good /\ Good' = Good \ {c} /\ UNCHANGED Bad
                 /\ counted' = counted \cup {c} /\ UNCHANGED deadletter
           /\ UNCHANGED <<InChannel, InHand, InOutq, Logged, sent>>
<1>1. /\ e[1] \in Copies /\ events' = events \ {e} /\ e \notin reports
      /\ UNCHANGED <<produceChannel, hand, outq, topicLog, reports, sent>>
  BY DEF CopyTypes, Unique, handleEvents, library, kafka
<1>2. UNCHANGED <<InChannel, InHand, InOutq, Logged>>
  BY <1>1 DEF InChannel, InHand, InOutq, Logged
<1>3. \A c, d : /\ <<c, TRUE>> = <<d, TRUE>> <=> c = d
                /\ <<c, FALSE>> = <<d, FALSE>> <=> c = d
                /\ <<c, FALSE>> # <<d, TRUE>>
  OBVIOUS
<1>4. PICK c \in Copies : e = <<c, TRUE>> \/ e = <<c, FALSE>>
  <2>1. e = <<e[1], e[2]>> /\ e[2] \in BOOLEAN
    BY DEF CopyTypes
  <2>2. e[2] = TRUE \/ e[2] = FALSE
    BY <2>1
  <2> QED
    BY <1>1, <2>1, <2>2
<1>5. CASE e = <<c, TRUE>>
  <2>1. c \in Bad /\ Bad' = Bad \ {c} /\ UNCHANGED Good
    BY <1>1, <1>3, <1>5 DEF Good, Bad
  <2>2. e[1] = c /\ e[2] = TRUE
    BY <1>5
  <2>3. DeliveryFailed(e)
    BY <2>2, Zenon DEF DeliveryFailed
  <2>4. \/ /\ EnableRetry /\ deadletter' = deadletter \cup {c}
           /\ UNCHANGED counted
        \/ /\ ~EnableRetry /\ counted' = counted \cup {c}
           /\ UNCHANGED deadletter
    BY <2>2, <2>3 DEF handleEvents
  <2> QED
    BY <1>1, <1>2, <2>1, <2>4
<1>6. CASE e = <<c, FALSE>>
  <2>1. c \in Good /\ Good' = Good \ {c} /\ UNCHANGED Bad
    BY <1>1, <1>3, <1>6 DEF Good, Bad
  <2>2. e[1] = c /\ e[2] = FALSE
    BY <1>6
  <2>3. ~DeliveryFailed(e)
    BY <2>2, Zenon DEF DeliveryFailed
  <2>4. counted' = counted \cup {c} /\ UNCHANGED deadletter
    BY <2>2, <2>3 DEF handleEvents
  <2> QED
    BY <1>1, <1>2, <2>1, <2>4
<1> QED
  BY <1>4, <1>5, <1>6

LEMMA CloseMoves ==
  ASSUME Close
  PROVE  /\ InOutq' = {} /\ Good' = {} /\ Bad' = {}
         /\ UNCHANGED <<InChannel, InHand, deadletter, counted, Logged, sent>>
BY DEF Close, InOutq, Good, Bad, InChannel, InHand, Logged

(* Each step takes a copy from one owner and gives it to the next. *)
LEMMA OneOwnerStep ==
  ASSUME LoopTypes, CopyTypes, Loops, SentCopies, OneOwner, Unique,
         [MoveStep]_copies
  PROVE  OneOwner'
<1> USE ProducerAssumption
<1>0. ASSUME UNCHANGED copies PROVE OneOwner'
  <2>1. UNCHANGED <<InChannel, InHand, InOutq, Good, Bad, Logged>>
    BY <1>0 DEF copies, library, kafka, InChannel, InHand, InOutq, Good, Bad,
       Logged
  <2> QED
    BY <1>0, <2>1 DEF copies, OneOwner, SettledOnce
<1>1. ASSUME SendToIntegration PROVE OneOwner'
  <2>1. <<cur, name>> \in Copies \ sent
    BY <1>1, NewCopy
  <2>2. SendCopy(<<cur, name>>, "range")
    BY <1>1 DEF SendToIntegration
  <2> QED
    BY <2>1, <2>2, SendMoves DEF OneOwner, SettledOnce
<1>2. ASSUME SendToRetry PROVE OneOwner'
  <2>1. <<cur, Retry>> \in Copies \ sent
    BY <1>2, NewCopy
  <2>2. SendCopy(<<cur, Retry>>, "select")
    BY <1>2 DEF SendToRetry
  <2> QED
    BY <2>1, <2>2, SendMoves DEF OneOwner, SettledOnce
<1>3. ASSUME ReceiveCopy PROVE OneOwner'
  BY <1>3, ReceiveMoves DEF OneOwner, SettledOnce
<1>4. ASSUME Produce PROVE OneOwner'
  BY <1>4, ProduceMoves DEF OneOwner, SettledOnce
<1>5. ASSUME NEW q \in outq, Deliver(q) PROVE OneOwner'
  BY <1>5, DeliverMoves DEF OneOwner, SettledOnce
<1>6. ASSUME NEW e \in events, handleEvents(e) PROVE OneOwner'
  BY <1>6, HandleMoves DEF OneOwner, SettledOnce
<1>8. ASSUME NEW r \in reports, Poll(r) PROVE OneOwner'
  BY <1>8, PollMoves DEF OneOwner, SettledOnce
<1>9. ASSUME PollerEnds PROVE OneOwner'
  BY <1>9, EndMoves DEF OneOwner, SettledOnce
<1>7. ASSUME Close PROVE OneOwner'
  BY <1>7, CloseMoves DEF OneOwner, SettledOnce
<1> QED
  BY <1>0, <1>1, <1>2, <1>3, <1>4, <1>5, <1>6, <1>7, <1>8, <1>9 DEF MoveStep

(* No owner is given a copy it has. *)
LEMMA UniqueStep ==
  ASSUME LoopTypes, CopyTypes, Loops, SentCopies, OneOwner, Unique,
         [MoveStep]_copies
  PROVE  Unique'
<1> USE ProducerAssumption
<1>0. ASSUME UNCHANGED copies PROVE Unique'
  BY <1>0 DEF copies, library, kafka, Unique
<1>1. ASSUME SendToIntegration PROVE Unique'
  <2>1. /\ <<cur, name>> \notin InChannel /\ <<cur, name>> \in Copies
        /\ produceChannel' = Append(produceChannel, <<cur, name>>)
        /\ produceChannel \in Seq(Copies)
        /\ UNCHANGED <<outq, reports, events>>
    BY <1>1, NewCopy DEF OneOwner, SendToIntegration, SendCopy, CopyTypes,
       kafka
  <2>2. \A i \in DOMAIN produceChannel : produceChannel[i] # <<cur, name>>
    BY <2>1 DEF InChannel
  <2> QED
    BY <2>1, <2>2 DEF Unique
<1>2. ASSUME SendToRetry PROVE Unique'
  <2>1. /\ <<cur, Retry>> \notin InChannel /\ <<cur, Retry>> \in Copies
        /\ produceChannel' = Append(produceChannel, <<cur, Retry>>)
        /\ produceChannel \in Seq(Copies)
        /\ UNCHANGED <<outq, reports, events>>
    BY <1>2, NewCopy DEF OneOwner, SendToRetry, SendCopy, CopyTypes, kafka
  <2>2. \A i \in DOMAIN produceChannel : produceChannel[i] # <<cur, Retry>>
    BY <2>1 DEF InChannel
  <2> QED
    BY <2>1, <2>2 DEF Unique
<1>3. ASSUME ReceiveCopy PROVE Unique'
  <2>1. /\ produceChannel \in Seq(Copies) /\ produceChannel # <<>>
        /\ produceChannel' = Tail(produceChannel)
        /\ UNCHANGED <<outq, reports, events>>
    BY <1>3 DEF ReceiveCopy, CopyWaiting, CopyTypes, kafka
  <2>2. \A i \in DOMAIN produceChannel' :
           /\ i + 1 \in DOMAIN produceChannel
           /\ produceChannel'[i] = produceChannel[i + 1]
    BY <2>1
  <2>3. \A i \in DOMAIN produceChannel' : i \in Int
    BY <2>1
  <2> QED
    BY <2>1, <2>2, <2>3 DEF Unique
<1>4. ASSUME Produce PROVE Unique'
  <2>1. /\ hand \in InHand /\ UNCHANGED <<produceChannel, reports>>
        /\ \/ UNCHANGED outq /\ events' = events \cup {<<hand, TRUE>>}
           \/ /\ \E topic : outq' = outq \cup {<<hand, topic>>}
              /\ UNCHANGED events
    BY <1>4 DEF Produce, Reported, InHand
  <2>2. \A q \in outq : q[1] # hand
    BY <2>1 DEF OneOwner, InOutq
  <2>3. <<hand, TRUE>> \notin reports
    BY <2>1 DEF OneOwner, Bad, InHand, CopyTypes
  <2>4. CASE UNCHANGED outq /\ events' = events \cup {<<hand, TRUE>>}
    <3>1. reports' = reports /\ produceChannel' = produceChannel
      BY <2>1
    <3>2. reports' \cap events' = {}
      BY <2>3, <2>4, <3>1 DEF Unique
    <3> QED
      BY <2>4, <3>1, <3>2 DEF Unique
  <2>5. ASSUME NEW topic, outq' = outq \cup {<<hand, topic>>},
               UNCHANGED events
        PROVE  Unique'
    <3>1. \A q, p \in outq' : q[1] = p[1] => q = p
      BY <2>2, <2>5 DEF Unique
    <3> QED
      BY <2>1, <2>5, <3>1 DEF Unique
  <2> QED
    BY <2>1, <2>4, <2>5
<1>5. ASSUME NEW q \in outq, Deliver(q) PROVE Unique'
  <2>1. q[1] \in InOutq /\ q[1] \in Copies
    BY DEF InOutq, CopyTypes
  <2>2. <<q[1], TRUE>> \notin events /\ <<q[1], FALSE>> \notin events
    BY <2>1 DEF OneOwner, Good, Bad
  <2>3. /\ outq' \subseteq outq /\ UNCHANGED <<produceChannel, events>>
        /\ reports' \subseteq reports \cup {<<q[1], TRUE>>, <<q[1], FALSE>>}
    BY <1>5 DEF Deliver
  <2> QED
    BY <2>2, <2>3 DEF Unique
<1>6. ASSUME NEW e \in events, handleEvents(e) PROVE Unique'
  BY <1>6 DEF handleEvents, library, kafka, Unique
<1>8. ASSUME NEW r \in reports, Poll(r) PROVE Unique'
  BY <1>8 DEF Poll, Unique
<1>9. ASSUME PollerEnds PROVE Unique'
  BY <1>9 DEF PollerEnds, Unique
<1>7. ASSUME Close PROVE Unique'
  BY <1>7 DEF Close, Unique
<1> QED
  BY <1>0, <1>1, <1>2, <1>3, <1>4, <1>5, <1>6, <1>7, <1>8, <1>9 DEF MoveStep

LEMMA ReportsOf == CopyTypes => InReports \cup InEvents = Good \cup Bad
<1> SUFFICES ASSUME CopyTypes PROVE InReports \cup InEvents = Good \cup Bad
  OBVIOUS
<1>1. ASSUME NEW e \in reports \cup events PROVE e[1] \in Good \cup Bad
  <2>1. e = <<e[1], e[2]>> /\ e[1] \in Copies /\ e[2] \in BOOLEAN
    BY DEF CopyTypes
  <2>2. e[2] = TRUE \/ e[2] = FALSE
    BY <2>1
  <2> QED
    BY <2>1, <2>2 DEF Good, Bad
<1>2. ASSUME NEW c \in Good \cup Bad PROVE c \in InReports \cup InEvents
  <2>1. PICK b : <<c, b>> \in reports \cup events
    BY <1>2 DEF Good, Bad
  <2>2. <<c, b>>[1] = c
    OBVIOUS
  <2> QED
    BY <2>1, <2>2 DEF InReports, InEvents
<1> QED
  BY <1>1, <1>2 DEF InReports, InEvents

(* The poller that has ended is not started again, and what it runs in is  *)
(* not destroyed before.                                                   *)
LEMMA StaysEnded == [Next]_vars /\ polling' => polling
BY DEF vars, consumer, library, kafka, handler, stop, Next, ConsumerStep,
   CheckShutdown, RunConsumer, ReceiveMessage, NextIntegration,
   AssignIntegration, SendToIntegration, SendToRetry, SendCopy, SendOnClosed,
   HandleMessageReturns, CloseConsumer, ReceiveCopy, Produce, Deliver, Poll,
   PollerEnds, handleEvents, FlushBegin, CloseTermChan, CloseProduceChannel,
   Close, Signal, SetShouldShutdown, MainReturns

(* The copies that have an owner, in the terms of the moves. *)
Owned ==
  InChannel \cup InHand \cup InOutq \cup Good \cup Bad \cup deadletter
    \cup counted

(* While the poller runs, no step drops a copy. *)
LEMMA OwnedStep ==
  ASSUME LoopTypes, CopyTypes, Loops, SentCopies, Unique,
         polling', sent \subseteq Owned, [MoveStep]_copies
  PROVE  (sent \subseteq Owned)'
<1> USE ProducerAssumption
<1>0. ASSUME UNCHANGED copies PROVE (sent \subseteq Owned)'
  BY <1>0 DEF copies, library, kafka, Owned, InChannel, InHand, InOutq,
     Good, Bad
<1>1. ASSUME SendToIntegration PROVE (sent \subseteq Owned)'
  <2>1. <<cur, name>> \in Copies \ sent
    BY <1>1, NewCopy
  <2>2. SendCopy(<<cur, name>>, "range")
    BY <1>1 DEF SendToIntegration
  <2> QED
    BY <2>1, <2>2, SendMoves DEF Owned
<1>2. ASSUME SendToRetry PROVE (sent \subseteq Owned)'
  <2>1. <<cur, Retry>> \in Copies \ sent
    BY <1>2, NewCopy
  <2>2. SendCopy(<<cur, Retry>>, "select")
    BY <1>2 DEF SendToRetry
  <2> QED
    BY <2>1, <2>2, SendMoves DEF Owned
<1>3. ASSUME ReceiveCopy PROVE (sent \subseteq Owned)'
  BY <1>3, ReceiveMoves DEF Owned
<1>4. ASSUME Produce PROVE (sent \subseteq Owned)'
  BY <1>4, ProduceMoves DEF Owned
<1>5. ASSUME NEW q \in outq, Deliver(q) PROVE (sent \subseteq Owned)'
  BY <1>5, DeliverMoves DEF Owned
<1>6. ASSUME NEW e \in events, handleEvents(e) PROVE (sent \subseteq Owned)'
  BY <1>6, HandleMoves DEF Owned
<1>8. ASSUME NEW r \in reports, Poll(r) PROVE (sent \subseteq Owned)'
  BY <1>8, PollMoves DEF Owned
<1>9. ASSUME PollerEnds PROVE (sent \subseteq Owned)'
  BY <1>9 DEF PollerEnds
<1>7. ASSUME Close PROVE (sent \subseteq Owned)'
  BY <1>7 DEF Close, Terminated
<1> QED
  BY <1>0, <1>1, <1>2, <1>3, <1>4, <1>5, <1>6, <1>7, <1>8, <1>9 DEF MoveStep

LEMMA NothingLostStep ==
  ASSUME LoopTypes, CopyTypes, CopyTypes', Loops, SentCopies, Unique,
         NothingLost, [Next]_vars
  PROVE  NothingLost'
<1> SUFFICES ASSUME polling' PROVE Lost' = {}
  BY DEF NothingLost
<1>1. sent \subseteq Owned
  BY StaysEnded, ReportsOf DEF NothingLost, Lost, Owned
<1>2. (sent \subseteq Owned)'
  BY <1>1, Frames, OwnedStep
<1>3. (CopyTypes => InReports \cup InEvents = Good \cup Bad)'
  BY ReportsOf, PTL
<1> QED
  BY <1>2, <1>3 DEF Lost, Owned

-----------------------------------------------------------------------------
(* One more element, and one less. *)
LEMMA OneMore ==
  ASSUME NEW S, NEW x, IsFiniteSet(S)
  PROVE  /\ IsFiniteSet(S \cup {x})
         /\ Cardinality(S) \in Nat
         /\ Cardinality(S \cup {x}) \in {Cardinality(S), Cardinality(S) + 1}
         /\ x \notin S => Cardinality(S \cup {x}) = Cardinality(S) + 1
<1>1. /\ IsFiniteSet(S \cup {x})
      /\ Cardinality(S \cup {x}) =
           IF x \in S THEN Cardinality(S) ELSE Cardinality(S) + 1
  BY FS_AddElement
<1>2. Cardinality(S) \in Nat
  BY FS_CardinalityType
<1> QED
  BY <1>1, <1>2

LEMMA OneLess ==
  ASSUME NEW S, NEW x \in S, IsFiniteSet(S)
  PROVE  /\ IsFiniteSet(S \ {x})
         /\ Cardinality(S) \in Nat /\ Cardinality(S \ {x}) \in Nat
         /\ Cardinality(S \ {x}) = Cardinality(S) - 1
<1>1. /\ IsFiniteSet(S \ {x}) /\ Cardinality(S \ {x}) = Cardinality(S) - 1
  BY FS_RemoveElement
<1>2. Cardinality(S) \in Nat /\ Cardinality(S \ {x}) \in Nat
  BY <1>1, FS_CardinalityType
<1> QED
  BY <1>1, <1>2

LEMMA SomeLess ==
  ASSUME NEW T, IsFiniteSet(T), NEW U \in SUBSET T
  PROVE  /\ IsFiniteSet(U)
         /\ \E d \in Nat : Cardinality(U) = Cardinality(T) - d
<1>1. \A s, t \in Nat : s <= t => t - s \in Nat /\ s = t - (t - s)
  OBVIOUS
<1>2. /\ IsFiniteSet(U) /\ Cardinality(U) \in Nat /\ Cardinality(T) \in Nat
      /\ Cardinality(U) <= Cardinality(T)
  BY FS_Subset, FS_CardinalityType
<1> QED
  BY <1>1, <1>2

LEMMA HandCount ==
  /\ hand = Nil => Cardinality(InHand) = 0
  /\ hand # Nil => Cardinality(InHand) = 1
<1>1. hand = Nil => InHand = {}
  BY DEF InHand
<1>2. hand # Nil => InHand = {hand}
  BY DEF InHand
<1> QED
  BY <1>1, <1>2, FS_EmptySet, FS_Singleton

LEMMA Counts ==
  ASSUME CopyTypes, Finite
  PROVE  /\ Len(produceChannel) \in Nat
         /\ Cardinality(InHand) \in Nat
         /\ Cardinality(outq) \in Nat /\ Cardinality(reports) \in Nat
         /\ Cardinality(events) \in Nat
         /\ Cardinality(deadletter) \in Nat /\ Cardinality(counted) \in Nat
         /\ Cardinality(sent) \in Nat
BY HandCount, FS_CardinalityType DEF CopyTypes, Finite

(* A step that gives a copy to an owner takes it from another, or it is    *)
(* new.                                                                    *)
LEMMA BalanceStep ==
  ASSUME LoopTypes, CopyTypes, Loops, SentCopies, Finite, Balance,
         [MoveStep]_copies
  PROVE  Finite' /\ Balance'
<1> DEFINE L == Len(produceChannel)
           H == Cardinality(InHand)
           O == Cardinality(outq)
           R == Cardinality(reports)
           E == Cardinality(events)
           D == Cardinality(deadletter)
           C == Cardinality(counted)
           S == Cardinality(sent)
<1>a. /\ L \in Nat /\ H \in Nat /\ O \in Nat /\ R \in Nat /\ E \in Nat
      /\ D \in Nat /\ C \in Nat /\ S \in Nat
  BY Counts
<1>b. L + H + O + R + E + D + C <= S
  BY DEF Balance
<1>c. Balance' <=> L' + H' + O' + R' + E' + D' + C' <= S'
  BY DEF Balance
<1>d. /\ hand' = Nil => H' = 0
      /\ hand' # Nil => H' = 1
  <2>1. (/\ hand = Nil => Cardinality(InHand) = 0
         /\ hand # Nil => Cardinality(InHand) = 1)'
    BY HandCount, PTL
  <2> QED
    BY <2>1
<1> HIDE DEF L, H, O, R, E, D, C, S
<1>0. ASSUME UNCHANGED copies PROVE Finite' /\ Balance'
  <2>1. UNCHANGED <<L, H, O, R, E, D, C, S>>
    BY <1>0 DEF copies, library, kafka, InHand, L, H, O, R, E, D, C, S
  <2>2. Balance'
    BY <1>a, <1>b, <1>c, <2>1
  <2> QED
    BY <1>0, <2>2 DEF copies, library, kafka, Finite
<1>1. ASSUME SendToIntegration PROVE Finite' /\ Balance'
  <2>1. /\ sent' = sent \cup {<<cur, name>>} /\ <<cur, name>> \notin sent
        /\ produceChannel' = Append(produceChannel, <<cur, name>>)
        /\ produceChannel \in Seq(Copies)
        /\ UNCHANGED <<hand, outq, reports, events, deadletter, counted>>
    BY <1>1, NewCopy DEF SendToIntegration, SendCopy, handler, kafka, CopyTypes
  <2>2. L' = L + 1
    BY <2>1 DEF L
  <2>3. IsFiniteSet(sent') /\ S' = S + 1
    BY <2>1, OneMore DEF Finite, S
  <2>4. UNCHANGED <<H, O, R, E, D, C>>
    BY <2>1 DEF InHand, H, O, R, E, D, C
  <2>5. Balance'
    BY <1>a, <1>b, <1>c, <2>2, <2>3, <2>4
  <2> QED
    BY <2>1, <2>3, <2>5 DEF Finite
<1>2. ASSUME SendToRetry PROVE Finite' /\ Balance'
  <2>1. /\ sent' = sent \cup {<<cur, Retry>>} /\ <<cur, Retry>> \notin sent
        /\ produceChannel' = Append(produceChannel, <<cur, Retry>>)
        /\ produceChannel \in Seq(Copies)
        /\ UNCHANGED <<hand, outq, reports, events, deadletter, counted>>
    BY <1>2, NewCopy DEF SendToRetry, SendCopy, handler, kafka, CopyTypes
  <2>2. L' = L + 1
    BY <2>1 DEF L
  <2>3. IsFiniteSet(sent') /\ S' = S + 1
    BY <2>1, OneMore DEF Finite, S
  <2>4. UNCHANGED <<H, O, R, E, D, C>>
    BY <2>1 DEF InHand, H, O, R, E, D, C
  <2>5. Balance'
    BY <1>a, <1>b, <1>c, <2>2, <2>3, <2>4
  <2> QED
    BY <2>1, <2>3, <2>5 DEF Finite
<1>3. ASSUME ReceiveCopy PROVE Finite' /\ Balance'
  <2>1. /\ hand = Nil /\ produceChannel # <<>>
        /\ produceChannel \in Seq(Copies)
        /\ produceChannel' = Tail(produceChannel)
        /\ UNCHANGED <<outq, reports, events, deadletter, counted, sent>>
    BY <1>3 DEF ReceiveCopy, CopyWaiting, handler, kafka, CopyTypes
  <2>2. L' = L - 1
    BY <2>1 DEF L
  <2>3. H = 0 /\ (H' = 0 \/ H' = 1)
    BY <1>d, <2>1, HandCount DEF H
  <2>4. UNCHANGED <<O, R, E, D, C, S>>
    BY <2>1 DEF O, R, E, D, C, S
  <2>5. Balance'
    BY <1>a, <1>b, <1>c, <2>2, <2>3, <2>4
  <2> QED
    BY <2>1, <2>5 DEF Finite
<1>4. ASSUME Produce PROVE Finite' /\ Balance'
  <2>1. /\ hand # Nil /\ hand' = Nil
        /\ UNCHANGED <<produceChannel, reports, deadletter, counted, sent>>
    BY <1>4 DEF Produce, handler
  <2>2. H = 1 /\ H' = 0 /\ UNCHANGED <<L, R, D, C, S>>
    BY <1>d, <2>1, HandCount DEF L, H, R, D, C, S
  <2>3. ASSUME NEW x, outq' = outq \cup {x}, UNCHANGED events
        PROVE  Finite' /\ Balance'
    <3>1. IsFiniteSet(outq') /\ O' \in {O, O + 1} /\ E' = E
      BY <2>3, OneMore DEF Finite, O, E
    <3>2. Balance'
      <4>1. CASE O' = O
        BY <1>a, <1>b, <1>c, <2>2, <3>1, <4>1
      <4>2. CASE O' = O + 1
        BY <1>a, <1>b, <1>c, <2>2, <3>1, <4>2
      <4> QED
        BY <3>1, <4>1, <4>2
    <3> QED
      BY <2>1, <2>3, <3>1, <3>2 DEF Finite
  <2>4. ASSUME NEW x, events' = events \cup {x}, UNCHANGED outq
        PROVE  Finite' /\ Balance'
    <3>1. IsFiniteSet(events') /\ E' \in {E, E + 1} /\ O' = O
      BY <2>4, OneMore DEF Finite, O, E
    <3>2. Balance'
      <4>1. CASE E' = E
        BY <1>a, <1>b, <1>c, <2>2, <3>1, <4>1
      <4>2. CASE E' = E + 1
        BY <1>a, <1>b, <1>c, <2>2, <3>1, <4>2
      <4> QED
        BY <3>1, <4>1, <4>2
    <3> QED
      BY <2>1, <2>4, <3>1, <3>2 DEF Finite
  <2> QED
    BY <1>4, <2>3, <2>4 DEF Produce, Reported
<1>5. ASSUME NEW q \in outq, Deliver(q) PROVE Finite' /\ Balance'
  <2>1. /\ outq' = outq \ {q} /\ \E x : reports' = reports \cup {x}
        /\ UNCHANGED <<produceChannel, InHand, events, deadletter, counted,
                       sent>>
    BY <1>5 DEF Deliver, handler, InHand
  <2>2. PICK x : reports' = reports \cup {x}
    BY <2>1
  <2>3. IsFiniteSet(outq') /\ O' \in Nat /\ O' = O - 1
    BY <1>a, <2>1, OneLess DEF Finite, O
  <2>4. IsFiniteSet(reports') /\ R' \in {R, R + 1}
    BY <2>2, OneMore DEF Finite, R
  <2>5. UNCHANGED <<L, H, E, D, C, S>>
    BY <2>1 DEF L, H, E, D, C, S
  <2>6. Balance'
    <3>1. CASE R' = R
      BY <1>a, <1>b, <1>c, <2>3, <2>5, <3>1
    <3>2. CASE R' = R + 1
      BY <1>a, <1>b, <1>c, <2>3, <2>5, <3>2
    <3> QED
      BY <2>4, <3>1, <3>2
  <2> QED
    BY <2>1, <2>3, <2>4, <2>6 DEF Finite
<1>8. ASSUME NEW r \in reports, Poll(r) PROVE Finite' /\ Balance'
  <2>1. /\ reports' = reports \ {r} /\ events' = events \cup {r}
        /\ UNCHANGED <<produceChannel, InHand, outq, deadletter, counted,
                       sent>>
    BY <1>8 DEF Poll, handler, InHand
  <2>2. IsFiniteSet(reports') /\ R' \in Nat /\ R' = R - 1
    BY <1>a, <2>1, OneLess DEF Finite, R
  <2>3. IsFiniteSet(events') /\ E' \in {E, E + 1}
    BY <2>1, OneMore DEF Finite, E
  <2>4. UNCHANGED <<L, H, O, D, C, S>>
    BY <2>1 DEF L, H, O, D, C, S
  <2>5. Balance'
    <3>1. CASE E' = E
      BY <1>a, <1>b, <1>c, <2>2, <2>4, <3>1
    <3>2. CASE E' = E + 1
      BY <1>a, <1>b, <1>c, <2>2, <2>4, <3>2
    <3> QED
      BY <2>3, <3>1, <3>2
  <2> QED
    BY <2>1, <2>2, <2>3, <2>5 DEF Finite
<1>9. ASSUME PollerEnds PROVE Finite' /\ Balance'
  <2>1. /\ reports' \subseteq reports
        /\ UNCHANGED <<produceChannel, InHand, outq, events, deadletter,
                       counted, sent>>
    BY <1>9 DEF PollerEnds, handler, InHand
  <2>2. IsFiniteSet(reports') /\ \E d \in Nat : R' = R - d
    BY <2>1, SomeLess DEF Finite, R
  <2>3. UNCHANGED <<L, H, O, E, D, C, S>>
    BY <2>1 DEF L, H, O, E, D, C, S
  <2>4. PICK d \in Nat : R' = R - d
    BY <2>2
  <2>5. Balance'
    BY <1>a, <1>b, <1>c, <2>3, <2>4
  <2> QED
    BY <2>1, <2>2, <2>5 DEF Finite
<1>6. ASSUME NEW e \in events, handleEvents(e) PROVE Finite' /\ Balance'
  <2>1. /\ events' = events \ {e}
        /\ UNCHANGED <<produceChannel, InHand, outq, reports, sent>>
        /\ \/ deadletter' = deadletter \cup {e[1]} /\ UNCHANGED counted
           \/ counted' = counted \cup {e[1]} /\ UNCHANGED deadletter
    BY <1>6 DEF handleEvents, library, kafka, InHand
  <2>2. IsFiniteSet(events') /\ E' \in Nat /\ E' = E - 1
    BY <1>a, <2>1, OneLess DEF Finite, E
  <2>3. UNCHANGED <<L, H, O, R, S>>
    BY <2>1 DEF L, H, O, R, S
  <2>4. CASE deadletter' = deadletter \cup {e[1]} /\ UNCHANGED counted
    <3>1. IsFiniteSet(deadletter') /\ D' \in {D, D + 1} /\ C' = C
      BY <2>4, OneMore DEF Finite, D, C
    <3>2. Balance'
      <4>1. CASE D' = D
        BY <1>a, <1>b, <1>c, <2>2, <2>3, <3>1, <4>1
      <4>2. CASE D' = D + 1
        BY <1>a, <1>b, <1>c, <2>2, <2>3, <3>1, <4>2
      <4> QED
        BY <3>1, <4>1, <4>2
    <3> QED
      BY <2>1, <2>2, <2>4, <3>1, <3>2 DEF Finite
  <2>5. CASE counted' = counted \cup {e[1]} /\ UNCHANGED deadletter
    <3>1. IsFiniteSet(counted') /\ C' \in {C, C + 1} /\ D' = D
      BY <2>5, OneMore DEF Finite, D, C
    <3>2. Balance'
      <4>1. CASE C' = C
        BY <1>a, <1>b, <1>c, <2>2, <2>3, <3>1, <4>1
      <4>2. CASE C' = C + 1
        BY <1>a, <1>b, <1>c, <2>2, <2>3, <3>1, <4>2
      <4> QED
        BY <3>1, <4>1, <4>2
    <3> QED
      BY <2>1, <2>2, <2>5, <3>1, <3>2 DEF Finite
  <2> QED
    BY <2>1, <2>4, <2>5
<1>7. ASSUME Close PROVE Finite' /\ Balance'
  <2>1. /\ outq' = {} /\ reports' = {} /\ events' = {}
        /\ UNCHANGED <<produceChannel, InHand, deadletter, counted, sent>>
    BY <1>7 DEF Close, InHand
  <2>2. O' = 0 /\ R' = 0 /\ E' = 0
    BY <2>1, FS_EmptySet DEF O, R, E
  <2>3. UNCHANGED <<L, H, D, C, S>>
    BY <2>1 DEF L, H, D, C, S
  <2>4. Balance'
    BY <1>a, <1>b, <1>c, <2>2, <2>3
  <2> QED
    BY <2>1, <2>4, FS_EmptySet DEF Finite
<1> QED
  BY <1>0, <1>1, <1>2, <1>3, <1>4, <1>5, <1>6, <1>7, <1>8, <1>9 DEF MoveStep

-----------------------------------------------------------------------------
(* The flags of the shutdown. *)
LEMMA FlagTypesStep ==
  ASSUME FlagTypes, [Next]_vars
  PROVE  FlagTypes'
<1> USE DEF FlagTypes
<1>0. ASSUME UNCHANGED vars PROVE FlagTypes'
  BY <1>0 DEF vars, consumer, library, kafka, handler, stop
<1>1. ASSUME CheckShutdown PROVE FlagTypes'
  BY <1>1 DEF CheckShutdown, consumer, library, kafka, handler, stop
<1>2. ASSUME RunConsumer PROVE FlagTypes'
  BY <1>2 DEF RunConsumer, KeepsConsumer,
     consumer, library, kafka, handler, stop
<1>3. ASSUME NEW m \in inbox, ReceiveMessage(m) PROVE FlagTypes'
  BY <1>3 DEF ReceiveMessage, consumer, library, kafka, handler, stop
<1>4. ASSUME NEW n \in Names, NextIntegration(n) PROVE FlagTypes'
  BY <1>4 DEF NextIntegration, consumer, library, kafka, handler, stop
<1>5. ASSUME AssignIntegration PROVE FlagTypes'
  BY <1>5 DEF AssignIntegration, consumer, library, kafka, handler, stop
<1>6. ASSUME SendToIntegration PROVE FlagTypes'
  BY <1>6 DEF SendToIntegration, SendCopy,
     consumer, library, kafka, handler, stop
<1>7. ASSUME SendToRetry PROVE FlagTypes'
  BY <1>7 DEF SendToRetry, SendCopy, consumer, library, kafka, handler, stop
<1>8. ASSUME SendOnClosed PROVE FlagTypes'
  BY <1>8 DEF SendOnClosed, consumer, library, kafka, handler, stop
<1>9. ASSUME HandleMessageReturns PROVE FlagTypes'
  BY <1>9 DEF HandleMessageReturns, consumer, library, kafka, handler, stop
<1>10. ASSUME CloseConsumer PROVE FlagTypes'
  BY <1>10 DEF CloseConsumer, consumer, library, kafka, handler, stop
<1>11. ASSUME ReceiveCopy PROVE FlagTypes'
  BY <1>11 DEF ReceiveCopy, CopyWaiting,
     consumer, library, kafka, handler, stop
<1>12. ASSUME Produce PROVE FlagTypes'
  BY <1>12 DEF Produce, Reported, consumer, library, kafka, handler, stop
<1>13. ASSUME NEW q \in outq, Deliver(q) PROVE FlagTypes'
  BY <1>13 DEF Deliver, consumer, library, kafka, handler, stop
<1>14. ASSUME NEW e \in events, handleEvents(e) PROVE FlagTypes'
  BY <1>14 DEF handleEvents, consumer, library, kafka, handler, stop
<1>15. ASSUME FlushBegin PROVE FlagTypes'
  BY <1>15 DEF FlushBegin, consumer, library, kafka, handler, stop
<1>16. ASSUME CloseTermChan PROVE FlagTypes'
  BY <1>16 DEF CloseTermChan, consumer, library, kafka, handler, stop
<1>21. ASSUME CloseProduceChannel PROVE FlagTypes'
  BY <1>21 DEF CloseProduceChannel, consumer, library, kafka, handler, stop
<1>22. ASSUME NEW r \in reports, Poll(r) PROVE FlagTypes'
  BY <1>22 DEF Poll, consumer, library, kafka, handler, stop
<1>23. ASSUME PollerEnds PROVE FlagTypes'
  BY <1>23 DEF PollerEnds, consumer, library, kafka, handler, stop
<1>17. ASSUME Close PROVE FlagTypes'
  BY <1>17 DEF Close, Terminated, consumer, library, kafka, handler, stop
<1>18. ASSUME Signal PROVE FlagTypes'
  BY <1>18 DEF Signal, consumer, library, kafka, handler, stop
<1>19. ASSUME SetShouldShutdown PROVE FlagTypes'
  BY <1>19 DEF SetShouldShutdown, consumer, library, kafka, handler, stop
<1>20. ASSUME MainReturns PROVE FlagTypes'
  BY <1>20 DEF MainReturns, consumer, library, kafka, handler, stop
<1> QED
  BY <1>0, <1>1, <1>2, <1>3, <1>4, <1>5, <1>6, <1>7, <1>8, <1>9, <1>10,
     <1>11, <1>12, <1>13, <1>14, <1>15, <1>16, <1>17, <1>18, <1>19, <1>20,
     <1>21, <1>22, <1>23 DEF Next, ConsumerStep

(* handleEvents and `start' stop only after the signal, and the producer   *)
(* is destroyed with nothing in it.                                        *)
LEMMA StoppingStep ==
  ASSUME CopyTypes, FlagTypes, Stopping, [Next]_vars
  PROVE  Stopping'
<1> USE DEF CopyTypes, FlagTypes, Stopping, NoUseAfterDestroy,
    RestartIsSafe, Running, terminating, closed
<1>0. ASSUME UNCHANGED vars PROVE Stopping'
  BY <1>0 DEF vars, consumer, library, kafka, handler, stop
<1>1. ASSUME CheckShutdown PROVE Stopping'
  BY <1>1 DEF CheckShutdown, consumer, library, kafka, handler, stop
<1>2. ASSUME RunConsumer PROVE Stopping'
  BY <1>2 DEF RunConsumer, KeepsConsumer,
     consumer, library, kafka, handler, stop
<1>3. ASSUME NEW m \in inbox, ReceiveMessage(m) PROVE Stopping'
  BY <1>3 DEF ReceiveMessage, consumer, library, kafka, handler, stop
<1>4. ASSUME NEW n \in Names, NextIntegration(n) PROVE Stopping'
  BY <1>4 DEF NextIntegration, consumer, library, kafka, handler, stop
<1>5. ASSUME AssignIntegration PROVE Stopping'
  BY <1>5 DEF AssignIntegration, consumer, library, kafka, handler, stop
<1>6. ASSUME SendToIntegration PROVE Stopping'
  BY <1>6 DEF SendToIntegration, SendCopy,
     consumer, library, kafka, handler, stop
<1>7. ASSUME SendToRetry PROVE Stopping'
  BY <1>7 DEF SendToRetry, SendCopy, consumer, library, kafka, handler, stop
<1>8. ASSUME SendOnClosed PROVE Stopping'
  BY <1>8 DEF SendOnClosed, consumer, library, kafka, handler, stop
<1>9. ASSUME HandleMessageReturns PROVE Stopping'
  BY <1>9 DEF HandleMessageReturns, consumer, library, kafka, handler, stop
<1>10. ASSUME CloseConsumer PROVE Stopping'
  BY <1>10 DEF CloseConsumer, consumer, library, kafka, handler, stop
<1>11. ASSUME ReceiveCopy PROVE Stopping'
  BY <1>11 DEF ReceiveCopy, CopyWaiting,
     consumer, library, kafka, handler, stop
<1>12. ASSUME Produce PROVE Stopping'
  BY <1>12 DEF Produce, Reported, consumer, library, kafka, handler, stop
<1>13. ASSUME NEW q \in outq, Deliver(q) PROVE Stopping'
  BY <1>13 DEF Deliver, consumer, library, kafka, handler, stop
<1>14. ASSUME NEW e \in events, handleEvents(e) PROVE Stopping'
  BY <1>14 DEF handleEvents, consumer, library, kafka, handler, stop
<1>15. ASSUME FlushBegin PROVE Stopping'
  BY <1>15 DEF FlushBegin, consumer, library, kafka, handler, stop
<1>16. ASSUME CloseTermChan PROVE Stopping'
  BY <1>16 DEF CloseTermChan, consumer, library, kafka, handler, stop
<1>21. ASSUME CloseProduceChannel PROVE Stopping'
  BY <1>21 DEF CloseProduceChannel, consumer, library, kafka, handler, stop
<1>22. ASSUME NEW r \in reports, Poll(r) PROVE Stopping'
  BY <1>22 DEF Poll, consumer, library, kafka, handler, stop
<1>23. ASSUME PollerEnds PROVE Stopping'
  BY <1>23 DEF PollerEnds, consumer, library, kafka, handler, stop
<1>17. ASSUME Close PROVE Stopping'
  BY <1>17 DEF Close, Terminated, consumer, library, kafka, handler, stop
<1>18. ASSUME Signal PROVE Stopping'
  BY <1>18 DEF Signal, consumer, library, kafka, handler, stop
<1>19. ASSUME SetShouldShutdown PROVE Stopping'
  BY <1>19 DEF SetShouldShutdown, consumer, library, kafka, handler, stop
<1>20. ASSUME MainReturns PROVE Stopping'
  BY <1>20 DEF MainReturns, consumer, library, kafka, handler, stop
<1> QED
  BY <1>0, <1>1, <1>2, <1>3, <1>4, <1>5, <1>6, <1>7, <1>8, <1>9, <1>10,
     <1>11, <1>12, <1>13, <1>14, <1>15, <1>16, <1>17, <1>18, <1>19, <1>20,
     <1>21, <1>22, <1>23 DEF Next, ConsumerStep

-----------------------------------------------------------------------------
LEMMA PInvInit == Init => PInv
<1> SUFFICES ASSUME Init PROVE PInv
  OBVIOUS
<1> USE DEF Init
<1>1. TypeOK
  <2>1. produceChannel \in Seq(Copies) /\ Len(produceChannel) <= ChannelSize
    BY ProducerAssumption
  <2>2. visited \in [Messages -> Seq(Names)]
    <3>1. <<>> \in Seq(Names)
      OBVIOUS
    <3> QED
      BY <3>1
  <2>3. LoopTypes
    BY <2>2 DEF LoopTypes
  <2>4. CopyTypes /\ FlagTypes
    BY <2>1 DEF CopyTypes, FlagTypes
  <2> QED
    BY <2>3, <2>4, TypesSplit
<1>2. Stopping
  BY DEF Stopping, NoUseAfterDestroy, RestartIsSafe, Running, terminating
<1>3. Loops /\ LoopVariable
  <2>1. \A m \in Messages : visited[m] = <<>> /\ integration[m] = Nil
    OBVIOUS
  <2>2. \A m \in Messages : Assigned(m) = 0
    BY <2>1 DEF Assigned
  <2> QED
    BY <2>1, <2>2 DEF Loops, LoopVariable, InHandleMessage
<1>4. SentCopies /\ Aliases
  BY DEF SentCopies, Aliases
<1>5. /\ InChannel = {} /\ InHand = {} /\ InOutq = {}
      /\ Good = {} /\ Bad = {} /\ Logged = {}
  BY DEF InChannel, InHand, InOutq, Good, Bad, Logged
<1>6. OneOwner /\ Unique
  BY <1>5 DEF OneOwner, Unique, SettledOnce
<1>7. NothingLost
  BY DEF NothingLost, Lost
<1>8. Finite
  BY FS_EmptySet DEF Finite
<1>9. Balance
  <2>1. Cardinality({}) = 0
    BY FS_EmptySet
  <2> QED
    BY <1>5, <2>1 DEF Balance
<1> QED
  BY <1>1, <1>2, <1>3, <1>4, <1>6, <1>7, <1>8, <1>9 DEF PInv

LEMMA PInvStep == PInv /\ [Next]_vars => PInv'
<1> SUFFICES ASSUME PInv, [Next]_vars PROVE PInv'
  OBVIOUS
<1>1. /\ LoopTypes /\ CopyTypes /\ FlagTypes
      /\ Stopping /\ Loops /\ LoopVariable /\ SentCopies /\ Aliases
      /\ OneOwner /\ Unique /\ NothingLost /\ Finite /\ Balance
  BY TypesSplit DEF PInv
<1>2. [LoopStep]_<<consumer, sent>> /\ [MoveStep]_copies
  BY Frames
<1>3. LoopTypes' /\ Loops'
  BY <1>1, <1>2, LoopTypesStep, LoopsStep
<1>4. LoopVariable' /\ SentCopies'
  BY <1>1, <1>2, LoopVariableStep, SentCopiesStep
<1>5. CopyTypes' /\ Aliases'
  BY <1>1, <1>2, CopyTypesStep, AliasesStep
<1>6. OneOwner' /\ Unique'
  BY <1>1, <1>2, OneOwnerStep, UniqueStep
<1>7. NothingLost'
  BY <1>1, <1>5, NothingLostStep
<1>8. Finite' /\ Balance'
  BY <1>1, <1>2, BalanceStep
<1>9. FlagTypes' /\ Stopping'
  BY <1>1, FlagTypesStep, StoppingStep
<1>10. (TypeOK <=> LoopTypes /\ CopyTypes /\ FlagTypes)'
  BY TypesSplit, PTL
<1> QED
  BY <1>3, <1>4, <1>5, <1>6, <1>7, <1>8, <1>9, <1>10 DEF PInv

LEMMA PInvAlways == Spec => []PInv
BY PInvInit, PInvStep, PTL DEF Spec

(* The variables of the message path keep their types, and the produce     *)
(* channel never holds more than its size.                                 *)
THEOREM TypeCorrect == Spec => []TypeOK
<1>1. PInv => TypeOK
  BY DEF PInv
<1> QED
  BY <1>1, PInvAlways, PTL

(* However often the loop of `start' restarts the consumer, the process    *)
(* lives and its consumer is open until a shutdown.                        *)
THEOREM RestartsAreSafe == Spec => []RestartIsSafe
<1>1. PInv => RestartIsSafe
  BY DEF PInv, Stopping
<1> QED
  BY <1>1, PInvAlways, PTL

(* Producer.Close leaves nothing that would use the destroyed producer.    *)
THEOREM NothingAfterDestroy == Spec => []NoUseAfterDestroy
<1>1. PInv => NoUseAfterDestroy
  BY DEF PInv, Stopping
<1> QED
  BY <1>1, PInvAlways, PTL

(* handleEvents does one thing with a copy, once, and with --retry what it *)
(* is done with is in its topic or in the dead letter queue.               *)
THEOREM CopySettledOnce == Spec => []SettledOnce
<1>1. PInv => SettledOnce
  BY DEF PInv, OneOwner
<1> QED
  BY <1>1, PInvAlways, PTL

(* No copy is without an owner while the poller runs, none has two, and    *)
(* the poller runs until Close tells it to end.                            *)
THEOREM OneOwnerAlways == Spec => []CopyHasOneOwner
<1>1. PInv => CopyHasOneOwner
  BY DEF PInv, Stopping, NothingLost, Balance, CopyHasOneOwner
<1> QED
  BY <1>1, PInvAlways, PTL

-----------------------------------------------------------------------------
(* The topic of a copy that has been produced. *)
LEMMA TopicOfCopy ==
  ASSUME PInv, NEW q \in outq \cup topicLog
  PROVE  /\ q[1] \in Copies /\ q[1][1] \in Messages
         /\ q[1][2] \in Names \cup {Retry}
         /\ Forward(q)
         /\ \A n \in DOMAIN integrations[q[1][1]] :
              integrations[q[1][1]][n] \in Topics
<1>1. q[1] \in Copies
  BY DEF PInv, TypeOK
<1>2. q[1][1] \in Messages /\ q[1][2] \in Names \cup {Retry}
  BY <1>1 DEF Copies
<1>3. Forward(q)
  BY DEF PInv, Aliases
<1>4. LoopTypes
  BY TypesSplit DEF PInv
<1> QED
  BY <1>1, <1>2, <1>3, <1>4, TopicOfName

(* The shared loop variable moves a copy only to a topic of its own        *)
(* message and of a later round.                                           *)
THEOREM OnlyForward == Spec => []AliasOnlyForward
<1>1. PInv => AliasOnlyForward
  <2> SUFFICES ASSUME PInv, NEW q \in outq \cup topicLog, q[1][2] # Retry,
                      q[2] # Torn
               PROVE  \E i, j \in DOMAIN visited[q[1][1]] :
                        /\ i <= j
                        /\ visited[q[1][1]][i] = q[1][2]
                        /\ q[2] = integrations[q[1][1]][visited[q[1][1]][j]]
    BY DEF AliasOnlyForward
  <2>1. Forward(q)
    BY TopicOfCopy
  <2> QED
    BY <2>1 DEF Forward
<1> QED
  BY <1>1, PInvAlways, PTL

(* A message goes to its integrations or to the retry topic, and only the  *)
(* copy for the retry topic gets there.                                    *)
THEOREM RetryAlone == Spec => []RetryIsExclusive
<1>1. PInv => RetryIsExclusive
  <2> SUFFICES ASSUME PInv PROVE RetryIsExclusive
    OBVIOUS
  <2>1. ASSUME NEW c \in sent, c[2] = Retry, NEW d \in sent, d[1] = c[1]
        PROVE  d = c
    <3>1. c \in Copies /\ d \in Copies
      BY DEF PInv, TypeOK
    <3>2. visited[c[1]] = <<>>
      BY <2>1 DEF PInv, SentCopies
    <3>3. ASSUME d[2] # Retry PROVE FALSE
      <4>1. PICK i \in 1..Over(d[1]) : visited[d[1]][i] = d[2]
        BY <3>3 DEF PInv, SentCopies
      <4>2. Over(d[1]) <= 0
        BY <2>1, <3>2 DEF Over
      <4> QED
        BY <4>1, <4>2, <2>1, <3>2 DEF Over
    <3> QED
      BY <2>1, <3>1, <3>3 DEF Copies
  <2>2. ASSUME NEW q \in outq \cup topicLog
        PROVE  q[1][2] = Retry <=> q[2] = RetryTopic
    <3>1. /\ Forward(q)
          /\ \A n \in DOMAIN integrations[q[1][1]] :
               integrations[q[1][1]][n] \in Topics
          /\ q[1][1] \in Messages
      BY TopicOfCopy
    <3>2. CASE q[1][2] = Retry
      BY <3>1, <3>2 DEF Forward
    <3>3. CASE q[1][2] # Retry
      <4>1. PICK j \in DOMAIN visited[q[1][1]] :
                   \/ q[2] = Torn
                   \/ q[2] = integrations[q[1][1]][visited[q[1][1]][j]]
        BY <3>1, <3>3 DEF Forward
      <4>2. visited[q[1][1]][j] \in DOMAIN integrations[q[1][1]]
        BY <3>1, <4>1 DEF PInv, Loops
      <4>3. q[2] = Torn \/ q[2] \in Topics
        BY <3>1, <4>1, <4>2
      <4> QED
        BY <3>3, <4>3, ProducerAssumption
    <3> QED
      BY <3>2, <3>3
  <2> QED
    BY <2>1, <2>2 DEF RetryIsExclusive
<1> QED
  BY <1>1, PInvAlways, PTL

(* An app with one integration is served right however the goroutines run. *)
THEOREM SingleExact == Spec => []SingleIntegrationExact
<1>1. PInv => SingleIntegrationExact
  <2> SUFFICES ASSUME PInv, NEW q \in outq \cup topicLog,
                      q[1][2] # Retry,
                      Cardinality(DOMAIN integrations[q[1][1]]) = 1
               PROVE  q[2] = integrations[q[1][1]][q[1][2]]
    BY DEF SingleIntegrationExact
  <2> DEFINE m == q[1][1]
  <2>1. m \in Messages /\ Forward(q)
    BY TopicOfCopy
  <2>2. IsFiniteSet(DOMAIN integrations[m])
    <3>1. integrations[m] \in Answers \/ DOMAIN integrations[m] = {}
      BY <2>1 DEF PInv, TypeOK, NoAnswer
    <3> QED
      BY <3>1, ProducerAssumption, FS_EmptySet
  <2>3. PICK n : DOMAIN integrations[m] = {n}
    BY <2>2, FS_Singleton
  <2>4. \A i, j \in DOMAIN visited[m] :
           /\ visited[m][i] = n
           /\ visited[m][i] = visited[m][j] => i = j
    BY <2>1, <2>3 DEF PInv, Loops
  <2>5. \A i, j \in DOMAIN visited[m] : i = j
    BY <2>4
  <2>6. \A i \in DOMAIN visited[m] : i \in Int
    BY <2>1 DEF PInv, TypeOK
  <2>7. PICK i, j \in DOMAIN visited[m] :
               /\ visited[m][i] = q[1][2]
               /\ \/ i < j /\ q[2] = Torn
                  \/ i <= j /\ q[2] = integrations[m][visited[m][j]]
    BY <2>1 DEF Forward
  <2>8. i = j /\ ~(i < j)
    BY <2>5, <2>6, <2>7
  <2> QED
    BY <2>7, <2>8
<1> QED
  BY <1>1, PInvAlways, PTL

=============================================================================
