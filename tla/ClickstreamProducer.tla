------------------------- MODULE ClickstreamProducer -------------------------
(***************************************************************************)
(* The message path: the loop of `start' that runs the consumer            *)
(* (cmd/start.go), the consumer's own loop (clickstream_consumer.go),      *)
(* HandleMessage, handleEvents and Close (clickstream_producer.go), and    *)
(* the parts of the Kafka client library they share state with: the        *)
(* produce channel and its channelProducer goroutine, the poller that      *)
(* forwards delivery reports to the events channel, Flush and Close        *)
(* (vendored kafka/producer.go and kafka/event.go).                        *)
(*                                                                         *)
(* A copy <<m, n>> is message m on its way to integration n, or to the     *)
(* retry topic for n = Retry.  Its topic is not part of it: HandleMessage  *)
(* puts a POINTER to the loop variable `integration' in the channel, and   *)
(* Go has one such variable per loop, so the library reads whatever the    *)
(* variable holds when it gets to the copy.  A string is two words; a read *)
(* that races with the loop's assignment may combine an old and a new one, *)
(* which is the topic Torn.                                                *)
(*                                                                         *)
(* GetIntegrations (module IntegrationCache) is any of its results: an     *)
(* error, nil, or a map.  The broker accepts or fails a copy at any time,  *)
(* and a copy that is reported as failed may have been appended.           *)
(***************************************************************************)
EXTENDS Naturals, Sequences, FiniteSets

CONSTANTS
  Messages,     \* messages of the ingestion topic
  Names,        \* names of integrations
  Topics,       \* topics of integrations
  Choices,      \* [Messages -> the message's own map: some Names -> BOOLEAN]
  Answers,      \* maps GetIntegrations may return: some Names -> Topics
  RetryTopic,   \* ProducerConfig.RetryTopic
  Retry,        \* in place of a name: a copy for RetryTopic
  EnableRetry,  \* config.Retry: failed copies go to the dead letter queue
  ChannelSize,  \* go.produce.channel.size (1000 in the code)
  Torn,         \* a torn read of a string
  Nil           \* no message, no copy

ASSUME ProducerAssumption ==
  /\ Retry \notin Names
  /\ Torn \notin Topics \cup {RetryTopic}
  /\ RetryTopic \notin Topics
  /\ Nil \notin Messages \cup Names \cup Topics
  /\ Nil \notin Messages \X (Names \cup {Retry})
  /\ \A m \in Messages : DOMAIN Choices[m] \subseteq Names
  /\ \A ans \in Answers : /\ DOMAIN ans \subseteq Names
                          /\ ans \in [DOMAIN ans -> Topics]
                          /\ IsFiniteSet(DOMAIN ans)
  /\ EnableRetry \in BOOLEAN
  /\ ChannelSize \in Nat \ {0}

Copies    == Messages \X (Names \cup {Retry})
AnyTopic  == Topics \cup {RetryTopic, Torn}
NoAnswer  == [n \in {} |-> Nil]

VARIABLES
  inbox,          \* messages the consumer has not read yet
  pc,             \* the consumer goroutine
  cur,            \* the message HandleMessage works on
  integrations,   \* [message -> the map GetIntegrations returned for it]
  visited,        \* [message -> the names its loop has come to, in order]
  integration,    \* [message -> the loop variable of its HandleMessage]
  produceChannel, \* p.produceChannel
  hand,           \* the copy channelProducer has received
  outq,           \* librdkafka: copies accepted, as <<copy, topic>>
  topicLog,       \* the broker: <<copy, topic>> appended
  reports,        \* librdkafka: delivery reports <<copy, failed>> not polled
  polling,        \* the poller goroutine runs
  events,         \* p.events: delivery reports <<copy, failed>>
  deadletter,     \* copies given to deadletterqueue.AddToQueue
  counted,        \* copies handleEvents is done with otherwise
  hpc,            \* the handleEvents goroutine
  shutdown,       \* shutdownChannel is closed
  shouldShutdown, \* the variable of `start', set after the close
  destroyed,      \* the Kafka consumer has been closed
  proc,           \* "running", "panicked" or "exited"
  sent            \* history: copies HandleMessage has sent

consumer == <<inbox, pc, cur, integrations, visited, integration>>
kafka    == <<outq, topicLog, reports>>
library  == <<produceChannel, hand, kafka, polling>>
handler  == <<deadletter, counted, hpc>>
stop     == <<shutdown, shouldShutdown, destroyed>>
vars     == <<consumer, library, events, handler, stop, proc, sent>>

TypeOK ==
  /\ inbox \subseteq Messages
  /\ pc \in {"check", "health", "select", "range", "assign", "send",
            "retry", "ended"}
  /\ cur \in Messages \cup {Nil}
  /\ integrations \in [Messages -> Answers \cup {NoAnswer}]
  /\ visited \in [Messages -> Seq(Names)]
  /\ integration \in [Messages -> Topics \cup {Nil}]
  /\ produceChannel \in Seq(Copies)
  /\ Len(produceChannel) <= ChannelSize
  /\ hand \in Copies \cup {Nil}
  /\ outq \subseteq Copies \X AnyTopic
  /\ topicLog \subseteq Copies \X AnyTopic
  /\ reports \subseteq Copies \X BOOLEAN
  /\ polling \in BOOLEAN
  /\ events \subseteq Copies \X BOOLEAN
  /\ deadletter \subseteq Copies
  /\ counted \subseteq Copies
  /\ hpc \in {"select", "flush", "terminate", "wait", "closed"}
  /\ shutdown \in BOOLEAN /\ shouldShutdown \in BOOLEAN
  /\ destroyed \in BOOLEAN
  /\ proc \in {"running", "panicked", "exited"}
  /\ sent \subseteq Copies

Init ==
  /\ inbox = Messages
  /\ pc = "check"
  /\ cur = Nil
  /\ integrations = [m \in Messages |-> NoAnswer]
  /\ visited = [m \in Messages |-> <<>>]
  /\ integration = [m \in Messages |-> Nil]
  /\ produceChannel = <<>>
  /\ hand = Nil
  /\ outq = {}
  /\ topicLog = {}
  /\ reports = {}
  /\ polling = TRUE
  /\ events = {}
  /\ deadletter = {}
  /\ counted = {}
  /\ hpc = "select"
  /\ shutdown = FALSE
  /\ shouldShutdown = FALSE
  /\ destroyed = FALSE
  /\ proc = "running"
  /\ sent = {}

Running == proc = "running"

(* close(p.pollerTermChan) and then close(p.produceChannel) have run. *)
terminating == hpc \in {"terminate", "wait", "closed"}
closed      == hpc \in {"wait", "closed"}

-----------------------------------------------------------------------------
(* The consumer goroutine: the loop of `start'.                            *)

(* `if shouldShutdown', without synchronisation. *)
CheckShutdown ==
  /\ Running
  /\ pc = "check"
  /\ pc' = IF shouldShutdown THEN "ended" ELSE "health"
  /\ UNCHANGED <<inbox, cur, integrations, visited, integration, library,
                 events, handler, stop, proc, sent>>

(* Mutant: Run closes the consumer whenever it returns. *)
ClosesOnError == destroyed' = (destroyed \/ pc' = "check")

(* An early return of Run leaves the consumer open. *)
KeepsConsumer == UNCHANGED destroyed

(* GetAuthorizationToken is called as a health check, and then Run, which  *)
(* subscribes.  An error of either leads back to the loop.  To subscribe   *)
(* with a consumer that has been closed uses freed memory, which may go    *)
(* unnoticed.                                                              *)
RunConsumer ==
  /\ Running
  /\ pc = "health"
  /\ \/ pc' \in {"check", "select"} /\ UNCHANGED proc
     \/ destroyed /\ proc' = "panicked" /\ UNCHANGED pc
  /\ KeepsConsumer
  /\ UNCHANGED <<inbox, cur, integrations, visited, integration, library,
                 events, handler, shutdown, shouldShutdown, sent>>

-----------------------------------------------------------------------------
(* The consumer goroutine: Run and HandleMessage.                          *)

(* Run receives a message; HandleMessage parses it and asks the cache.  A  *)
(* parse error, nil and an empty map end the call without a copy.          *)
ReceiveMessage(m) ==
  /\ Running
  /\ pc = "select"
  /\ inbox' = inbox \ {m}
  /\ \/ UNCHANGED <<pc, cur, integrations>>
     \/ /\ cur' = m
        /\ \/ /\ pc' = "retry"
              /\ UNCHANGED integrations
           \/ \E ans \in Answers :
                /\ DOMAIN ans # {}
                /\ pc' = "range"
                /\ integrations' = [integrations EXCEPT ![m] = ans]
  /\ UNCHANGED <<visited, integration, library, events, handler,
                 stop, proc, sent>>

Visited(m) == {visited[m][i] : i \in DOMAIN visited[m]}

(* The next round of `for name, integration := range': Go visits the keys  *)
(* of a map in any order.  The loop variable is about to be assigned.      *)
NextIntegration(n) ==
  /\ Running
  /\ pc = "range"
  /\ n \in DOMAIN integrations[cur] \ Visited(cur)
  /\ pc' = "assign"
  /\ visited' = [visited EXCEPT ![cur] = Append(@, n)]
  /\ UNCHANGED <<inbox, cur, integrations, integration, library, events,
                 handler, stop, proc, sent>>

name == visited[cur][Len(visited[cur])]

(* `if ok, intEnabled := dat.Integrations[name]; ok && !intEnabled': the   *)
(* first result of the index expression is the value, the second is        *)
(* whether the key is present.                                             *)
Skips(m, n) ==
  LET intEnabled == n \in DOMAIN Choices[m]
      ok         == intEnabled /\ Choices[m][n]
  IN  ok /\ ~intEnabled

(* Mutant: the loop variable keeps the value of the first round. *)
FirstValue == IF integration[cur] = Nil THEN integrations[cur][name]
                                        ELSE integration[cur]

RangeValue == integrations[cur][name]

AssignIntegration ==
  /\ Running
  /\ pc = "assign"
  /\ integration' = [integration EXCEPT ![cur] = RangeValue]
  /\ pc' = IF Skips(cur, name) THEN "range" ELSE "send"
  /\ UNCHANGED <<inbox, cur, integrations, visited, library, events, handler,
                 stop, proc, sent>>

(* Mutant: the channel takes any number of copies. *)
Unbounded == TRUE

HasRoom == Len(produceChannel) < ChannelSize

(* ProduceChannel() <- ...: blocks while the channel is full. *)
SendCopy(c, to) ==
  /\ Running
  /\ ~closed
  /\ HasRoom
  /\ produceChannel' = Append(produceChannel, c)
  /\ sent' = sent \cup {c}
  /\ pc' = to
  /\ UNCHANGED <<inbox, cur, integrations, visited, integration, hand, kafka,
                 polling, events, handler, stop, proc>>

(* Mutant: the retry topic is used while other copies are waiting. *)
SendToIntegrationOrRetry ==
  /\ pc = "send"
  /\ SendCopy(<<cur, IF produceChannel = <<>> THEN name ELSE Retry>>, "range")

SendToIntegration == pc = "send" /\ SendCopy(<<cur, name>>, "range")

SendToRetry == pc = "retry" /\ SendCopy(<<cur, Retry>>, "select")

(* A send on the closed channel, begun before or after the close, panics. *)
SendOnClosed ==
  /\ Running
  /\ closed
  /\ pc \in {"send", "retry"}
  /\ proc' = "panicked"
  /\ UNCHANGED <<consumer, library, events, handler, stop, sent>>

HandleMessageReturns ==
  /\ Running
  /\ pc = "range"
  /\ DOMAIN integrations[cur] \subseteq Visited(cur)
  /\ pc' = "select"
  /\ UNCHANGED <<inbox, cur, integrations, visited, integration, library,
                 events, handler, stop, proc, sent>>

(* Run takes the shutdown branch of its select, closes the consumer and    *)
(* returns to the loop of `start'.  Closing a consumer again closes a      *)
(* closed channel.                                                         *)
CloseConsumer ==
  /\ Running
  /\ shutdown
  /\ pc = "select"
  /\ destroyed' = TRUE
  /\ IF destroyed THEN proc' = "panicked" /\ UNCHANGED pc
                  ELSE pc' = "check" /\ UNCHANGED proc
  /\ UNCHANGED <<inbox, cur, integrations, visited, integration, library,
                 events, handler, shutdown, shouldShutdown, sent>>

-----------------------------------------------------------------------------
(* The Kafka client library.                                               *)

(* Mutant: wait for a second copy before taking one. *)
TwoWaiting == Len(produceChannel) > 1

CopyWaiting == produceChannel # <<>>

(* channelProducer: `for m := range p.produceChannel'. *)
ReceiveCopy ==
  /\ Running
  /\ hand = Nil
  /\ CopyWaiting
  /\ hand' = Head(produceChannel)
  /\ produceChannel' = Tail(produceChannel)
  /\ UNCHANGED <<consumer, kafka, polling, events, handler, stop, proc, sent>>

(* Mutant: one variable for all calls of HandleMessage. *)
TopicReadShared(c) ==
  IF c[2] = Retry THEN {RetryTopic} ELSE {integration[cur]} \ {Nil}

(* What *m.TopicPartition.Topic can be read as now. *)
TopicRead(c) ==
  IF c[2] = Retry THEN {RetryTopic}
  ELSE IF pc = "assign" /\ cur = c[1]
       THEN {integration[cur], integrations[cur][name], Torn}
       ELSE {integration[c[1]]}

(* Mutant: the error of produce is ignored. *)
Ignored(c) == UNCHANGED events

(* channelProducer reports an error of produce on the events channel. *)
Reported(c) == events' = events \cup {<<c, TRUE>>}

(* produce: the copy is accepted under the topic read now, or refused (an  *)
(* empty or unusable topic, a message too large) and reported at once.     *)
Produce ==
  /\ Running
  /\ hand # Nil
  /\ hand' = Nil
  /\ \/ /\ \E topic \in TopicRead(hand) : outq' = outq \cup {<<hand, topic>>}
        /\ UNCHANGED events
     \/ /\ Reported(hand)
        /\ UNCHANGED outq
  /\ UNCHANGED <<consumer, produceChannel, topicLog, reports, polling, handler,
                 stop, proc, sent>>

(* librdkafka and the broker, external: a copy is appended to its topic,   *)
(* or fails after message.timeout.ms.  The broker may have appended a copy *)
(* that fails, if its acknowledgement is lost or late.                     *)
Deliver(q) ==
  /\ Running
  /\ hpc # "closed"
  /\ outq' = outq \ {q}
  /\ \/ /\ reports' = reports \cup {<<q[1], FALSE>>}
        /\ topicLog' = topicLog \cup {q}
     \/ /\ reports' = reports \cup {<<q[1], TRUE>>}
        /\ topicLog' \in {topicLog, topicLog \cup {q}}
  /\ UNCHANGED <<consumer, produceChannel, hand, polling, events, handler,
                 stop, proc, sent>>

(* The poller, and Flush beside it, call eventPoll, which forwards a       *)
(* report to p.events.  (That channel holds a million.)                    *)
Poll(r) ==
  /\ Running
  /\ polling
  /\ reports' = reports \ {r}
  /\ events' = events \cup {r}
  /\ UNCHANGED <<consumer, produceChannel, hand, outq, topicLog, polling,
                 handler, stop, proc, sent>>

(* The poller finds termChan closed: between two calls of eventPoll, or in *)
(* the middle of a batch, when the select of eventPoll takes termChan for  *)
(* a report; then this one and the rest of its batch are dropped.          *)
PollerEnds ==
  /\ Running
  /\ polling
  /\ terminating
  /\ polling' = FALSE
  /\ \E batch \in SUBSET reports : reports' = reports \ batch
  /\ UNCHANGED <<consumer, produceChannel, hand, outq, topicLog, events,
                 handler, stop, proc, sent>>

-----------------------------------------------------------------------------
(* The handleEvents goroutine.                                             *)

(* Mutant: the test of TopicPartition.Error is inverted. *)
DeliverySucceeded(e) == ~e[2]

(* e.TopicPartition.Error != nil *)
DeliveryFailed(e) == e[2]

(* A delivery report.  A failed copy goes to the dead letter queue when    *)
(* retry is enabled.  (The unmarshal error path of handleEvents needs a    *)
(* value that HandleMessage's own UnmarshalJSON rejects; none is sent.)    *)
handleEvents(e) ==
  /\ Running
  /\ hpc = "select"
  /\ events' = events \ {e}
  /\ \/ /\ DeliveryFailed(e) /\ EnableRetry
        /\ deadletter' = deadletter \cup {e[1]}
        /\ UNCHANGED counted
     \/ /\ ~(DeliveryFailed(e) /\ EnableRetry)
        /\ counted' = counted \cup {e[1]}
        /\ UNCHANGED deadletter
  /\ UNCHANGED <<consumer, library, hpc, stop, proc, sent>>

(* The shutdown branch: Close calls Flush, on this goroutine, so nobody    *)
(* reads p.events from now on.                                             *)
FlushBegin ==
  /\ Running
  /\ shutdown
  /\ hpc = "select"
  /\ hpc' = "flush"
  /\ UNCHANGED <<consumer, library, events, deadletter, counted, stop, proc,
                 sent>>

(* Flush returns, because Len was zero or at its timeout, which may come   *)
(* at any time; what it returns is only logged.  Producer.Close begins.    *)
CloseTermChan ==
  /\ Running
  /\ hpc = "flush"
  /\ hpc' = "terminate"
  /\ UNCHANGED <<consumer, library, events, deadletter, counted, stop, proc,
                 sent>>

CloseProduceChannel ==
  /\ Running
  /\ hpc = "terminate"
  /\ hpc' = "wait"
  /\ UNCHANGED <<consumer, library, events, deadletter, counted, stop, proc,
                 sent>>

(* Mutant: Close waits for channelProducer only. *)
NoWait == produceChannel = <<>> /\ hand = Nil

(* waitTerminated(2): channelProducer has come to the end of the closed    *)
(* channel, and the poller has ended.                                      *)
Terminated == produceChannel = <<>> /\ hand = Nil /\ ~polling

(* Then the events channel is closed and rd_kafka_destroy drops what is    *)
(* queued.                                                                 *)
Close ==
  /\ Running
  /\ hpc = "wait"
  /\ Terminated
  /\ hpc' = "closed"
  /\ outq' = {}
  /\ reports' = {}
  /\ events' = {}
  /\ UNCHANGED <<consumer, produceChannel, hand, topicLog, polling, deadletter,
                 counted, stop, proc, sent>>

-----------------------------------------------------------------------------
(* SIGINT or SIGTERM closes shutdownChannel... *)
Signal ==
  /\ Running
  /\ ~shutdown
  /\ shutdown' = TRUE
  /\ UNCHANGED <<consumer, library, events, handler, shouldShutdown,
                 destroyed, proc, sent>>

(* ... and then the handler sets the variable that the loop reads. *)
SetShouldShutdown ==
  /\ Running
  /\ shutdown /\ ~shouldShutdown
  /\ shouldShutdown' = TRUE
  /\ UNCHANGED <<consumer, library, events, handler, shutdown,
                 destroyed, proc, sent>>

(* The web server's loop over shutdownChannel ends and main returns. *)
MainReturns ==
  /\ Running
  /\ shutdown
  /\ proc' = "exited"
  /\ UNCHANGED <<consumer, library, events, handler, stop, sent>>

ConsumerStep ==
  \/ CheckShutdown \/ RunConsumer
  \/ \E m \in inbox : ReceiveMessage(m)
  \/ \E n \in Names : NextIntegration(n)
  \/ AssignIntegration \/ SendToIntegration \/ SendToRetry \/ SendOnClosed
  \/ HandleMessageReturns

Next ==
  \/ ConsumerStep \/ CloseConsumer
  \/ ReceiveCopy \/ Produce
  \/ \E q \in outq : Deliver(q)
  \/ \E r \in reports : Poll(r)
  \/ PollerEnds
  \/ \E e \in events : handleEvents(e)
  \/ FlushBegin \/ CloseTermChan \/ CloseProduceChannel \/ Close
  \/ Signal \/ SetShouldShutdown \/ MainReturns

Spec == Init /\ [][Next]_vars

-----------------------------------------------------------------------------
(* Properties                                                              *)

InChannel == {produceChannel[i] : i \in DOMAIN produceChannel}
InHand    == {hand} \ {Nil}
InOutq    == {q[1] : q \in outq}
InReports == {r[1] : r \in reports}
InEvents  == {e[1] : e \in events}
Logged    == {q[1] : q \in topicLog}

(* A copy HandleMessage has handed over that nobody holds any more and     *)
(* nobody was told about.                                                  *)
Lost == sent \ (InChannel \cup InHand \cup InOutq \cup InReports \cup InEvents
                  \cup deadletter \cup counted)

(* From ProduceChannel() to the delivery report, a copy passes through     *)
(* five owners.  As long as the poller runs, also while Flush and Close    *)
(* are under way, none of them loses it, and none keeps it when the next   *)
(* one has it.  The poller runs until Close tells it to end; then reports  *)
(* may be dropped.                                                         *)
CopyHasOneOwner ==
  /\ polling => Lost = {}
  /\ ~polling => terminating
  /\ Len(produceChannel) + Cardinality(InHand) + Cardinality(outq)
       + Cardinality(reports) + Cardinality(events) + Cardinality(deadletter)
       + Cardinality(counted) <= Cardinality(sent)

(* handleEvents does one thing with a copy, once.  With --retry, one that  *)
(* it has done with is in its topic or in the dead letter queue, whatever  *)
(* the broker reported.  (It may be in both: the broker can append a copy  *)
(* and fail to acknowledge it.)                                            *)
SettledOnce ==
  /\ deadletter \cap counted = {}
  /\ EnableRetry => counted \subseteq Logged

(* The shared loop variable moves a copy only FORWARD: the topic read for  *)
(* <<m, n>> is that of n or of a name m's own loop came to later, or torn. *)
(* It is never a topic of another message or of an earlier round.          *)
AliasOnlyForward ==
  \A q \in outq \cup topicLog :
    LET m == q[1][1]
        n == q[1][2]
    IN  n # Retry => \/ q[2] = Torn
                     \/ \E i, j \in DOMAIN visited[m] :
                          /\ i <= j
                          /\ visited[m][i] = n
                          /\ q[2] = integrations[m][visited[m][j]]

(* An app with one integration is served right however the goroutines run: *)
(* the loop variable is assigned once, before its address is given away.   *)
SingleIntegrationExact ==
  \A q \in outq \cup topicLog :
    LET m == q[1][1]
        n == q[1][2]
    IN  n # Retry /\ Cardinality(DOMAIN integrations[m]) = 1
          => q[2] = integrations[m][n]

(* A message goes to the retry topic or to its integrations, never to      *)
(* both, and the copy for the retry topic gets there.                      *)
RetryIsExclusive ==
  /\ \A c \in sent : c[2] = Retry =>
       \A d \in sent : d[1] = c[1] => d = c
  /\ \A q \in outq \cup topicLog : q[1][2] = Retry <=> q[2] = RetryTopic

(* Producer.Close waits for channelProducer and the poller, so neither of  *)
(* them uses the producer or sends on its events channel when rd_kafka_-   *)
(* destroy and close(p.events) have run, and nothing is left for it.       *)
NoUseAfterDestroy ==
  hpc = "closed" =>
    /\ produceChannel = <<>> /\ hand = Nil /\ ~polling
    /\ outq = {} /\ reports = {} /\ events = {}

(* The loop of `start' may restart the consumer after any error without    *)
(* harm: until a shutdown, no order of failing health checks,              *)
(* subscriptions and deliveries aborts the process or leaves the consumer  *)
(* closed.                                                                 *)
RestartIsSafe == ~shutdown => Running /\ ~destroyed

-----------------------------------------------------------------------------
(* What the documentation and the comments say and the code does not do.   *)

(* README.md:3, the router "produces the same message to the integrations  *)
(* kafka topic": a copy for n is appended to the topic of n.               *)
RoutedToItsTopic ==
  \A q \in topicLog :
    q[1][2] # Retry => q[2] = integrations[q[1][1]][q[1][2]]
=============================================================================
