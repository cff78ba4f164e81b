# Verification of the clickstream event router

TLA+ modules, TLC configurations and TLAPS proofs for the concurrent core of
event-router: the integration cache, the path of a message from the ingestion
topic to the topics of its integrations, the dead letter queue, the two clients
that keep the cache supplied, Houston's and the event subscription's, and the way
a process comes up and goes down.

Line numbers refer to the repository's sources. `kafka/producer.go` and
`kafka/event.go` are those of the vendored `confluent-kafka-go`.

## 1. The system

event-router consumes messages of a Kafka topic. For each one it asks its cache
which integrations the message's app has enabled, and produces a copy to the
topic of each of them. The cache is filled from Houston (GraphQL over HTTP) and
kept up to date by Houston's broadcasts (server-sent events) and by a TTL.
Copies that cannot be produced go to a dead letter queue, which uploads them to
S3. Everything runs in one process, as goroutines that share one shutdown
channel.

| component | state it keeps | operations | talks to |
|---|---|---|---|
| integration cache (`integrations/integrations.go`) | `integrationsMap`, `syncMap` (a mutex per app), `globalLock`, TTL timer | `GetIntegrations`, `UpdateIntegrationsForApp`, `SSEEventListener`, `resetCache`, `GetAllIntegrations` | Houston client; called by producer, SSE client, web server |
| clickstream consumer (`kafka/clickstream/clickstream_consumer.go`) | the loop of `Run` | receive, hand to `HandleMessage`, close | Kafka library, producer |
| clickstream producer (`kafka/clickstream/clickstream_producer.go`) | produce channel and events channel of the library, the loop variable whose address it sends | `HandleMessage`, `handleEvents`, `Close` | cache, Kafka library, dead letter queue |
| dead letter queue (`deadletterqueue/client.go`) | `queue`, `globalLock`, `addingWaitGroup`, timer | `AddToQueue`, `start`, `Flush`, `flush`, `Close` | S3 client; called by the producer |
| Houston client (`houston/client.go`) | authorization token and its expiry date, mutex | `GetIntegrations`, `GetAuthorizationToken` | HTTP client |
| SSE client (`sse/client.go` and the vendored `sse.go`) | `shouldShutdown`, exit channel; delivery, status and shutdown channels | `Subscribe`, `listen`, `Listen`, `Close` | Houston client, cache |
| start command (`cmd/start.go`, `cmd/root.go`) | flags, `shouldShutdown`, shutdown channel | wiring, signal handler, loop that restarts the consumer | all |
| mock command (`cmd/mock.go`) | flags, partly the same variables | the wiring with a fake Houston, without signal handler and dead letter queue | all but those |
| configuration (`config/config.go`) | settings: those set by a command, the environment, defaults | read, check required ones | all |
| web server (`api/`) | none of its own | `/metrics`, `/integrations`, `/health`, shutdown | cache |
| S3, Cassandra, metrics, JSON decoder | none that others read | I/O, counters, generated code | |

### What is hard here

- **Locks of two levels that change under their users.** `Map.Get` waits for an
  app's mutex while it holds `globalLock`. `UpdateIntegrationsForApp` looks the
  mutex up twice without `globalLock`, and `resetCache` may replace the map in
  between.
- **Answers that overtake each other.** Houston is asked before the app's mutex
  is taken.
- **A pointer that outlives its value.** `HandleMessage` sends the address of
  its loop variable through a channel to another goroutine.
- **Ownership of a copy.** It passes from the produce channel to
  `channelProducer`, to librdkafka, by the poller to the events channel, to
  `handleEvents`; it can fail at two of these places, be reported as failed
  although the broker has it, and be dropped at a third.
- **Shutdown.** Consumer, producer, dead letter queue, SSE client and web server
  all react to the same closed channel, in any order, and nobody waits for
  anybody.
- **Uploads under a lock**, of a map that is changed while it is ranged over,
  to objects named by the second.
- **Replies that hold errors.** GraphQL answers an error with a good reply, and
  the Houston client never looks at the `Errors` it decodes.
- **Requests under a lock.** The Houston client verifies and creates its token
  while it holds its mutex, so every goroutine that needs the token waits for
  one goroutine's network.
- **Unbuffered channels that outlive their users.** The SSE library keeps one
  set of channels for all connections; each round of the subscription adds a
  listener and a reader to them, and nobody removes the old ones.
- **A process that is half built.** Goroutines start one by one while `main` is
  still wiring and can still give up; two commands share flag variables whose
  defaults depend on the order of `init` functions; and what is wired is decided
  by flags in one place and by settings in another.

The full list, each entry at its line, is in `PROJECT.json` under `hazards`.

## 2. Modules

### IntegrationCache

One goroutine per element of `Threads`: the consumer and the SSE listeners. The
program counter `pc` names the point between two steps where another goroutine
can run: `lookup`, `insert`, `read` are inside `Map.Get`; `fetch`, `fetched`,
`lock`, `locking`, `put`, `write`, `unlock` inside `UpdateIntegrationsForApp`.

| code | model |
|---|---|
| `integrationsMap`, `syncMap` as package variables that `resetCache` reassigns | `gen` says which pair of maps they point to; a method keeps the receiver it loaded in `m`, a locker the mutex it found in `lock` |
| an app's integrations | a version number that Houston counts up |
| `sync.Mutex`, `sync.RWMutex` | the goroutine that holds it, or `Nil`. The read lock of `Map.Get` is taken and given back in one step, `GetRead` |
| assignment to a Go map | two steps, `PutBegin`/`PutEnd` and `GetLock`/`GetInsert`; an access of the same map in between may abort the process (`ConcurrentMapAccess`) or go unnoticed, since the runtime's check is best effort |
| nil mutex, unlock of an unlocked mutex | `fault`, after which no step is possible |
| lost or unparsable broadcast | `HoustonChange` may add none; `SSEEventListener` may drop one |

### AbstractCache

What the cache promises without any of this: goroutines ask Houston and keep the
answer (`Ask`) until they store it in the one cache that readers see (`Store`);
the cache expires once, as a whole (`Expire`); an answer that was meant for the
cache of before may be lost after that, and only then (`Lose`). The refinement
mapping is at the end of `IntegrationCache`: `answer` is what a goroutine between
`Fetch` and `PutEnd` carries, `cache` is the map that `gen` points to.

### ClickstreamProducer

A copy `<<m, n>>` is message `m` for integration `n` (or for the retry topic).
`produceChannel`, `hand` (what `channelProducer` has received), `outq`
(librdkafka), `reports` (delivery reports nobody has polled), `events`, then
`deadletter` or `counted` are its successive owners; `topicLog` is what the
broker has stored. The topic of a copy is not in it: `TopicRead` is what
dereferencing the pointer can yield at that moment, `Torn` included while the
loop variable is being assigned.

`Deliver` is librdkafka and the broker. A copy is appended and reported, or it is
reported as failed, and then it may have been appended all the same: its
acknowledgement was lost or came late. `Poll` forwards a report to the events
channel; the poller goroutine does so, and `Flush` beside it. `Close` of the
library is four steps: `CloseTermChan`, `CloseProduceChannel`, the wait for
`channelProducer` and the poller (`Terminated`), and the end. Once the first has
run, the poller may end at any moment, in the middle of a batch too, when the
select of `kafka/event.go:236-242` takes `termChan` for a report: `PollerEnds`
drops any part of `reports`, and nobody forwards what librdkafka reports from
then on, though `channelProducer` still drains its channel. `Flush` may return
whenever it likes. Its timeout allows that at any moment, the zero it returns
may be wrong (`kafka/producer.go:192` reads three counters one after another, and
a report that moves in between is in none of them), and
`clickstream_producer.go` only logs it, so no property speaks of the number.

`GetIntegrations` is any of its results (error, nil, a map). The consumer goroutine begins in the loop of `start`:
`CheckShutdown` reads the flag, `RunConsumer` is the health check and the
subscription, either of which may fail and lead back to the loop.
`CloseConsumer` does so too, after it has destroyed the Kafka consumer.
`Signal` closes the shutdown channel and `SetShouldShutdown` sets the flag a step
later, so the loop may run the destroyed consumer again; what it does with freed
memory is a choice of going on or aborting. After `MainReturns` (the end of
`Serve`) or a panic (`SendOnClosed`, a second `CloseConsumer`) no step is
possible.

### DeadLetterQueue

The callers of `AddToQueue` and the goroutine `start()`. A key is a sequence, so
that `key + "/" + now` is `Append(key, clock)`. `s3` maps an object to its
`body` and, as a history value, to what the `bytes.Buffer` held when the body
was uploaded. `flush` is one operator used by the size flush and by `Flush`,
with the outcome of the upload as a parameter. `present` and `seen` are the
progress of the range over the map: it visits every key that was present at its
start and may visit keys that were added since. Lock and WaitGroup are taken in
one step (`AddLocked`).

### Router

The producer and the dead letter queue as `start` wires them. `HandleReport` is
`handleEvents` with its call of `AddToQueue`: the goroutine reads no other report
and does not see a shutdown until the queue's lock has come to it and the call
has returned (`Idle`). The other steps are those of the two modules, grouped by
goroutine. The key of a dead letter is built from the address of the topic's
string (`clickstream_producer.go:158`), so it is any element of `Keys`. `Holds`
says where a datum is: with a call that waits for the lock, in an entry, or in
the body of an object that was really uploaded. The clock
stands still, which makes the names of objects collide as often as they can.

### Startup

One process from the `init` functions of package `cmd` to its end, for every
command line and environment. `pc` is the stage `main` is at, in `start` or in
`mock`; `running` the goroutines it has started. `override` is what `viper.Set`
was called with, and `GetBool` looks there first, then in the environment. A
stage that can fail has two disjuncts, one of which ends the process (`Fail`).
`Signal` may come at any time: before `Notify` it kills the process, after it the
handler closes the shutdown channel. `DeliveryFails` is the one step of a
goroutine that depends on the wiring.

### HoustonClient

`authToken` is the pair `token`, `expDate`; `mutex` guards it for the whole of
`GetAuthorizationToken`. Houston is external: it numbers the tokens it issues,
keeps their `expiry` and may revoke them (`revoked`). Time counts from 1, and 0
is Go's zero time, the exp date of an API key and of an empty token. A request
and what the caller makes of its answer are two steps (`verifyToken` and
`Verified`, `createToken` and `Created`), so that time passes and tokens are
revoked in between. A reply is an error of the request, `accepted`, or `faulty`,
which is a good reply with "errors" in it. Houston sends a faulty one for a token
it does not take, but may send one for any token, when a resolver fails or an app
is unknown. The client never reads the errors (`houston/client.go:72`, `86`,
`99`); what it makes of such a reply follows from the data that are left. Of a
mutation (`verifyToken`, `createToken`) these are none, so `Success` is false and
the token empty; of the sources query they are any part of the sources (`Parts`),
and the loops of `GetIntegrations` (`integrationsMap`) return a map with less in
it, or nothing, and no error. `Init` allows every configuration that
`verifyRequiredEnvVars` lets through, with the password missing too.

### SSEClient

The loop of `Subscribe` with the library's `Listen` in it (`spc`), one listener
goroutine per round (`lpc`) and one reader goroutine per connection (`rpc`).
The library's channels are unbuffered, so a send and the receive it meets are
one step (`Receive`, `maybeDeliver`, `Close`, `OnStatus`); a goroutine whose
partner never comes stays where it is. `channel` is the entry of
`eventChannels`: a new listener replaces it, and `addListener` waits for the
lock that `maybeDeliver` holds while it sends. The handler is the cache's
`SSEEventListener`; handlers of two rounds may overlap and end in another order,
which is why `IntegrationCache` has several listeners. The branch for a nil
event is left out: the channel is never closed.

### MC modules

`MCClickstreamProducer` defines the maps that TLC needs as constants:
integrations `n1..n3` with topics `t1..t3`, answers with none, one and all
integrations, and messages that opt out of or into `n1` (`producer_safety` lets
all opt out, which makes them symmetric). `MCHoustonClient` has two answers, in
which a name comes more than once, with and without a topic, enabled and not.
`MCRouter` has integrations `n1` and `n2`, answers with none and with both of
them, and the view described below. The other modules are checked as they are.

### Proof modules

`IntegrationCacheProofs` and `IntegrationCacheRefinement`, `DeadLetterQueueProofs`,
`StartupProofs`, `SSEClientProofs`, `HoustonClientProofs` and
`ClickstreamProducerProofs` extend the module they prove something about;
`RouterProofs` extends `Router` and `ClickstreamProducerProofs` and instantiates
`DeadLetterQueueProofs` (section 4).

Definitions whose comment begins with "Mutant" are changed versions of the
definition that follows them, each with one plausible mistake: a guard that is
missing, a lock that is kept, a test that is inverted. The
properties are known to notice them (`PROJECT.json`, `mutants`).

## 3. Runs

### What holds

| run | bounds | shows |
|---|---|---|
| `cache` | 2 apps, 1 listener, 1 change per app, TTL on | `NoOrphanLock`, `KeyExclusion`, `LockFaultsNeedReset` in every interleaving of the goroutines and the reset; `NilMeansFilled`: a call that returns nil for want of an entry has left one for the next; `ImplementsAbstractCache`; `CallReturns`: a call returns or the process has been aborted |
| `producer_safety` | 2 messages, 2 integrations, of which one message at most has both (`OneLoop`), channel of 2, retry on; symmetric messages | `CopyHasOneOwner`: no copy is lost while the poller runs; `SettledOnce`: what handleEvents only counts is in its topic; `RetryIsExclusive`; the limits of the aliasing, `AliasOnlyForward` and `SingleIntegrationExact`; `NoUseAfterDestroy`; `RestartIsSafe`: before a shutdown, no restart of the consumer finds it closed |
| `router` | 1 message, 2 integrations, channel of 1, retry on, 2 keys, queue size 2, ranges visit keys of length 1 | `NothingLostOnTheWay`: until the poller has ended a copy is in the producer's hands, in its topic or with the dead letter queue; `EveryMessageLands`: without a shutdown every message is handled to the end and every copy settled; `AllGoroutinesStop`: after a signal the consumer loop, the producer and the queue end, or the process has |
| `dlq` | 2 callers, 2 keys, 2 calls, 2 seconds, queue size 2 | `NothingDropped`, `CloseTriesAll`, `OverwriteKeepsData` |
| `houston` | 2 callers, 2 tokens, 2 clock values, lifetime 0, every configuration of the credentials, 2 answers | `TokenPair`, `NoSpareTokens`, `NoRevokedToken` for callers that race for the token; `MapIsHoustons`: a map that is returned is all Houston has for the app, or after a faulty reply a part of it; `CallReturns` |
| `sse` | 3 rounds, 2 events | `OneLiveReader`, `HandledOnce`, `AtMostOneMoreRound`, `ListenersLeave`, whatever connections, tokens and streams do |
| `startup` | both commands, 2 settings every command needs, 1 for `--retry`, every environment and command line | `RequiredBeforeWork`, `RetryHasQueue`, `WiredAsAsked`, and `SignalEnds` under a signal at any moment |

Why these bounds are enough. The cache's steps concern one app at a time, except
for `globalLock` and the maps as a whole, which two apps exercise; two goroutines
that update plus the reset are all the kinds of actor there are; one change makes
an answer old. In the producer a copy is affected by the copies before it in the
channel and by later rounds of its own loop: two messages of two integrations
have both, and the channel is full. (One of them may have a single integration:
a second loop with two rounds only adds states of the same kinds, and the proofs
have no such bound.) The dead letter queue has one caller in the
program (`handleEvents`), but its interface allows several, so `dlq` has two; two
calls reach the queue size, and a size flush and a timer flush can fall into one
second or into two. In `router` two copies of one message fill the channel, can
both fail, share a key or not, reach the queue size together and meet the timer
flush or a signal at any point between. Two callers of the Houston
client are enough to race for its mutex; with two tokens one can replace
another, and a lifetime of 0 lets the first expire at the second clock value.
Three rounds of the subscription have a listener that is current, one that is
left over and one that is left over twice, and two events can overtake each
other. `startup` has no bound but the number of settings: the proofs need none.

Two runs use a view, which counts states as one that differ in nothing the next
steps or the properties depend on. A process that has ended is one state in both:
it takes no further step, the step that ends it changes nothing the properties
speak of, and (`router`) it can only end after a shutdown, which satisfies the
two temporal properties. `LiveView` also leaves out what no step reads again (the
topics, the bucket, whose objects all have empty bodies, and `owed`), and names
integrations by the round that visits them and keys by whether they are the first
datum's, since it is only there that they differ.

`MaxVersion`, `MaxCalls`, `MaxClock`, `MaxDepth`, `MaxTokens`, `MaxRounds` and
`MaxEvents` bound what is unbounded in the program; `ChannelSize` is 1000 in the
code, and `Lifetime` is Houston's choice. Deadlock is not checked: a process that
was aborted or has exited takes no step, the dead letter queue and the consumer
may have nothing left to do, a bounded clock stops, and the goroutines of the SSE client may
block for ever (see below).

### What the documentation says and the code does not do

Each run finds a counterexample; `PROJECT.json` quotes the lines under
`findings`.

| run | the statement | what happens |
|---|---|---|
| `cache_regress_violation` | an event brings the latest from Houston (`README.md:5`) | of two overlapping updates the older answer may be stored last |
| `producer_topic_violation` | the message goes to the integration's topic (`README.md:3`) | the loop variable has moved on when the topic is read |
| `dlq_flush_violation` | Flush moves the queue to S3 (`client.go:127`, `client_test.go:72`) | an empty object is uploaded and the queue keeps its data |
| `houston_expiry_violation` | a good exp date returns the token (`houston/client.go:184`) | the test is inverted: an expired token is returned unverified for ever, a good one is verified each time |
| `sse_reconnect_violation` | "For loop so we restart" (`sse/client.go:37`) | the end of the stream is not reported, and the loop waits in `Listen` for ever |

Further disagreements are part of the models and have no run of their own:

- A cache miss is not answered from Houston as `README.md:5` says: the nil read
  before the update is returned (`integrations.go:124`) and the message is
  dropped. `NilMeansFilled` states what is left of the promise.
- The TTL, which `README.md:7` says "ensures that the cache will always have up
  to date information in case a broadcast message is missed", is a timer that
  fires once (`Expire` of `AbstractCache`), and so is the flush interval of
  `README.md:86` (`TimerFires`).
- `false` in a message, "don't send" (`clickstream_producer.go:105`), skips
  nothing: value and presence are swapped (`Skips`).
- After `Close` the consumer may send on the library's closed channel, and the
  process panics (`SendOnClosed`).
- `main` may return before the flush that `README.md:71` describes
  (`MainReturns`).
- `AddToQueue` raises the WaitGroup after it has the lock, so `Close` does not
  wait for a caller that is still waiting (`deadletterqueue/client.go:178`);
  `CloseTriesAll` therefore speaks of data accepted before `Close`.
- A user name without a password passes `verifyRequiredEnvVars`
  (`config.go:145-150`, `Configs`), although the message of that very test, the
  README (`README.md:99-100`) and `createToken` (`houston/client.go:214`) ask for
  both. `RequiredBeforeWork` therefore speaks of what is asked for, which is less
  than what is read: such a process runs and gets no token.
- A refused `createToken` is stored as an empty token (`Created`).
- A reply with errors gives an empty or partial map without an error
  (`houston/client.go:164-176`), so that copies are silently not sent, and makes
  `verifyToken` call a good token bad, which is then replaced (`:195-203`).
  `MapIsHoustons` and `NoSpareTokens` say what is left: never more than Houston
  has, and never a new token because a request failed.
- Delivery reports may be dropped between `close(pollerTermChan)` and the end of
  the producer (`kafka/event.go:236-242`), and the dead letter queue learns
  nothing of those failures. A copy the broker has appended may be reported as
  failed and be in the dead letter queue as well.
- `mock` warns that it "will not connect to Houston or receive app change events"
  (`mock.go:58`), and declares `--disable-sse` as true by default (`mock.go:44`).
  The default of `root.go:21` is assigned later to the same variable, so without
  the flag the SSE client runs in `mock` (`initRootFile`). `WiredAsAsked` speaks
  of the SSE client in `start`, where the flag's own default counts, and of the
  explicit `--disable-sse`.
- `mock --retry`, "enable retry logic" (`mock.go:43`), requires the settings of
  the dead letter queue and creates none;
  with `ER_RETRY` set, a failed delivery in `mock` calls a nil client
  (`DeliveryFails`). In `start` this cannot happen (`RetryHasQueue`).
- `README.md:107` says `ER_DISABLE_CACHE_TTL` is overridden by
  `--disable-cache-ttl`; `--disable-cache-ttl=false` does not override it
  (`startSets`), and `WiredAsAsked` leaves that combination out.
- A failed SSE connection ends the loop, since its listener sets
  `shouldShutdown` (`OnShutdown`). A listener in `Close` waits for a `Listen`
  that is sending to that same listener, or that has returned.

### Fairness

- A goroutine that can take a step takes it: the Go scheduler is preemptive
  enough for these loops, which all block or call. `router` needs no more than
  this: weak fairness of the consumer's loop, and of the goroutines that only move
  on what is there (`Movers`: `channelProducer`, librdkafka, the poller,
  `handleEvents`, the queue's `start()`, the signal handler), of whose steps there
  are finitely many.
- In `cache` and `houston` a step that waits for a lock gets strong fairness:
  `sync.Mutex` and `sync.RWMutex` hand the lock to a waiter that has waited long
  (starvation mode).
- librdkafka settles a copy within `message.timeout.ms`.
- A Houston or S3 call ends. This one is an assumption on the network:
  the HTTP client has no timeout.
- For `sse` only this much: a handler returns, and a listener that keeps waiting
  takes its shutdown branch, since `select` chooses at random among ready
  branches (`FairSpec`).
- For `startup`: `main` and the signal goroutine are scheduled. Nothing that
  `main` calls before `Serve` waits for another goroutine.
- For the two violations that are about liveness, what a counterexample must not
  use as an excuse: calls of the Houston client keep coming, not all creations
  fail, and a token that is verified again and again is not always called good
  (`TrafficSpec`); the goroutines of
  the SSE client take their steps, and a token and a connection are not refused
  for ever (`BusySpec`).

Signals, the end of `main`, broadcasts, ticks and calls of `AddToQueue` are not
fair: they may never happen.

## 4. Proofs

Every invariant and every action property that a passing run checks is also the
statement of a theorem, for every value of the constants that the assumptions
allow. Each section gives the theorems, the assumption and the inductive
invariant with what it adds; all invariants were model-checked on the runs'
instances before they were proved.

### The cache

`IntegrationCacheProofs` proves, for every set of apps and listeners, every
`MaxVersion`, and the TTL enabled or not:

| theorem | property |
|---|---|
| `TypeCorrect` | `TypeOK` |
| `GlobalLockDiscipline` | `GlobalLockInGet`: `globalLock` is held exactly by the goroutine inside `Map.Get` |
| `NoOrphanLocks` | `NoOrphanLock` |
| `MutualExclusion` | `KeyExclusion` |
| `LookupsSafeUntilReset` | `LockFaultsNeedReset` |

The only assumption is `CacheAssumption`: the consumer is not a listener, `Nil`
is neither a goroutine nor a number, and the flag and the bound have their
types.

The inductive invariant `IInv` adds two parts to the properties.
`FirstGeneration` says what the per-app mutexes are worth before `resetCache`: a
goroutine past `Map.Get` finds its mutex in `syncMap`, one inside an update
holds it, and the second generation's mutexes are free. Mutual exclusion is then
immediate (two goroutines would hold one mutex), the lookups cannot fail, and
`NoOrphanLock` survives the reset. `TimerInv` ties `gen` to the timer, which
makes a second generation impossible with the TTL disabled. Each action has a
lemma with one step per conjunct; `FindLock` and `UnlockKey`, the two
unsynchronised lookups, are split into the case that finds the mutex and the
case that aborts, which needs `gen = 1`.

`IntegrationCacheRefinement` goes on from there:

| theorem | property |
|---|---|
| `Refinement` | `ImplementsAbstractCache` |
| `NilIsFilled` | `NilMeansFilled` |

It adds `AInv` to `IInv`: what a goroutine that has Houston's answer carries (a
version, of the app it works on), that a receiver loaded earlier is never newer
than the map in use and the second map is empty until it is in use, and what a
returned nil has left behind. Each action of the cache is then one of `AbstractCache` or a stutter:
`Fetch` is `Ask`, `PutEnd` is `Store` if its receiver is still the readers' map
and `Lose` if it is not, `resetCache` is `Expire`, and the rest change neither
the answers nor the readers' map. Since an answer is lost only when the receiver
is old, the proof also shows where an answer that was fetched can vanish: at a
reset between the load of the receiver and the assignment, and nowhere else.

### The dead letter queue

`DeadLetterQueueProofs` proves, for every finite set of callers, every set of
keys, every queue size and bound, and uploads that fail at will:

| theorem | property |
|---|---|
| `TypeCorrect` | `TypeOK`: among others, `addingWaitGroup` never goes below zero |
| `ExclusiveQueue` | `QueueExclusion`: the lock is held exactly by the goroutine that works on the queue |
| `NothingIsDropped` | `NothingDropped` |
| `LongerKeysEmpty` | `DerivedKeysEmpty`: the entries that `flush` adds are empty |
| `CloseTriesEveryKey` | `CloseTriesAll` |
| `OverwritesKeepData` | `OverwriteKeepsData`, an action property |

The assumption is `QueueAssumption`: the callers are finitely many (the WaitGroup
counts them), `start` and `Nobody` are not among them, and the numbers are
numbers. The argument of the invariant `DInv`: `flush` clears
only the entry of the key it has made longer (`LongerKey`: never a caller's key,
and by `DerivedKeysEmpty` empty before), so a caller's entry only grows and
holds all that was accepted (`Retained`). The range of `Close` therefore starts
with the key of everything owed (`CloseProgress`). What an object was made from
is a prefix of the entry it came from (`Uploaded`), and since the object's name
determines the key (`AppendInjective`), a replaced object's data is the
beginning of the new one's. The proof shows a limit as well: nothing is dropped
because nothing is ever cleared (`dlq_flush_violation`).

`TypeCorrect` has an invariant of its own, `TInv`: `adding` is the number of
callers between the lock and the last deferred call (`Adding`), each of which
adds one and takes it away, and what a range has visited is in the map.

### Startup

`StartupProofs` proves, for any sets of required settings, every environment and
every command line:

| theorem | property |
|---|---|
| `TypeCorrect` | `TypeOK` and the invariant `SInv` |
| `AskedForBeforeWork` | `RequiredBeforeWork` |
| `RetryNeverNil` | `RetryHasQueue` |
| `WiringIsAsAsked` | `WiredAsAsked` |

The assumption is `StartupAssumption`: the kinds of settings do not overlap. Each
property speaks of goroutines that exist at the end of the wiring, and what makes
it true happened several stages before. `SInv` carries it along: what the flags
have decided (`Parsed`), that the settings were verified with them (`Verified`),
what `GetBool` answers from then on (`Settled`), and which goroutines there are
at each stage (`Started`).

### The message path

`ClickstreamProducerProofs` proves, for any messages, integrations, topics and
answers of the cache, every size of the produce channel, with and without
`--retry`, for any number of restarts:

| theorem | property |
|---|---|
| `TypeCorrect` | `TypeOK` |
| `OneOwnerAlways` | `CopyHasOneOwner` |
| `CopySettledOnce` | `SettledOnce` |
| `OnlyForward` | `AliasOnlyForward` |
| `SingleExact` | `SingleIntegrationExact` |
| `RetryAlone` | `RetryIsExclusive` |
| `NothingAfterDestroy` | `NoUseAfterDestroy` |
| `RestartsAreSafe` | `RestartIsSafe` |

The assumption is `ProducerAssumption`: an answer is a finite map from names to
topics, the channel has room for a copy, the retry topic is not an integration's
(a setting the program does not check), and the values that stand for something
else (`Retry`, `Torn`, `Nil`) are not names or topics.

The invariant `PInv` has two halves. The first is about the loop of
`HandleMessage`: it visits each name of a map once (`Loops`), the shared variable
holds the topic of the last round that assigned it (`LoopVariable`), and what
was sent belongs to a round that is over (`SentCopies`). So a copy about to be
sent has not been sent before, and what a later dereference of the pointer finds
belongs to the copy's own round or to a later one (`Aliases`): this is all of
`AliasOnlyForward`, and with one integration there is no later round. The second
half is about ownership: each step of the library takes a copy from one owner and
gives it to the next (`OneOwner`, with `Unique`: no owner has it twice), none is
lost as long as the poller runs (`NothingLost`; `Stopping` says that this is so
until `Close` has begun), and so the owners' sizes
add up to no more than what was sent (`Balance`). `CopyHasOneOwner` speaks of
sizes and needs the count; the count alone is not inductive, since it does not
say that a step takes a copy out of where it was. A report of success is of a
copy that has been appended (`Good \subseteq Logged` in `OneOwner`); nothing of
the kind holds of a failure, so `SettledOnce` says where a counted copy is and
leaves open whether a dead letter is in its topic too.

### The composition

`RouterProofs` proves:

| theorem | says |
|---|---|
| `ProducerInRouter` | `RouterSpec => Spec`: every behaviour of the composition is one of the producer |
| `QueueInRouter` | `RouterSpec => D!Spec`: and one of the dead letter queue with one caller |
| `NothingLostBetween` | `NothingLostOnTheWay` |

To the producer's assumption `RouterAssumption` adds the queue's, and that there
are finitely many copies, each of which may be a call of `AddToQueue`.

A step of the composition is one of the producer alone, of the queue alone, or
`HandleReport`, which is a step of both (`WhoseStep`): the report is taken and
`AddToQueue` is called. Both parts' theorems hold in the composition for that
reason. What `NothingLostOnTheWay` needs between them is `Kept`: a copy given to
the queue is the datum of a call that waits for the lock, or it has been
accepted, and from then on `NothingDropped` keeps it, in an entry or in the body
of an object. The history value of an object does not count.

### The Houston client

`HoustonClientProofs` proves, for any callers, tokens, clock and answers, and
requests that fail at will:

| theorem | property |
|---|---|
| `TypeCorrect` | `TypeOK` |
| `OneHolder` | two callers are never both between lock and unlock |
| `TokenAndExpDate` | `TokenPair` |
| `RevokedBeforeCall` | `NoRevokedToken` |
| `CreatedWhenNeeded` | `NoSpareTokens`, an action property |
| `LoopsAreExact` | the loops of `GetIntegrations` compute what an answer means (`EnabledIntegrations`), whatever it lists |
| `AnswerIsHoustons` | `MapIsHoustons` |

The assumptions are `HoustonAssumption` (the API key is not a token's number,
`Nobody` is not a caller, the clock has a value) and `AnswersAssumption` (an
answer is a sequence of sources, each a sequence of entries; what the JSON
decodes to).

The invariant `HInv` says what the holder of the mutex knows at each step
(`Knows`): that the token it sent to Houston is still the one stored, and that
it goes on to `createToken` only after a faulty reply about it. Houston's
"accepted" may be out of date by then; all that lasts of it is that the token was not revoked when the call began
(`known`), which is why `NoRevokedToken` says no more than that.

`LoopsAreExact` is about a recursive function, and its proof is by induction over
the entries. The induction theorems of the library take a predicate, which the
provers cannot instantiate; `NatClosure` states induction for a set, and follows
from the well-foundedness of `<` on the naturals. With it the proof shows that
the function exists (`MapOfEntries`), that the sources one after the other are a
sequence (`FlattenType`), and what the map holds after each entry (`Found`). For
a faulty reply `AnswerIsHoustons` applies it to the part of the sources that came
(`Mapped`): what is enabled in a part is enabled in the whole (`PartsOffer`).

### The SSE client

`SSEClientProofs` proves, for any number of rounds and events:

| theorem | property |
|---|---|
| `TypeCorrect` | `TypeOK` |
| `OneReader` | `OneLiveReader` |
| `EventHandledOnce` | `HandledOnce` |
| `OneMoreRound` | `AtMostOneMoreRound` |

The assumption is `SSEAssumption`: the bounds are numbers. The invariant `SInv`
gives the reason why old goroutines do no harm. A listener asks for a close
after it took the last word of a reader, which has then ended, or because of a
shutdown, and then the loop is told to end. So unless it is told to end, no
reader is alive when a listener asks for a close (`Closing`), nor when the loop
makes a new connection (`Readers`). An event is in one place on its way from the
reader through `Listen` and the listener to the handler (`OnePlace`). Without
`Closing`, `OneLiveReader` is not inductive: a listener of an old round could
close the connection of the present one while its reader lives.

### What is only model-checked

Liveness, which is out of the prover's reach: `CallReturns` of the cache and of
the Houston client, `EveryMessageLands`, `AllGoroutinesStop`, `ListenersLeave`
and `SignalEnds`. Their fairness is discussed in section 3. The five
disagreements with the documentation are counterexamples and need no proof.

## 5. Not modelled

- **Metrics** (`pkg/prom`, `kafka/monitoring.go`): counters and gauges that are
  only written. Each report of librdkafka's statistics is handled by a goroutine
  of its own, so an older report may be written last; nothing relies on the
  order.
- **Cassandra** (`cassandra/client.go`): `start` never enables it. `mock` creates
  the client or ends (`mockCassandra`); an insertion that fails is logged.
- **S3 client, HTTP client**: I/O; only their outcomes are modelled (`SendToS3`,
  `Do`).
- **JSON decoding**: generated code; a message parses or does not. The unmarshal
  error path of `handleEvents`, which ends its loop, needs a value that
  `HandleMessage`'s own call of `UnmarshalJSON` has rejected; none reaches it.
- **Misuse of the WaitGroup**: `AddToQueue` takes lock and WaitGroup in one step
  (`AddLocked`), so that an `Add` from zero never meets a `Wait` that is waking
  up, which the library may answer with a panic
  (`deadletterqueue/client.go:94`, `179`).
- **The two assignments of `resetCache`** (`integrations.go:109`, `111`) are one
  step: between them an update would use the old mutexes with the new map.
- **A last line without a newline** at the end of an event stream: the vendored
  `sse.go:182-188` handles it like any line, and panics at `spl[1]` if it is a bare
  field name. The model's reader ends there (`ReadEOF`).
- **A mutation of Houston that answers with errors and data**: a faulty reply to
  `verifyToken` or `createToken` has no data.
- **Rebalancing** of the consumer, and redelivery after a restart: the library
  keeps that state.
- **Values of settings**: `Startup` knows whether a setting is empty. What a
  number that does not parse leads to is left out.

## 6. Plan

Done: the cache with its abstract specification, the dead letter queue, the
message path with the loop that restarts the consumer and its composition with
the queue, the Houston client, the SSE client and the startup; and the safety of
each of them as theorems.

Next: an abstract specification of the message path, in which a copy is sent and
then settled once, with `ClickstreamProducer` shown to implement it by a theorem;
the same for the dead letter queue, in which an accepted datum is in the bucket
or kept; and for the liveness properties, the safety facts their arguments rest
on (who is waited for can go on), as `NoOrphanLocks` is for the cache.

The runs are kept to one per question; a new property joins the run of its
module, and a new module brings one run.
