---------------------------- MODULE StartupProofs ----------------------------
(***************************************************************************)
(* Safety of Startup for any sets of required settings, any environment    *)
(* and any command line.                                                   *)
(*                                                                         *)
(* None of the three properties is inductive: each speaks of goroutines    *)
(* that exist at the end of the wiring, and what makes it true happened    *)
(* several stages before.  SInv carries these facts along: what each stage *)
(* main has come past has left behind.                                     *)
(***************************************************************************)
EXTENDS Startup, TLAPS

(* Stages by what main has done before them. *)
NotParsed    == {"init mock.go", "init root.go", "init start.go", "parse"}
NotVerified  == NotParsed \cup {"initialize"}
NotPrepared  == NotVerified \cup {"prepare"}
NotCached    == NotPrepared \cup {"integrations"}
NotListening == NotCached \cup {"sse"}
NotBacked    == NotListening \cup {"backend"}
NotProducing == NotBacked \cup {"producer"}
NotReading   == NotProducing \cup {"consumer", "signal", "run"}

(* TypeOK in two parts: the provers treat Booleans apart. *)
Types ==
  /\ cmd \in {"start", "mock"}
  /\ flags \in Flags
  /\ DOMAIN override \subseteq Switches
  /\ pc \in Stages
  /\ running \subseteq Goroutines
  /\ handler \in {"off", "begun", "notified", "done"}
  /\ status \in {"running", "exit", "killed", "panic", "nil dereference"}

Booleans ==
  /\ DisableSSE \in BOOLEAN /\ EnableRetry \in BOOLEAN
  /\ DeadletterClient \in BOOLEAN
  /\ sigchan \in BOOLEAN /\ signalled \in BOOLEAN /\ shutdown \in BOOLEAN

Inputs == args \in {"none", "bad", "good"} /\ env \subseteq Settings

(* init of root.go runs last of the two that assign DisableSSE; the flags  *)
(* decide from then on.                                                    *)
Parsed ==
  /\ pc \in {"init start.go", "parse"} => ~DisableSSE
  /\ pc \notin NotParsed => /\ DisableSSE <=> flags.sse = "true"
                            /\ EnableRetry = flags.retry
                            /\ cmd = "mock" => flags.disableCacheTTL = "absent"

Verified == pc \notin NotVerified => verifyRequiredEnvVars

(* What GetBool says once the command has set what it sets. *)
Settled ==
  /\ cmd = "mock" \/ pc \in NotPrepared => DOMAIN override = {}
  /\ cmd = "start" /\ pc \notin NotPrepared =>
       /\ GetBool("RETRY") = EnableRetry
       /\ GetBool("DISABLE_CACHE_TTL") <=>
            flags.disableCacheTTL = "true" \/ "DISABLE_CACHE_TTL" \in env

(* Which goroutines there are. *)
Started ==
  /\ "ttl" \in running <=> /\ pc \notin NotCached
                           /\ flags.disableCacheTTL # "true"
                           /\ "DISABLE_CACHE_TTL" \notin env
  /\ "sse" \in running <=> pc \notin NotListening /\ ~DisableSSE
  /\ "deadletter" \in running <=>
       pc \notin NotBacked /\ cmd = "start" /\ EnableRetry
  /\ DeadletterClient <=> "deadletter" \in running
  /\ "handleEvents" \in running <=> pc \notin NotProducing
  /\ "consumer" \in running <=> pc \notin NotReading
  /\ pc \in NotCached => running = {}

SInv ==
  /\ Types /\ Booleans /\ Inputs /\ RetryHasQueue
  /\ Parsed /\ Verified /\ Settled /\ Started

USE DEF NotParsed, NotVerified, NotPrepared, NotCached, NotListening,
        NotBacked, NotProducing, NotReading

LEMMA InitSInv == Init => SInv
<1> SUFFICES ASSUME Init PROVE SInv
  OBVIOUS
<1>1. Booleans
  BY DEF Init, Booleans
<1>2. Types /\ Inputs /\ RetryHasQueue
  BY DEF Init, Types, Inputs, Stages, RetryHasQueue
<1>3. Parsed /\ Verified /\ Settled /\ Started
  BY DEF Init, Parsed, Verified, Settled, Started
<1> QED
  BY <1>1, <1>2, <1>3 DEF SInv

(* A step that fails ends the process, and nothing else; so does one that  *)
(* changes nothing.                                                        *)
LEMMA FailKeepsSInv ==
  ASSUME SInv, UNCHANGED <<input, config, pc, built, stop>>,
         status' \in {status, "exit", "panic"}
  PROVE  SInv'
<1>1. Booleans'
  BY DEF SInv, Booleans, config, built, stop
<1>2. Types' /\ Inputs' /\ RetryHasQueue'
  BY DEF SInv, Types, Inputs, RetryHasQueue, input, config, built, stop
<1>3. Parsed' /\ Verified'
  BY DEF SInv, Parsed, Verified, verifyRequiredEnvVars, Required, input, config
<1>4. Settled'
  BY DEF SInv, Settled, GetBool, input, config
<1>5. Started'
  BY DEF SInv, Started, input, config, built
<1> QED
  BY <1>1, <1>2, <1>3, <1>4, <1>5 DEF SInv

(* Before the command runs. *)
LEMMA BeforeStep ==
  ASSUME SInv, \/ initMockFile
               \/ initRootFile
               \/ initStartFile
               \/ ParseFlags
               \/ Initialize
  PROVE  SInv'
<1>1. CASE initMockFile
  <2>1. Types' /\ Inputs' /\ RetryHasQueue'
    BY <1>1 DEF SInv, Types, Inputs, RetryHasQueue, Stages, Goroutines,
           Switches, initMockFile, At, Go, input, config, built, stop
  <2>2. Booleans'
    BY <1>1 DEF SInv, Types, Flags, Booleans, initMockFile, At, Go, input,
           config, built, stop
  <2>3. Parsed' /\ Verified'
    BY <1>1 DEF SInv, Types, Flags, Booleans, Parsed, Verified,
           verifyRequiredEnvVars, Required, initMockFile, At, Go, input,
           config, built, stop
  <2>4. Settled'
    BY <1>1 DEF SInv, Types, Booleans, Settled, GetBool, Switches,
           initMockFile, At, Go, input, config, built, stop
  <2>5. Started'
    BY <1>1 DEF SInv, Types, Stages, Booleans, Flags, Parsed, Started,
           initMockFile, At, Go, input, config, built, stop
  <2> QED
    BY <2>1, <2>2, <2>3, <2>4, <2>5 DEF SInv
<1>2. CASE initRootFile
  <2>1. Types' /\ Inputs' /\ RetryHasQueue'
    BY <1>2 DEF SInv, Types, Inputs, RetryHasQueue, Stages, Goroutines,
           Switches, initRootFile, rootDefault, At, Go, input, config, built,
           stop
  <2>2. Booleans'
    BY <1>2 DEF SInv, Types, Flags, Booleans, initRootFile, rootDefault, At,
           Go, input, config, built, stop
  <2>3. Parsed' /\ Verified'
    BY <1>2 DEF SInv, Types, Flags, Booleans, Parsed, Verified,
           verifyRequiredEnvVars, Required, initRootFile, rootDefault, At, Go,
           input, config, built, stop
  <2>4. Settled'
    BY <1>2 DEF SInv, Types, Booleans, Settled, GetBool, Switches,
           initRootFile, rootDefault, At, Go, input, config, built, stop
  <2>5. Started'
    BY <1>2 DEF SInv, Types, Stages, Booleans, Flags, Parsed, Started,
           initRootFile, rootDefault, At, Go, input, config, built, stop
  <2> QED
    BY <2>1, <2>2, <2>3, <2>4, <2>5 DEF SInv
<1>3. CASE initStartFile
  <2>1. Types' /\ Inputs' /\ RetryHasQueue'
    BY <1>3 DEF SInv, Types, Inputs, RetryHasQueue, Stages, Goroutines,
           Switches, initStartFile, At, Go, input, config, built, stop
  <2>2. Booleans'
    BY <1>3 DEF SInv, Types, Flags, Booleans, initStartFile, At, Go, input,
           config, built, stop
  <2>3. Parsed' /\ Verified'
    BY <1>3 DEF SInv, Types, Flags, Booleans, Parsed, Verified,
           verifyRequiredEnvVars, Required, initStartFile, At, Go, input,
           config, built, stop
  <2>4. Settled'
    BY <1>3 DEF SInv, Types, Booleans, Settled, GetBool, Switches,
           initStartFile, At, Go, input, config, built, stop
  <2>5. Started'
    BY <1>3 DEF SInv, Types, Stages, Booleans, Flags, Parsed, Started,
           initStartFile, At, Go, input, config, built, stop
  <2> QED
    BY <2>1, <2>2, <2>3, <2>4, <2>5 DEF SInv
<1>4. CASE ParseFlags
  <2>a. CASE Fail(cmd, "parse", "exit")
    BY <2>a, FailKeepsSInv DEF Fail
  <2>b. CASE /\ ~UnknownFlag
             /\ At(cmd, "parse", "initialize")
             /\ DisableSSE' = CASE flags.sse = "absent" -> DisableSSE
                                [] OTHER -> flags.sse = "true"
             /\ EnableRetry' = flags.retry
             /\ UNCHANGED <<override, built>>
    <3>1. Types' /\ Inputs' /\ RetryHasQueue'
      BY <2>b DEF SInv, Types, Inputs, RetryHasQueue, Stages, Goroutines,
             Switches, UnknownFlag, At, Go, input, config, built, stop
    <3>2. Booleans'
      BY <2>b DEF SInv, Types, Flags, Booleans, UnknownFlag, At, Go, input,
             config, built, stop
    <3>3. Parsed' /\ Verified'
      BY <2>b DEF SInv, Types, Flags, Booleans, Parsed, Verified,
             verifyRequiredEnvVars, Required, UnknownFlag, At, Go, input,
             config, built, stop
    <3>4. Settled'
      BY <2>b DEF SInv, Types, Booleans, Settled, GetBool, Switches,
             UnknownFlag, At, Go, input, config, built, stop
    <3>5. Started'
      BY <2>b DEF SInv, Types, Stages, Booleans, Flags, Parsed, Started,
             UnknownFlag, At, Go, input, config, built, stop
    <3> QED
      BY <3>1, <3>2, <3>3, <3>4, <3>5 DEF SInv
  <2> QED
    BY <1>4, <2>a, <2>b DEF ParseFlags
<1>5. CASE Initialize
  <2>a. CASE Fail(cmd, "initialize", "exit")
    BY <2>a, FailKeepsSInv DEF Fail
  <2>b. CASE /\ verifyRequiredEnvVars
             /\ At(cmd, "initialize", "prepare")
             /\ UNCHANGED <<config, built>>
    <3>1. Types' /\ Inputs' /\ RetryHasQueue'
      BY <2>b DEF SInv, Types, Inputs, RetryHasQueue, Stages, Goroutines,
             Switches, At, Go, input, config, built, stop
    <3>2. Booleans'
      BY <2>b DEF SInv, Types, Flags, Booleans, At, Go, input, config, built,
             stop
    <3>3. Parsed' /\ Verified'
      BY <2>b DEF SInv, Types, Flags, Booleans, Parsed, Verified,
             verifyRequiredEnvVars, Required, At, Go, input, config, built,
             stop
    <3>4. Settled'
      BY <2>b DEF SInv, Types, Booleans, Settled, GetBool, Switches, At, Go,
             input, config, built, stop
    <3>5. Started'
      BY <2>b DEF SInv, Types, Stages, Booleans, Flags, Parsed, Started, At,
             Go, input, config, built, stop
    <3> QED
      BY <3>1, <3>2, <3>3, <3>4, <3>5 DEF SInv
  <2> QED
    BY <1>5, <2>a, <2>b DEF Initialize
<1> QED
  BY <1>1, <1>2, <1>3, <1>4, <1>5

(* The command `start'. *)
LEMMA StartStep ==
  ASSUME SInv, \/ startPrepare
               \/ startIntegrations
               \/ startSSE
               \/ startDeadLetter
               \/ startProducer
               \/ startConsumer
               \/ startSignal
               \/ startRun
  PROVE  SInv'
<1>1. CASE startPrepare
  <2>a. CASE Fail("start", "prepare", "exit")
    BY <2>a, FailKeepsSInv DEF Fail
  <2>b. CASE /\ At("start", "prepare", "integrations")
             /\ override' = [s \in startSets |-> s = "RETRY" => EnableRetry]
             /\ UNCHANGED <<DisableSSE, EnableRetry, built>>
    <3>1. Types' /\ Inputs' /\ RetryHasQueue'
      BY <2>b DEF SInv, Types, Inputs, RetryHasQueue, Stages, Goroutines,
             Switches, startSets, At, Go, input, config, built, stop
    <3>2. Booleans'
      BY <2>b DEF SInv, Types, Flags, Booleans, startSets, At, Go, input,
             config, built, stop
    <3>3. Parsed' /\ Verified'
      BY <2>b DEF SInv, Types, Flags, Booleans, Parsed, Verified,
             verifyRequiredEnvVars, Required, startSets, At, Go, input, config,
             built, stop
    <3>4. Settled'
      BY <2>b DEF SInv, Types, Booleans, Settled, GetBool, Switches, startSets,
             At, Go, input, config, built, stop
    <3>5. Started'
      BY <2>b DEF SInv, Types, Stages, Booleans, Flags, Parsed, Started,
             startSets, At, Go, input, config, built, stop
    <3> QED
      BY <3>1, <3>2, <3>3, <3>4, <3>5 DEF SInv
  <2> QED
    BY <1>1, <2>a, <2>b DEF startPrepare
<1>2. CASE startIntegrations
  <2>a. GetBool("DISABLE_CACHE_TTL") <=>
          flags.disableCacheTTL = "true" \/ "DISABLE_CACHE_TTL" \in env
    BY <1>2 DEF SInv, Types, Settled, startIntegrations, At
  <2>b. running' = IF \/ flags.disableCacheTTL = "true"
                      \/ "DISABLE_CACHE_TTL" \in env
                     THEN running ELSE running \cup {"ttl"}
    BY <1>2, <2>a DEF NewIntegrations, startIntegrations, Go
  <2>1. Types' /\ Inputs' /\ RetryHasQueue'
    BY <1>2 DEF SInv, Types, Inputs, RetryHasQueue, Stages, Goroutines,
           Switches, startIntegrations, NewIntegrations, At, Go, input, config,
           built, stop
  <2>2. Booleans'
    BY <1>2 DEF SInv, Types, Flags, Booleans, startIntegrations,
           NewIntegrations, At, Go, input, config, built, stop
  <2>3. Parsed' /\ Verified'
    BY <1>2 DEF SInv, Types, Flags, Booleans, Parsed, Verified,
           verifyRequiredEnvVars, Required, startIntegrations, NewIntegrations,
           At, Go, input, config, built, stop
  <2>4. Settled'
    BY <1>2 DEF SInv, Types, Booleans, Settled, GetBool, Switches,
           startIntegrations, NewIntegrations, At, Go, input, config, built,
           stop
  <2>5. Started'
    <3>1. /\ pc = "integrations" /\ pc' = "sse" /\ running = {}
          /\ UNCHANGED <<cmd, flags, env, DisableSSE, DeadletterClient>>
      BY <1>2 DEF SInv, Started, NewIntegrations, startIntegrations, At, input,
             config
    <3>2. ~DeadletterClient'
      BY <3>1 DEF SInv, Started
    <3>3. /\ "ttl" \in running' <=> /\ flags'.disableCacheTTL # "true"
                                    /\ "DISABLE_CACHE_TTL" \notin env'
          /\ running' \subseteq {"ttl"}
      BY <2>b, <3>1
    <3> QED
      BY <3>1, <3>2, <3>3 DEF Started
  <2> QED
    BY <2>1, <2>2, <2>3, <2>4, <2>5 DEF SInv
<1>3. CASE startSSE
  <2>1. Types' /\ Inputs' /\ RetryHasQueue'
    BY <1>3 DEF SInv, Types, Inputs, RetryHasQueue, Stages, Goroutines,
           Switches, startSSE, SubscribeSSE, At, Go, input, config, built, stop
  <2>2. Booleans'
    BY <1>3 DEF SInv, Types, Flags, Booleans, startSSE, SubscribeSSE, At, Go,
           input, config, built, stop
  <2>3. Parsed' /\ Verified'
    BY <1>3 DEF SInv, Types, Flags, Booleans, Parsed, Verified,
           verifyRequiredEnvVars, Required, startSSE, SubscribeSSE, At, Go,
           input, config, built, stop
  <2>4. Settled'
    BY <1>3 DEF SInv, Types, Booleans, Settled, GetBool, Switches, startSSE,
           SubscribeSSE, At, Go, input, config, built, stop
  <2>5. Started'
    BY <1>3 DEF SInv, Types, Stages, Booleans, Flags, Parsed, Started,
           startSSE, SubscribeSSE, At, Go, input, config, built, stop
  <2> QED
    BY <2>1, <2>2, <2>3, <2>4, <2>5 DEF SInv
<1>4. CASE startDeadLetter
  <2>a. CASE Fail("start", "backend", "exit")
    BY <2>a, FailKeepsSInv DEF Fail
  <2>b. CASE /\ At("start", "backend", "producer")
             /\ IF EnableRetry THEN Go("deadletter") ELSE UNCHANGED running
             /\ DeadletterClient' = EnableRetry
             /\ UNCHANGED config
    <3>1. Types' /\ Inputs' /\ RetryHasQueue'
      BY <2>b DEF SInv, Types, Inputs, RetryHasQueue, Stages, Goroutines,
             Switches, At, Go, input, config, built, stop
    <3>2. Booleans'
      BY <2>b DEF SInv, Types, Flags, Booleans, At, Go, input, config, built,
             stop
    <3>3. Parsed' /\ Verified'
      BY <2>b DEF SInv, Types, Flags, Booleans, Parsed, Verified,
             verifyRequiredEnvVars, Required, At, Go, input, config, built,
             stop
    <3>4. Settled'
      BY <2>b DEF SInv, Types, Booleans, Settled, GetBool, Switches, At, Go,
             input, config, built, stop
    <3>5. Started'
      <4>1. /\ pc = "backend" /\ pc' = "producer" /\ cmd' = "start"
            /\ UNCHANGED <<flags, env, DisableSSE, EnableRetry>>
        BY <2>b DEF At, input, config
      <4>2. running' = IF EnableRetry THEN running \cup {"deadletter"}
                                      ELSE running
        BY <2>b DEF Go
      <4>3. "deadletter" \notin running
        BY <4>1 DEF SInv, Started
      <4>4. /\ "deadletter" \in running' <=> EnableRetry'
            /\ \A g \in Goroutines \ {"deadletter"} :
                 g \in running' <=> g \in running
        BY <4>1, <4>2, <4>3
      <4>5. DeadletterClient' <=> "deadletter" \in running'
        BY <2>b, <4>1, <4>4
      <4> QED
        BY <4>1, <4>4, <4>5 DEF SInv, Started, Goroutines
    <3> QED
      BY <3>1, <3>2, <3>3, <3>4, <3>5 DEF SInv
  <2> QED
    BY <1>4, <2>a, <2>b DEF startDeadLetter
<1>5. CASE startProducer
  <2>a. CASE Fail("start", "producer", "exit")
    BY <2>a, FailKeepsSInv DEF Fail
  <2>b. CASE At("start", "producer", "consumer") /\ NewProducer
    <3>1. Types' /\ Inputs' /\ RetryHasQueue'
      BY <2>b DEF SInv, Types, Inputs, RetryHasQueue, Stages, Goroutines,
             Switches, NewProducer, At, Go, input, config, built, stop
    <3>2. Booleans'
      BY <2>b DEF SInv, Types, Flags, Booleans, NewProducer, At, Go, input,
             config, built, stop
    <3>3. Parsed' /\ Verified'
      BY <2>b DEF SInv, Types, Flags, Booleans, Parsed, Verified,
             verifyRequiredEnvVars, Required, NewProducer, At, Go, input,
             config, built, stop
    <3>4. Settled'
      BY <2>b DEF SInv, Types, Booleans, Settled, GetBool, Switches,
             NewProducer, At, Go, input, config, built, stop
    <3>5. Started'
      BY <2>b DEF SInv, Types, Stages, Booleans, Flags, Parsed, Started,
             NewProducer, At, Go, input, config, built, stop
    <3> QED
      BY <3>1, <3>2, <3>3, <3>4, <3>5 DEF SInv
  <2> QED
    BY <1>5, <2>a, <2>b DEF startProducer
<1>6. CASE startConsumer
  <2>a. CASE Fail("start", "consumer", "exit")
    BY <2>a, FailKeepsSInv DEF Fail
  <2>b. CASE /\ At("start", "consumer", "signal")
             /\ UNCHANGED <<config, built>>
    <3>1. Types' /\ Inputs' /\ RetryHasQueue'
      BY <2>b DEF SInv, Types, Inputs, RetryHasQueue, Stages, Goroutines,
             Switches, At, Go, input, config, built, stop
    <3>2. Booleans'
      BY <2>b DEF SInv, Types, Flags, Booleans, At, Go, input, config, built,
             stop
    <3>3. Parsed' /\ Verified'
      BY <2>b DEF SInv, Types, Flags, Booleans, Parsed, Verified,
             verifyRequiredEnvVars, Required, At, Go, input, config, built,
             stop
    <3>4. Settled'
      BY <2>b DEF SInv, Types, Booleans, Settled, GetBool, Switches, At, Go,
             input, config, built, stop
    <3>5. Started'
      BY <2>b DEF SInv, Types, Stages, Booleans, Flags, Parsed, Started, At,
             Go, input, config, built, stop
    <3> QED
      BY <3>1, <3>2, <3>3, <3>4, <3>5 DEF SInv
  <2> QED
    BY <1>6, <2>a, <2>b DEF startConsumer
<1>7. CASE startSignal
  <2>1. Types' /\ Inputs' /\ RetryHasQueue'
    BY <1>7 DEF SInv, Types, Inputs, RetryHasQueue, Stages, Goroutines,
           Switches, startSignal, At, Go, input, config, built, stop
  <2>2. Booleans'
    BY <1>7 DEF SInv, Types, Flags, Booleans, startSignal, At, Go, input,
           config, built, stop
  <2>3. Parsed' /\ Verified'
    BY <1>7 DEF SInv, Types, Flags, Booleans, Parsed, Verified,
           verifyRequiredEnvVars, Required, startSignal, At, Go, input, config,
           built, stop
  <2>4. Settled'
    BY <1>7 DEF SInv, Types, Booleans, Settled, GetBool, Switches, startSignal,
           At, Go, input, config, built, stop
  <2>5. Started'
    BY <1>7 DEF SInv, Types, Stages, Booleans, Flags, Parsed, Started,
           startSignal, At, Go, input, config, built, stop
  <2> QED
    BY <2>1, <2>2, <2>3, <2>4, <2>5 DEF SInv
<1>8. CASE startRun
  <2>1. Types' /\ Inputs' /\ RetryHasQueue'
    BY <1>8 DEF SInv, Types, Inputs, RetryHasQueue, Stages, Goroutines,
           Switches, startRun, At, Go, input, config, built, stop
  <2>2. Booleans'
    BY <1>8 DEF SInv, Types, Flags, Booleans, startRun, At, Go, input, config,
           built, stop
  <2>3. Parsed' /\ Verified'
    BY <1>8 DEF SInv, Types, Flags, Booleans, Parsed, Verified,
           verifyRequiredEnvVars, Required, startRun, At, Go, input, config,
           built, stop
  <2>4. Settled'
    BY <1>8 DEF SInv, Types, Booleans, Settled, GetBool, Switches, startRun,
           At, Go, input, config, built, stop
  <2>5. Started'
    BY <1>8 DEF SInv, Types, Stages, Booleans, Flags, Parsed, Started,
           startRun, At, Go, input, config, built, stop
  <2> QED
    BY <2>1, <2>2, <2>3, <2>4, <2>5 DEF SInv
<1> QED
  BY <1>1, <1>2, <1>3, <1>4, <1>5, <1>6, <1>7, <1>8

(* The command `mock'. *)
LEMMA MockStep ==
  ASSUME SInv, \/ mockPrepare
               \/ mockIntegrations
               \/ mockSSE
               \/ mockCassandra
               \/ mockProducer
               \/ mockConsumer
  PROVE  SInv'
<1>1. CASE mockPrepare
  <2>a. CASE \/ Fail("mock", "prepare", "exit")
             \/ Fail("mock", "prepare", "panic")
    BY <2>a, FailKeepsSInv DEF Fail
  <2>b. CASE /\ At("mock", "prepare", "integrations")
             /\ UNCHANGED <<config, built>>
    <3>1. Types' /\ Inputs' /\ RetryHasQueue'
      BY <2>b DEF SInv, Types, Inputs, RetryHasQueue, Stages, Goroutines,
             Switches, At, Go, input, config, built, stop
    <3>2. Booleans'
      BY <2>b DEF SInv, Types, Flags, Booleans, At, Go, input, config, built,
             stop
    <3>3. Parsed' /\ Verified'
      BY <2>b DEF SInv, Types, Flags, Booleans, Parsed, Verified,
             verifyRequiredEnvVars, Required, At, Go, input, config, built,
             stop
    <3>4. Settled'
      BY <2>b DEF SInv, Types, Booleans, Settled, GetBool, Switches, At, Go,
             input, config, built, stop
    <3>5. Started'
      BY <2>b DEF SInv, Types, Stages, Booleans, Flags, Parsed, Started, At,
             Go, input, config, built, stop
    <3> QED
      BY <3>1, <3>2, <3>3, <3>4, <3>5 DEF SInv
  <2> QED
    BY <1>1, <2>a, <2>b DEF mockPrepare
<1>2. CASE mockIntegrations
  <2>a. GetBool("DISABLE_CACHE_TTL") <=> "DISABLE_CACHE_TTL" \in env
    BY <1>2 DEF SInv, Types, Settled, GetBool, mockIntegrations, At
  <2>b. running' = IF "DISABLE_CACHE_TTL" \in env
                     THEN running ELSE running \cup {"ttl"}
    BY <1>2, <2>a DEF NewIntegrations, mockIntegrations, Go
  <2>1. Types' /\ Inputs' /\ RetryHasQueue'
    BY <1>2 DEF SInv, Types, Inputs, RetryHasQueue, Stages, Goroutines,
           Switches, mockIntegrations, NewIntegrations, At, Go, input, config,
           built, stop
  <2>2. Booleans'
    BY <1>2 DEF SInv, Types, Flags, Booleans, mockIntegrations,
           NewIntegrations, At, Go, input, config, built, stop
  <2>3. Parsed' /\ Verified'
    BY <1>2 DEF SInv, Types, Flags, Booleans, Parsed, Verified,
           verifyRequiredEnvVars, Required, mockIntegrations, NewIntegrations,
           At, Go, input, config, built, stop
  <2>4. Settled'
    BY <1>2 DEF SInv, Types, Booleans, Settled, GetBool, Switches,
           mockIntegrations, NewIntegrations, At, Go, input, config, built,
           stop
  <2>5. Started'
    <3>1. /\ pc = "integrations" /\ pc' = "sse" /\ running = {}
          /\ UNCHANGED <<cmd, flags, env, DisableSSE, DeadletterClient>>
      BY <1>2 DEF SInv, Started, NewIntegrations, mockIntegrations, At, input,
             config
    <3>2. ~DeadletterClient'
      BY <3>1 DEF SInv, Started
    <3>3. /\ "ttl" \in running' <=> /\ flags'.disableCacheTTL # "true"
                                    /\ "DISABLE_CACHE_TTL" \notin env'
          /\ running' \subseteq {"ttl"}
      BY <1>2, <2>b, <3>1 DEF SInv, Parsed, mockIntegrations, At
    <3> QED
      BY <3>1, <3>2, <3>3 DEF Started
  <2> QED
    BY <2>1, <2>2, <2>3, <2>4, <2>5 DEF SInv
<1>3. CASE mockSSE
  <2>1. Types' /\ Inputs' /\ RetryHasQueue'
    BY <1>3 DEF SInv, Types, Inputs, RetryHasQueue, Stages, Goroutines,
           Switches, mockSSE, SubscribeSSE, At, Go, input, config, built, stop
  <2>2. Booleans'
    BY <1>3 DEF SInv, Types, Flags, Booleans, mockSSE, SubscribeSSE, At, Go,
           input, config, built, stop
  <2>3. Parsed' /\ Verified'
    BY <1>3 DEF SInv, Types, Flags, Booleans, Parsed, Verified,
           verifyRequiredEnvVars, Required, mockSSE, SubscribeSSE, At, Go,
           input, config, built, stop
  <2>4. Settled'
    BY <1>3 DEF SInv, Types, Booleans, Settled, GetBool, Switches, mockSSE,
           SubscribeSSE, At, Go, input, config, built, stop
  <2>5. Started'
    BY <1>3 DEF SInv, Types, Stages, Booleans, Flags, Parsed, Started, mockSSE,
           SubscribeSSE, At, Go, input, config, built, stop
  <2> QED
    BY <2>1, <2>2, <2>3, <2>4, <2>5 DEF SInv
<1>4. CASE mockCassandra
  <2>a. CASE Fail("mock", "backend", "exit")
    BY <2>a, FailKeepsSInv DEF Fail
  <2>b. CASE /\ At("mock", "backend", "producer")
             /\ UNCHANGED <<config, built>>
    <3>1. Types' /\ Inputs' /\ RetryHasQueue'
      BY <2>b DEF SInv, Types, Inputs, RetryHasQueue, Stages, Goroutines,
             Switches, At, Go, input, config, built, stop
    <3>2. Booleans'
      BY <2>b DEF SInv, Types, Flags, Booleans, At, Go, input, config, built,
             stop
    <3>3. Parsed' /\ Verified'
      BY <2>b DEF SInv, Types, Flags, Booleans, Parsed, Verified,
             verifyRequiredEnvVars, Required, At, Go, input, config, built,
             stop
    <3>4. Settled'
      BY <2>b DEF SInv, Types, Booleans, Settled, GetBool, Switches, At, Go,
             input, config, built, stop
    <3>5. Started'
      BY <2>b DEF SInv, Types, Stages, Booleans, Flags, Parsed, Started, At,
             Go, input, config, built, stop
    <3> QED
      BY <3>1, <3>2, <3>3, <3>4, <3>5 DEF SInv
  <2> QED
    BY <1>4, <2>a, <2>b DEF mockCassandra
<1>5. CASE mockProducer
  <2>a. CASE Fail("mock", "producer", "panic")
    BY <2>a, FailKeepsSInv DEF Fail
  <2>b. CASE At("mock", "producer", "consumer") /\ NewProducer
    <3>1. Types' /\ Inputs' /\ RetryHasQueue'
      BY <2>b DEF SInv, Types, Inputs, RetryHasQueue, Stages, Goroutines,
             Switches, NewProducer, At, Go, input, config, built, stop
    <3>2. Booleans'
      BY <2>b DEF SInv, Types, Flags, Booleans, NewProducer, At, Go, input,
             config, built, stop
    <3>3. Parsed' /\ Verified'
      BY <2>b DEF SInv, Types, Flags, Booleans, Parsed, Verified,
             verifyRequiredEnvVars, Required, NewProducer, At, Go, input,
             config, built, stop
    <3>4. Settled'
      BY <2>b DEF SInv, Types, Booleans, Settled, GetBool, Switches,
             NewProducer, At, Go, input, config, built, stop
    <3>5. Started'
      BY <2>b DEF SInv, Types, Stages, Booleans, Flags, Parsed, Started,
             NewProducer, At, Go, input, config, built, stop
    <3> QED
      BY <3>1, <3>2, <3>3, <3>4, <3>5 DEF SInv
  <2> QED
    BY <1>5, <2>a, <2>b DEF mockProducer
<1>6. CASE mockConsumer
  <2>a. CASE Fail("mock", "consumer", "exit")
    BY <2>a, FailKeepsSInv DEF Fail
  <2>b. CASE /\ At("mock", "consumer", "serve")
             /\ Go("consumer")
             /\ UNCHANGED <<config, DeadletterClient>>
    <3>1. Types' /\ Inputs' /\ RetryHasQueue'
      BY <2>b DEF SInv, Types, Inputs, RetryHasQueue, Stages, Goroutines,
             Switches, At, Go, input, config, built, stop
    <3>2. Booleans'
      BY <2>b DEF SInv, Types, Flags, Booleans, At, Go, input, config, built,
             stop
    <3>3. Parsed' /\ Verified'
      BY <2>b DEF SInv, Types, Flags, Booleans, Parsed, Verified,
             verifyRequiredEnvVars, Required, At, Go, input, config, built,
             stop
    <3>4. Settled'
      BY <2>b DEF SInv, Types, Booleans, Settled, GetBool, Switches, At, Go,
             input, config, built, stop
    <3>5. Started'
      BY <2>b DEF SInv, Types, Stages, Booleans, Flags, Parsed, Started, At,
             Go, input, config, built, stop
    <3> QED
      BY <3>1, <3>2, <3>3, <3>4, <3>5 DEF SInv
  <2> QED
    BY <1>6, <2>a, <2>b DEF mockConsumer
<1> QED
  BY <1>1, <1>2, <1>3, <1>4, <1>5, <1>6

(* Serve, signals and deliveries. *)
LEMMA OtherStep ==
  ASSUME SInv, \/ Serve
               \/ MainReturns
               \/ Notify
               \/ Signal
               \/ HandleSignal
               \/ DeliveryFails
  PROVE  SInv'
<1>1. CASE Serve
  <2>1. Types' /\ Inputs' /\ RetryHasQueue'
    BY <1>1 DEF SInv, Types, Inputs, RetryHasQueue, Stages, Goroutines,
           Switches, Serve, At, Go, input, config, built, stop
  <2>2. Booleans'
    BY <1>1 DEF SInv, Types, Flags, Booleans, Serve, At, Go, input, config,
           built, stop
  <2>3. Parsed' /\ Verified'
    BY <1>1 DEF SInv, Types, Flags, Booleans, Parsed, Verified,
           verifyRequiredEnvVars, Required, Serve, At, Go, input, config,
           built, stop
  <2>4. Settled'
    BY <1>1 DEF SInv, Types, Booleans, Settled, GetBool, Switches, Serve, At,
           Go, input, config, built, stop
  <2>5. Started'
    BY <1>1 DEF SInv, Types, Stages, Booleans, Flags, Parsed, Started, Serve,
           At, Go, input, config, built, stop
  <2> QED
    BY <2>1, <2>2, <2>3, <2>4, <2>5 DEF SInv
<1>2. CASE MainReturns
  <2>1. Types' /\ Inputs' /\ RetryHasQueue'
    BY <1>2 DEF SInv, Types, Inputs, RetryHasQueue, Stages, Goroutines,
           Switches, MainReturns, At, Go, input, config, built, stop
  <2>2. Booleans'
    BY <1>2 DEF SInv, Types, Flags, Booleans, MainReturns, At, Go, input,
           config, built, stop
  <2>3. Parsed' /\ Verified'
    BY <1>2 DEF SInv, Types, Flags, Booleans, Parsed, Verified,
           verifyRequiredEnvVars, Required, MainReturns, At, Go, input, config,
           built, stop
  <2>4. Settled'
    BY <1>2 DEF SInv, Types, Booleans, Settled, GetBool, Switches, MainReturns,
           At, Go, input, config, built, stop
  <2>5. Started'
    BY <1>2 DEF SInv, Types, Stages, Booleans, Flags, Parsed, Started,
           MainReturns, At, Go, input, config, built, stop
  <2> QED
    BY <2>1, <2>2, <2>3, <2>4, <2>5 DEF SInv
<1>3. CASE Notify
  <2>1. Types' /\ Inputs' /\ RetryHasQueue'
    BY <1>3 DEF SInv, Types, Inputs, RetryHasQueue, Stages, Goroutines,
           Switches, Notify, At, Go, input, config, built, stop
  <2>2. Booleans'
    BY <1>3 DEF SInv, Types, Flags, Booleans, Notify, At, Go, input, config,
           built, stop
  <2>3. Parsed' /\ Verified'
    BY <1>3 DEF SInv, Types, Flags, Booleans, Parsed, Verified,
           verifyRequiredEnvVars, Required, Notify, At, Go, input, config,
           built, stop
  <2>4. Settled'
    BY <1>3 DEF SInv, Types, Booleans, Settled, GetBool, Switches, Notify, At,
           Go, input, config, built, stop
  <2>5. Started'
    BY <1>3 DEF SInv, Types, Stages, Booleans, Flags, Parsed, Started, Notify,
           At, Go, input, config, built, stop
  <2> QED
    BY <2>1, <2>2, <2>3, <2>4, <2>5 DEF SInv
<1>4. CASE Signal
  <2>1. Types' /\ Inputs' /\ RetryHasQueue'
    BY <1>4 DEF SInv, Types, Inputs, RetryHasQueue, Stages, Goroutines,
           Switches, Signal, At, Go, input, config, built, stop
  <2>2. Booleans'
    BY <1>4 DEF SInv, Types, Flags, Booleans, Signal, At, Go, input, config,
           built, stop
  <2>3. Parsed' /\ Verified'
    BY <1>4 DEF SInv, Types, Flags, Booleans, Parsed, Verified,
           verifyRequiredEnvVars, Required, Signal, At, Go, input, config,
           built, stop
  <2>4. Settled'
    BY <1>4 DEF SInv, Types, Booleans, Settled, GetBool, Switches, Signal, At,
           Go, input, config, built, stop
  <2>5. Started'
    BY <1>4 DEF SInv, Types, Stages, Booleans, Flags, Parsed, Started, Signal,
           At, Go, input, config, built, stop
  <2> QED
    BY <2>1, <2>2, <2>3, <2>4, <2>5 DEF SInv
<1>5. CASE HandleSignal
  <2>1. Types' /\ Inputs' /\ RetryHasQueue'
    BY <1>5 DEF SInv, Types, Inputs, RetryHasQueue, Stages, Goroutines,
           Switches, HandleSignal, closeShutdownChannel, At, Go, input, config,
           built, stop
  <2>2. Booleans'
    BY <1>5 DEF SInv, Types, Flags, Booleans, HandleSignal,
           closeShutdownChannel, At, Go, input, config, built, stop
  <2>3. Parsed' /\ Verified'
    BY <1>5 DEF SInv, Types, Flags, Booleans, Parsed, Verified,
           verifyRequiredEnvVars, Required, HandleSignal, closeShutdownChannel,
           At, Go, input, config, built, stop
  <2>4. Settled'
    BY <1>5 DEF SInv, Types, Booleans, Settled, GetBool, Switches,
           HandleSignal, closeShutdownChannel, At, Go, input, config, built,
           stop
  <2>5. Started'
    BY <1>5 DEF SInv, Types, Stages, Booleans, Flags, Parsed, Started,
           HandleSignal, closeShutdownChannel, At, Go, input, config, built,
           stop
  <2> QED
    BY <2>1, <2>2, <2>3, <2>4, <2>5 DEF SInv
<1>6. CASE DeliveryFails
  <2>1. Types' /\ Inputs' /\ RetryHasQueue'
    BY <1>6 DEF SInv, Types, Inputs, RetryHasQueue, Stages, Goroutines,
           Switches, Booleans, Settled, Started, DeliveryFails, At, Go, input,
           config, built, stop
  <2>2. Booleans'
    BY <1>6 DEF SInv, Types, Flags, Booleans, DeliveryFails, At, Go, input,
           config, built, stop
  <2>3. Parsed' /\ Verified'
    BY <1>6 DEF SInv, Types, Flags, Booleans, Parsed, Verified,
           verifyRequiredEnvVars, Required, DeliveryFails, At, Go, input,
           config, built, stop
  <2>4. Settled'
    BY <1>6 DEF SInv, Types, Booleans, Settled, GetBool, Switches,
           DeliveryFails, At, Go, input, config, built, stop
  <2>5. Started'
    BY <1>6 DEF SInv, Types, Stages, Booleans, Flags, Parsed, Started,
           DeliveryFails, At, Go, input, config, built, stop
  <2> QED
    BY <2>1, <2>2, <2>3, <2>4, <2>5 DEF SInv
<1> QED
  BY <1>1, <1>2, <1>3, <1>4, <1>5, <1>6

(* Every step keeps the invariant. *)
LEMMA NextSInv == SInv /\ [Next]_vars => SInv'
<1> SUFFICES ASSUME SInv, [Next]_vars PROVE SInv'
  OBVIOUS
<1>1. CASE UNCHANGED vars
  BY <1>1, FailKeepsSInv DEF vars
<1>2. CASE Next
  BY <1>2, BeforeStep, StartStep, MockStep, OtherStep DEF Next, Main
<1> QED
  BY <1>1, <1>2

(* Every behaviour keeps SInv, and with it the types. *)
THEOREM TypeCorrect == Spec => [](TypeOK /\ SInv)
<1>1. ASSUME SInv PROVE TypeOK
  <2>1. Types /\ Inputs
    BY <1>1 DEF SInv
  <2>2. Booleans
    BY <1>1 DEF SInv
  <2> QED
    BY <2>1, <2>2 DEF TypeOK, Types, Inputs, Booleans
<1> QED
  BY <1>1, InitSInv, NextSInv, PTL DEF Spec

(* verifyRequiredEnvVars has run before the first goroutine starts, with   *)
(* the --retry that the dead letter queue is made for: when anything runs, *)
(* none of the settings it asks for is empty.                              *)
THEOREM AskedForBeforeWork == Spec => []RequiredBeforeWork
<1>1. SInv => RequiredBeforeWork
  BY DEF SInv, Types, Stages, Verified, Started, RequiredBeforeWork,
         verifyRequiredEnvVars, Required
<1> QED
  BY <1>1, InitSInv, NextSInv, PTL DEF Spec

(* In `start', config.Retry and DeadletterClient agree from before the     *)
(* first message on: no failed delivery meets a nil client.                *)
THEOREM RetryNeverNil == Spec => []RetryHasQueue
<1>1. SInv => RetryHasQueue
  BY DEF SInv
<1> QED
  BY <1>1, InitSInv, NextSInv, PTL DEF Spec

(* Once messages are read, the goroutines are those that the flags and the *)
(* README promise, as far as the two agree.                                *)
THEOREM WiringIsAsAsked == Spec => []WiredAsAsked
<1>1. SInv => WiredAsAsked
  BY DEF SInv, Types, Stages, Flags, Given, Parsed, Started, WiredAsAsked
<1> QED
  BY <1>1, InitSInv, NextSInv, PTL DEF Spec
=============================================================================
