------------------------------- MODULE Startup -------------------------------
(***************************************************************************)
(* How a process comes up and goes down: the init functions of package     *)
(* cmd, flag parsing, config.Initialize, the commands `start' and `mock'   *)
(* (cmd/start.go, cmd/mock.go) with every step of theirs that can end the  *)
(* process, the signal handler and the web server's Serve.                 *)
(*                                                                         *)
(* Goroutines start one by one while main is still wiring, so a step that  *)
(* fails, a signal or a first failed delivery meets a half-built process.  *)
(* A setting is given or empty; what the goroutines do is in the modules   *)
(* of their components.                                                    *)
(***************************************************************************)
EXTENDS Naturals, FiniteSets

CONSTANTS
  requiredEnvs,      \* settings every command needs
  retryRequiredEnvs, \* settings needed with --retry
  Credentials        \* HOUSTON_API_KEY and HOUSTON_USERNAME: one is needed

(* Settings that are also options: set means "true". *)
Switches == {"RETRY", "DISABLE_CACHE_TTL"}

ASSUME StartupAssumption ==
  /\ requiredEnvs \cap retryRequiredEnvs = {}
  /\ Credentials \cap (requiredEnvs \cup retryRequiredEnvs) = {}
  /\ Switches \cap (requiredEnvs \cup retryRequiredEnvs \cup Credentials) = {}

VARIABLES
  cmd, args,        \* the command line: the command, mock's argument,
  flags,            \* ... and its flags
  env,              \* ER_* variables that are not empty
  DisableSSE,       \* package variable behind two flags of one name
  EnableRetry,      \* package variable behind --retry
  override,         \* viper.Set: [some switches -> BOOLEAN]
  pc,               \* where main is
  running,          \* goroutines that main has started
  DeadletterClient, \* ProducerConfig.DeadletterClient is not nil
  handler,          \* the signal goroutine: "off", "begun", "notified", "done"
  sigchan,          \* a signal waits in the channel
  signalled,        \* somebody has sent SIGINT or SIGTERM
  shutdown,         \* shutdownChannel is closed
  status            \* of the process

input  == <<cmd, args, flags, env>>
config == <<DisableSSE, EnableRetry, override>>
built  == <<running, DeadletterClient>>
stop   == <<handler, sigchan, signalled, shutdown>>
vars   == <<input, config, pc, built, stop, status>>

Settings == requiredEnvs \cup retryRequiredEnvs \cup Credentials \cup Switches

Given == {"absent", "true", "false"}

Flags == [sse : Given, retry : BOOLEAN, disableCacheTTL : Given,
          cassandra : BOOLEAN]

Stages == {"init mock.go", "init root.go", "init start.go", "parse",
           "initialize", "prepare", "integrations", "sse", "backend",
           "producer", "consumer", "signal", "run", "serve", "serving",
           "returned"}

Goroutines == {"ttl", "sse", "deadletter", "handleEvents", "signal",
               "consumer", "web"}

TypeOK ==
  /\ cmd \in {"start", "mock"}
  /\ args \in {"none", "bad", "good"}
  /\ flags \in Flags
  /\ env \subseteq Settings
  /\ DisableSSE \in BOOLEAN /\ EnableRetry \in BOOLEAN
  /\ DOMAIN override \subseteq Switches
  /\ pc \in Stages
  /\ running \subseteq Goroutines
  /\ DeadletterClient \in BOOLEAN
  /\ handler \in {"off", "begun", "notified", "done"}
  /\ sigchan \in BOOLEAN /\ signalled \in BOOLEAN /\ shutdown \in BOOLEAN
  /\ status \in {"running", "exit", "killed", "panic", "nil dereference"}

(* Any environment and any command line. *)
Init ==
  /\ cmd \in {"start", "mock"}
  /\ args \in {"none", "bad", "good"}
  /\ flags \in Flags
  /\ env \in SUBSET Settings
  /\ DisableSSE = FALSE /\ EnableRetry = FALSE
  /\ override = [s \in {} |-> FALSE]
  /\ pc = "init mock.go"
  /\ running = {}
  /\ DeadletterClient = FALSE
  /\ handler = "off"
  /\ sigchan = FALSE /\ signalled = FALSE /\ shutdown = FALSE
  /\ status = "running"

Running == status = "running"

(* main goes on from one stage of command c to the next... *)
At(c, from, to) ==
  /\ Running
  /\ cmd = c
  /\ pc = from
  /\ pc' = to
  /\ UNCHANGED <<input, stop, status>>

(* ... or ends the process there: os.Exit, logger.Fatal, a panic. *)
Fail(c, from, how) ==
  /\ Running
  /\ cmd = c
  /\ pc = from
  /\ status' = how
  /\ UNCHANGED <<input, config, pc, built, stop>>

Go(g) == running' = running \cup {g}

(* viper: Set, then the environment, then the default, which is false. *)
GetBool(s) == IF s \in DOMAIN override THEN override[s] ELSE s \in env

-----------------------------------------------------------------------------
(* Before the command runs.                                                *)

(* Go runs the init functions of a package in the order of its file names. *)
(* BoolVar assigns the flag's default to the variable, so the default that *)
(* counts is that of the last file, whatever flag the user sees.           *)
initMockFile ==
  /\ At(cmd, "init mock.go", "init root.go")
  /\ DisableSSE' = TRUE
  /\ EnableRetry' = FALSE
  /\ UNCHANGED <<override, built>>

(* Mutant: both flags have the same default. *)
rootDefaultTrue == TRUE

rootDefault == FALSE

initRootFile ==
  /\ At(cmd, "init root.go", "init start.go")
  /\ DisableSSE' = rootDefault
  /\ UNCHANGED <<EnableRetry, override, built>>

initStartFile ==
  /\ At(cmd, "init start.go", "parse")
  /\ EnableRetry' = FALSE
  /\ UNCHANGED <<DisableSSE, override, built>>

(* RootCmd.Execute: a flag that the command does not have ends main. *)
UnknownFlag ==
  \/ cmd = "mock" /\ flags.disableCacheTTL # "absent"
  \/ cmd = "start" /\ flags.cassandra

ParseFlags ==
  \/ UnknownFlag /\ Fail(cmd, "parse", "exit")
  \/ /\ ~UnknownFlag
     /\ At(cmd, "parse", "initialize")
     /\ DisableSSE' = CASE flags.sse = "absent" -> DisableSSE
                        [] OTHER -> flags.sse = "true"
     /\ EnableRetry' = flags.retry
     /\ UNCHANGED <<override, built>>

(* Mutant: the settings for retry are not asked for. *)
RequiredAlways == requiredEnvs

Required == requiredEnvs \cup (IF EnableRetry THEN retryRequiredEnvs ELSE {})

(* config.Initialize. *)
verifyRequiredEnvVars == Required \subseteq env /\ Credentials \cap env # {}

Initialize ==
  \/ ~verifyRequiredEnvVars /\ Fail(cmd, "initialize", "exit")
  \/ /\ verifyRequiredEnvVars
     /\ At(cmd, "initialize", "prepare")
     /\ UNCHANGED <<config, built>>

-----------------------------------------------------------------------------
(* What both commands call.                                                *)

(* integrations.NewClient *)
NewIntegrations ==
  /\ IF GetBool("DISABLE_CACHE_TTL") THEN UNCHANGED running ELSE Go("ttl")
  /\ UNCHANGED <<config, DeadletterClient>>

(* sse.NewSSEClient, which never fails, and Subscribe. *)
SubscribeSSE ==
  /\ IF DisableSSE THEN UNCHANGED running ELSE Go("sse")
  /\ UNCHANGED <<config, DeadletterClient>>

(* clickstream.NewProducer starts handleEvents. *)
NewProducer == Go("handleEvents") /\ UNCHANGED <<config, DeadletterClient>>

-----------------------------------------------------------------------------
(* The command `start'.                                                    *)

(* Mutant: config.Retry is set only when the flag is given. *)
startSetsGiven ==
  {s \in Switches : IF s = "RETRY" THEN EnableRetry
                                   ELSE flags.disableCacheTTL = "true"}

(* SetBool: --disable-cache-ttl can only switch the TTL off, with "false"  *)
(* the environment still counts; --retry decides in both directions.       *)
startSets ==
  {s \in Switches : s = "RETRY" \/ flags.disableCacheTTL = "true"}

(* Profile and trace files may not be creatable; then the settings. *)
startPrepare ==
  \/ Fail("start", "prepare", "exit")
  \/ /\ At("start", "prepare", "integrations")
     /\ override' = [s \in startSets |-> s = "RETRY" => EnableRetry]
     /\ UNCHANGED <<DisableSSE, EnableRetry, built>>

startIntegrations == At("start", "integrations", "sse") /\ NewIntegrations

startSSE == At("start", "sse", "backend") /\ SubscribeSSE

(* With --retry the S3 client, which may fail, and the dead letter queue,  *)
(* which starts its goroutine.                                             *)
startDeadLetter ==
  \/ EnableRetry /\ Fail("start", "backend", "exit")
  \/ /\ At("start", "backend", "producer")
     /\ IF EnableRetry THEN Go("deadletter") ELSE UNCHANGED running
     /\ DeadletterClient' = EnableRetry
     /\ UNCHANGED config

startProducer ==
  \/ Fail("start", "producer", "exit")
  \/ At("start", "producer", "consumer") /\ NewProducer

startConsumer ==
  \/ Fail("start", "consumer", "exit")
  \/ At("start", "consumer", "signal") /\ UNCHANGED <<config, built>>

startSignal ==
  /\ Running /\ cmd = "start" /\ pc = "signal"
  /\ pc' = "run"
  /\ Go("signal")
  /\ handler' = "begun"
  /\ UNCHANGED <<input, config, DeadletterClient, sigchan, signalled, shutdown,
                 status>>

startRun ==
  /\ At("start", "run", "serve")
  /\ Go("consumer")
  /\ UNCHANGED <<config, DeadletterClient>>

-----------------------------------------------------------------------------
(* The command `mock'.                                                     *)

(* The list of integrations: none ends the process, an element without a   *)
(* colon is an index out of range.                                         *)
mockPrepare ==
  \/ args = "none" /\ Fail("mock", "prepare", "exit")
  \/ args = "bad" /\ Fail("mock", "prepare", "panic")
  \/ args = "good" /\ At("mock", "prepare", "integrations")
                   /\ UNCHANGED <<config, built>>

mockIntegrations == At("mock", "integrations", "sse") /\ NewIntegrations

mockSSE == At("mock", "sse", "backend") /\ SubscribeSSE

(* cassandra.NewClient, after the flags it needs have been checked. *)
mockCassandra ==
  \/ flags.cassandra /\ Fail("mock", "backend", "exit")
  \/ At("mock", "backend", "producer") /\ UNCHANGED <<config, built>>

(* The producer gets no dead letter client and no shutdown channel. *)
mockProducer ==
  \/ Fail("mock", "producer", "panic")
  \/ At("mock", "producer", "consumer") /\ NewProducer

(* There is no signal handler: the consumer runs next. *)
mockConsumer ==
  \/ Fail("mock", "consumer", "exit")
  \/ At("mock", "consumer", "serve") /\ Go("consumer")
                                     /\ UNCHANGED <<config, DeadletterClient>>

-----------------------------------------------------------------------------
(* Serve, signals and deliveries.                                          *)

(* The web server listens in a goroutine of its own, or fails to: that is  *)
(* logged, and main waits for shutdownChannel all the same.                *)
Serve ==
  /\ At(cmd, "serve", "serving")
  /\ \/ Go("web")
     \/ UNCHANGED running
  /\ UNCHANGED <<config, DeadletterClient>>

(* `for range shutdownChan' ends and main returns; nobody else is asked. *)
MainReturns ==
  /\ Running
  /\ pc = "serving"
  /\ shutdown
  /\ pc' = "returned"
  /\ status' = "exit"
  /\ UNCHANGED <<input, config, built, stop>>

(* signal.Notify: from now on a signal is a value in sigchan. *)
Notify ==
  /\ Running
  /\ handler = "begun"
  /\ handler' = "notified"
  /\ UNCHANGED <<input, config, pc, built, sigchan, signalled, shutdown,
                 status>>

(* Somebody sends SIGINT or SIGTERM.  Until Notify has run, and in `mock'  *)
(* always, that ends the process at once.  A second signal stays in        *)
(* sigchan, where nobody reads it.                                         *)
Signal ==
  /\ Running
  /\ ~sigchan
  /\ signalled' = TRUE
  /\ IF handler \in {"notified", "done"}
     THEN sigchan' = TRUE /\ UNCHANGED status
     ELSE status' = "killed" /\ UNCHANGED sigchan
  /\ UNCHANGED <<input, config, pc, built, handler, shutdown>>

(* Mutant: the channel is not closed. *)
closeForgotten == UNCHANGED shutdown

closeShutdownChannel == shutdown' = TRUE

(* The signal goroutine receives one signal. *)
HandleSignal ==
  /\ Running
  /\ handler = "notified"
  /\ sigchan
  /\ sigchan' = FALSE
  /\ handler' = "done"
  /\ closeShutdownChannel
  /\ UNCHANGED <<input, config, pc, built, signalled, status>>

(* handleEvents is told that a copy failed and asks config.Retry, not the  *)
(* client, whether there is a dead letter queue.                           *)
DeliveryFails ==
  /\ Running
  /\ {"handleEvents", "consumer"} \subseteq running
  /\ GetBool("RETRY") /\ ~DeadletterClient
  /\ status' = "nil dereference"
  /\ UNCHANGED <<input, config, pc, built, stop>>

Main ==
  \/ initMockFile \/ initRootFile \/ initStartFile \/ ParseFlags \/ Initialize
  \/ startPrepare \/ startIntegrations \/ startSSE \/ startDeadLetter
  \/ startProducer \/ startConsumer \/ startSignal \/ startRun
  \/ mockPrepare \/ mockIntegrations \/ mockSSE \/ mockCassandra
  \/ mockProducer \/ mockConsumer
  \/ Serve \/ MainReturns

Next == Main \/ Notify \/ Signal \/ HandleSignal \/ DeliveryFails

Spec == Init /\ [][Next]_vars

(* main and the signal goroutine are scheduled; nothing main calls before  *)
(* Serve waits for anybody.                                                *)
FairSpec == Spec /\ WF_vars(Main) /\ WF_vars(Notify) /\ WF_vars(HandleSignal)

-----------------------------------------------------------------------------
(* Properties                                                              *)

(* verifyRequiredEnvVars runs after the flags are parsed and before any    *)
(* goroutine exists: when anything runs, what it asks for is not empty,    *)
(* and when the dead letter queue runs, neither are its bucket, timeout    *)
(* and size.  HOUSTON_PASSWORD is not among them: a user name alone        *)
(* passes, although createToken and the README want both.                  *)
RequiredBeforeWork ==
  running # {} => /\ requiredEnvs \subseteq env
                  /\ Credentials \cap env # {}
                  /\ "deadletter" \in running =>
                       retryRequiredEnvs \subseteq env

(* handleEvents trusts config.Retry, which the environment can set too     *)
(* (ER_RETRY), and uses DeadletterClient, which only --retry creates.  In  *)
(* `start' the two agree before the first message is read.  (In `mock'     *)
(* they need not: there the process can die of a failed delivery.)         *)
RetryHasQueue == cmd = "start" => status # "nil dereference"

(* Once messages are read, the process is what the flags and the README   *)
(* promise.  In `start' --disable-sse decides on the SSE client, whatever  *)
(* default mock.go has left in its variable, and --retry on the dead       *)
(* letter queue.  ER_DISABLE_CACHE_TTL disables the TTL, and so does its   *)
(* flag.  Nothing is said where the code and its documents disagree: SSE   *)
(* and --retry in `mock', --disable-cache-ttl=false over the environment.  *)
WiredAsAsked ==
  "consumer" \in running =>
    /\ "handleEvents" \in running
    /\ cmd = "start" => /\ "sse" \in running <=> flags.sse # "true"
                        /\ "deadletter" \in running <=> flags.retry
    /\ flags.sse = "true" => "sse" \notin running
    /\ flags.disableCacheTTL = "true" => "ttl" \notin running
    /\ flags.disableCacheTTL = "absent" =>
         ("ttl" \in running <=> "DISABLE_CACHE_TTL" \notin env)
    /\ flags.disableCacheTTL = "false" /\ "DISABLE_CACHE_TTL" \notin env =>
         "ttl" \in running

(* A signal ends the process whenever it comes: before Notify, between the *)
(* start of two goroutines, after a web server that could not listen.      *)
SignalEnds == signalled ~> ~Running
=============================================================================
