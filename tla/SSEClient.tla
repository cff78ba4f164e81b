------------------------------ MODULE SSEClient ------------------------------
(***************************************************************************)
(* The subscription to Houston's broadcasts: sse/client.go on top of the   *)
(* vendored library github.com/astronomerio/sse.                           *)
(*                                                                         *)
(* Goroutines: the loop of Subscribe, which calls the library's Listen;    *)
(* per round of the loop a listener (`listen'), which handles events and   *)
(* asks for the connection to be closed; and per connection a reader.      *)
(* They meet on the unbuffered channels delivery, statusChan, shutdown and *)
(* the event channel of a listener, all of which but the last belong to    *)
(* the library's one DefaultClient and outlive a round.  A send on such a  *)
(* channel is one step of the two goroutines that meet.                    *)
(*                                                                         *)
(* Only events of the subscribed kind are modelled.  An event channel is   *)
(* never closed, so the branch for a nil event is never taken.             *)
(***************************************************************************)
EXTENDS Naturals, Sequences

CONSTANTS
  MaxRounds,  \* bound: rounds of Subscribe's loop that open a connection
  MaxEvents   \* bound: events that Houston sends

ASSUME SSEAssumption == MaxRounds \in Nat /\ MaxEvents \in Nat

Rounds == 1..MaxRounds

VARIABLES
  shutdownChan,    \* it is closed
  shouldShutdown,
  spc,             \* control point of Subscribe's loop and of Listen in it
  round,           \* rounds begun: the number of the latest listener
  exitChan,        \* rounds whose exitChan is closed
  channel,         \* eventChannels: the listener whose channel it holds, or 0
  hand,            \* the event that Listen has taken from `delivery'
  lpc, event,      \* per listener: control point, the event it handles
  rpc, e,          \* per reader: control point, the event it has read
  body,            \* per connection: "open", "closed" by Listen, or "lost"
  sent,            \* events Houston has sent
  handled,         \* history: the events handled
  flagged          \* history: the round in which shouldShutdown was set, or 0

loop     == <<spc, round, hand>>
listener == <<lpc, event>>
reader   == <<rpc, e, sent>>
vars     == <<shutdownChan, shouldShutdown, loop, exitChan, channel, listener,
              reader, body, handled, flagged>>

TypeOK ==
  /\ shutdownChan \in BOOLEAN /\ shouldShutdown \in BOOLEAN
  /\ spc \in {"check", "token", "connect", "select", "deliver", "ended"}
  /\ round \in 0..MaxRounds
  /\ exitChan \subseteq Rounds
  /\ channel \in 0..MaxRounds
  /\ hand \in 0..MaxEvents
  /\ lpc \in [Rounds -> {"none", "subscribe", "select", "handle", "close",
                          "done"}]
  /\ event \in [Rounds -> 0..MaxEvents]
  /\ rpc \in [Rounds -> {"none", "read", "deliver", "status", "done"}]
  /\ e \in [Rounds -> 0..MaxEvents]
  /\ body \in [Rounds -> {"none", "open", "closed", "lost"}]
  /\ sent \in 0..MaxEvents
  /\ handled \in Seq(1..MaxEvents)
  /\ flagged \in 0..MaxRounds

Init ==
  /\ shutdownChan = FALSE
  /\ shouldShutdown = FALSE
  /\ spc = "check"
  /\ round = 0
  /\ exitChan = {}
  /\ channel = 0
  /\ hand = 0
  /\ lpc = [i \in Rounds |-> "none"]
  /\ event = [i \in Rounds |-> 0]
  /\ rpc = [i \in Rounds |-> "none"]
  /\ e = [i \in Rounds |-> 0]
  /\ body = [i \in Rounds |-> "none"]
  /\ sent = 0
  /\ handled = <<>>
  /\ flagged = 0

-----------------------------------------------------------------------------
(* Subscribe's loop                                                        *)

(* Mutant: the flag is not looked at. *)
NeverEnds == FALSE

(* for !c.shouldShutdown *)
LoopEnds == shouldShutdown

Loop ==
  /\ spc = "check"
  /\ spc' = IF LoopEnds THEN "ended" ELSE "token"
  /\ UNCHANGED <<shutdownChan, shouldShutdown, round, hand, exitChan, channel,
                 listener, reader, body, handled, flagged>>

(* GetAuthorizationToken fails, and the loop sleeps and starts again; or   *)
(* the round's exitChan is made and its listener started.                  *)
GetToken ==
  /\ spc = "token"
  /\ \/ spc' = "check" /\ UNCHANGED <<round, lpc>>
     \/ /\ round < MaxRounds
        /\ round' = round + 1
        /\ lpc' = [lpc EXCEPT ![round + 1] = "subscribe"]
        /\ spc' = "connect"
  /\ UNCHANGED <<shutdownChan, shouldShutdown, hand, exitChan, channel, event,
                 reader, body, handled, flagged>>

(* Listen fails to connect, and the loop closes exitChan and starts again; *)
(* or Listen starts the connection's reader and waits.                     *)
Connect ==
  /\ spc = "connect"
  /\ \/ /\ exitChan' = exitChan \cup {round}
        /\ spc' = "check"
        /\ UNCHANGED <<rpc, body>>
     \/ /\ rpc' = [rpc EXCEPT ![round] = "read"]
        /\ body' = [body EXCEPT ![round] = "open"]
        /\ spc' = "select"
        /\ UNCHANGED exitChan
  /\ UNCHANGED <<shutdownChan, shouldShutdown, round, hand, channel, listener,
                 e, sent, handled, flagged>>

(* Mutant: the reader keeps the event it has delivered. *)
MayKeep(i) ==
  UNCHANGED e /\ \E pc \in {"read", "deliver"} : rpc' = [rpc EXCEPT ![i] = pc]

(* The reader's send is over, and its event is gone. *)
Taken(i) == e' = [e EXCEPT ![i] = 0] /\ rpc' = [rpc EXCEPT ![i] = "read"]

(* Listen takes an event from `delivery'.  maybeDeliver drops it if nobody *)
(* has subscribed yet, and else sends it on the channel it finds.          *)
Receive(i) ==
  /\ spc = "select"
  /\ rpc[i] = "deliver"
  /\ Taken(i)
  /\ IF channel = 0 THEN UNCHANGED <<spc, hand>>
                    ELSE spc' = "deliver" /\ hand' = e[i]
  /\ UNCHANGED <<shutdownChan, shouldShutdown, round, exitChan, channel,
                 listener, sent, body, handled, flagged>>

(* The send of maybeDeliver meets the select of the listener. *)
maybeDeliver ==
  /\ spc = "deliver"
  /\ lpc[channel] = "select"
  /\ lpc' = [lpc EXCEPT ![channel] = "handle"]
  /\ event' = [event EXCEPT ![channel] = hand]
  /\ spc' = "select"
  /\ hand' = 0
  /\ UNCHANGED <<shutdownChan, shouldShutdown, round, exitChan, channel,
                 reader, body, handled, flagged>>

(* Close of a listener, of this round or an older one, meets the select of *)
(* Listen, which closes the body and returns; the loop sleeps and starts   *)
(* again.                                                                  *)
Close(i) ==
  /\ spc = "select"
  /\ lpc[i] = "close"
  /\ lpc' = [lpc EXCEPT ![i] = "done"]
  /\ body' = [body EXCEPT ![round] = "closed"]
  /\ spc' = "check"
  /\ UNCHANGED <<shutdownChan, shouldShutdown, round, hand, exitChan, channel,
                 event, reader, handled, flagged>>

-----------------------------------------------------------------------------
(* A listener                                                              *)

(* addListener needs the lock that maybeDeliver holds while it sends. *)
addListener(i) ==
  /\ lpc[i] = "subscribe"
  /\ spc # "deliver"
  /\ channel' = i
  /\ lpc' = [lpc EXCEPT ![i] = "select"]
  /\ UNCHANGED <<shutdownChan, shouldShutdown, loop, exitChan, event, reader,
                 body, handled, flagged>>

(* The handler returns. *)
Handled(i) ==
  /\ lpc[i] = "handle"
  /\ handled' = Append(handled, event[i])
  /\ event' = [event EXCEPT ![i] = 0]
  /\ lpc' = [lpc EXCEPT ![i] = "select"]
  /\ UNCHANGED <<shutdownChan, shouldShutdown, loop, exitChan, channel, reader,
                 body, flagged>>

(* Mutant: a reader goes on after an error. *)
ReadsOn == "read"

AfterError == "done"

(* A reader's error reaches some listener, which asks for a close.  The    *)
(* reader ends.                                                            *)
OnStatus(i, j) ==
  /\ lpc[i] = "select"
  /\ rpc[j] = "status"
  /\ rpc' = [rpc EXCEPT ![j] = AfterError]
  /\ lpc' = [lpc EXCEPT ![i] = "close"]
  /\ UNCHANGED <<shutdownChan, shouldShutdown, loop, exitChan, channel, event,
                 e, sent, body, handled, flagged>>

(* Mutant: `break' instead of `return', which only leaves the select. *)
Stays == "select"

Leaves == "close"

(* The shutdown channel or the round's exitChan is closed: both branches   *)
(* tell the loop to end and ask for a close.                               *)
OnShutdown(i) ==
  /\ lpc[i] = "select"
  /\ shutdownChan \/ i \in exitChan
  /\ shouldShutdown' = TRUE
  /\ flagged' = IF shouldShutdown THEN flagged ELSE round
  /\ lpc' = [lpc EXCEPT ![i] = Leaves]
  /\ UNCHANGED <<shutdownChan, loop, exitChan, channel, event, reader, body,
                 handled>>

-----------------------------------------------------------------------------
(* A reader                                                                *)

(* It reads an event, which may have been buffered before the body was     *)
(* closed, and offers it to Listen...                                      *)
Read(i) ==
  /\ rpc[i] = "read"
  /\ sent < MaxEvents
  /\ sent' = sent + 1
  /\ e' = [e EXCEPT ![i] = sent + 1]
  /\ rpc' = [rpc EXCEPT ![i] = "deliver"]
  /\ UNCHANGED <<shutdownChan, shouldShutdown, loop, exitChan, channel,
                 listener, body, handled, flagged>>

(* A connection that Listen has not closed is lost. *)
Lose(i) ==
  body' = IF body[i] = "open" THEN [body EXCEPT ![i] = "lost"] ELSE body

(* ... or gets an error, because the connection is lost or was closed, and *)
(* offers it as a status...                                                *)
ReadError(i) ==
  /\ rpc[i] = "read"
  /\ Lose(i)
  /\ rpc' = [rpc EXCEPT ![i] = "status"]
  /\ UNCHANGED <<shutdownChan, shouldShutdown, loop, exitChan, channel,
                 listener, e, sent, handled, flagged>>

(* Mutant: the event that was not complete is delivered. *)
DeliversPart == "deliver"

AfterEOF == "done"

(* ... or comes to the end of the stream, and just ends. *)
ReadEOF(i) ==
  /\ rpc[i] = "read"
  /\ Lose(i)
  /\ rpc' = [rpc EXCEPT ![i] = AfterEOF]
  /\ UNCHANGED <<shutdownChan, shouldShutdown, loop, exitChan, channel,
                 listener, e, sent, handled, flagged>>

(* The signal handler of `start'. *)
Shutdown ==
  /\ ~shutdownChan
  /\ shutdownChan' = TRUE
  /\ UNCHANGED <<shouldShutdown, loop, exitChan, channel, listener, reader,
                 body, handled, flagged>>

-----------------------------------------------------------------------------
SubscribeStep ==
  \/ Loop \/ GetToken \/ Connect \/ maybeDeliver
  \/ \E i \in Rounds : Receive(i) \/ Close(i)

ListenerStep(i) ==
  \/ addListener(i) \/ Handled(i) \/ OnShutdown(i)
  \/ \E j \in Rounds : OnStatus(i, j)

Next ==
  \/ SubscribeStep
  \/ \E i \in Rounds : ListenerStep(i)
  \/ \E i \in Rounds : Read(i) \/ ReadError(i) \/ ReadEOF(i)
  \/ Shutdown

Spec == Init /\ [][Next]_vars

(* A listener that waits takes its shutdown branch some time, since select *)
(* chooses at random among the branches that are ready, and its handler    *)
(* returns.                                                                *)
FairSpec ==
  /\ Spec
  /\ \A i \in Rounds : WF_vars(Handled(i)) /\ SF_vars(OnShutdown(i))

(* All goroutines take the steps they can take, and a token and a          *)
(* connection are not refused for ever.                                    *)
BusySpec ==
  /\ Spec
  /\ WF_vars(SubscribeStep)
  /\ SF_vars(GetToken /\ spc' = "connect")
  /\ SF_vars(Connect /\ spc' = "select")
  /\ \A i \in Rounds : WF_vars(ListenerStep(i))

-----------------------------------------------------------------------------
(* Properties                                                              *)

(* Although `delivery' and `statusChan' outlive a round, Listen never gets *)
(* an event of an older connection: when it waits, only the reader of its  *)
(* own connection is alive.                                                *)
OneLiveReader ==
  spc \in {"select", "deliver"} =>
    \A i \in Rounds : rpc[i] \in {"read", "deliver", "status"} => i = round

(* No event is handled twice, although listeners of several rounds may be  *)
(* alive and their handlers may overlap (and so end in another order).     *)
HandledOnce ==
  \A x, y \in DOMAIN handled : x # y => handled[x] # handled[y]

(* The loop reads shouldShutdown without synchronisation.  Once a listener *)
(* has set it, at most one more connection is opened.                      *)
AtMostOneMoreRound == shouldShutdown => round <= flagged + 1

(* After a shutdown no listener keeps handling events. *)
ListenersLeave ==
  \A i \in Rounds : shutdownChan ~> lpc[i] \notin {"select", "handle"}

-----------------------------------------------------------------------------
(* What the comment says and the code does not do.                         *)

(* client.go:37, "For loop so we restart": when a connection fails or is   *)
(* lost, there is another one, unless the process shuts down.              *)
Lost(i) == i \in exitChan \/ body[i] = "lost"

Reconnects ==
  \A i \in 1..(MaxRounds - 1) :
    round = i /\ Lost(i) ~> round > i \/ shutdownChan
=============================================================================
