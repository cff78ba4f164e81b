--------------------------- MODULE SSEClientProofs ---------------------------
(***************************************************************************)
(* Safety of the SSE subscription, for any number of rounds and events.    *)
(*                                                                         *)
(* The argument for OneLiveReader: a listener asks for a close either      *)
(* because it took the status of a reader, and then that reader has ended, *)
(* or because of a shutdown, and then the loop is told to end.  So unless  *)
(* the loop is told to end, a listener that asks for a close and a live    *)
(* reader exclude each other, and when the loop starts again no reader is  *)
(* alive.  For HandledOnce: an event is in one place at a time on its way  *)
(* from the reader through Listen and the listener to `handled'.           *)
(***************************************************************************)
EXTENDS SSEClient, SequenceTheorems, TLAPS

Live(i) == rpc[i] \in {"read", "deliver", "status"}

(* A live reader is that of the connection Listen waits on, and there is   *)
(* none while the loop is on its way to a new connection.                  *)
Readers ==
  /\ OneLiveReader
  /\ spc \in {"token", "connect"} => \A i \in Rounds : ~Live(i)
  /\ spc = "check" /\ ~shouldShutdown => \A i \in Rounds : ~Live(i)
  /\ spc = "ended" => shouldShutdown

(* Unless the loop is told to end, a listener asks for a close only after  *)
(* its reader has ended, alone, and only while Listen waits.               *)
Closing ==
  ~shouldShutdown =>
    /\ \A i, j \in Rounds : lpc[i] = "close" => ~Live(j)
    /\ \A i, j \in Rounds : lpc[i] = "close" /\ lpc[j] = "close" => i = j
    /\ \A i \in Rounds : lpc[i] = "close" => spc \in {"select", "deliver"}

(* Listen, a reader and a listener hold an event when they pass one on. *)
Holding ==
  /\ spc = "deliver" => hand # 0 /\ channel # 0
  /\ spc \in {"connect", "select", "deliver"} => round # 0
  /\ \A i \in Rounds : rpc[i] = "deliver" => e[i] # 0
  /\ \A i \in Rounds : lpc[i] = "handle" => event[i] # 0

(* Events in flight have been sent... *)
Sent ==
  /\ hand <= sent
  /\ \A i \in Rounds : e[i] <= sent /\ event[i] <= sent
  /\ \A x \in DOMAIN handled : handled[x] <= sent

(* ... and each is in one place. *)
OnePlace ==
  /\ \A i, j \in Rounds : i # j /\ e[i] # 0 => e[i] # e[j]
  /\ \A i, j \in Rounds : i # j /\ event[i] # 0 => event[i] # event[j]
  /\ \A i, j \in Rounds : e[i] # 0 => e[i] # event[j]
  /\ hand # 0 => \A i \in Rounds : hand # e[i] /\ hand # event[i]
  /\ \A x \in DOMAIN handled :
       /\ handled[x] # hand
       /\ \A i \in Rounds : handled[x] # e[i] /\ handled[x] # event[i]

(* A loop that is about to begin another round had not been told to end    *)
(* when it looked.                                                         *)
LastRound ==
  /\ AtMostOneMoreRound
  /\ spc = "token" /\ shouldShutdown => round <= flagged

SInv ==
  /\ TypeOK /\ Readers /\ Closing
  /\ Holding /\ Sent /\ OnePlace /\ HandledOnce /\ LastRound

-----------------------------------------------------------------------------
(* A sequence with one more element. *)
LEMMA AppendedAt ==
  ASSUME NEW S, NEW s \in Seq(S), NEW v \in S, NEW t, t = Append(s, v)
  PROVE  /\ t \in Seq(S)
         /\ DOMAIN s = 1..Len(s) /\ Len(s) \in Nat
         /\ DOMAIN t = 1..(Len(s) + 1)
         /\ t[Len(s) + 1] = v
         /\ \A x \in DOMAIN s : t[x] = s[x]
         /\ \A x \in DOMAIN t : x \in DOMAIN s \/ x = Len(s) + 1
OBVIOUS

(* What a handler that returns adds to `handled'. *)
LEMMA AppendHandled ==
  ASSUME TypeOK, Holding, NEW i \in Rounds, Handled(i)
  PROVE  /\ event[i] # 0
         /\ \A x \in DOMAIN handled : handled[x] # 0
         /\ \A x \in DOMAIN handled' :
              x \in DOMAIN handled \/ x = Len(handled) + 1
         /\ \A x \in DOMAIN handled : handled'[x] = handled[x]
         /\ handled'[Len(handled) + 1] = event[i]
<1>1. /\ handled' = Append(handled, event[i])
      /\ handled \in Seq(1..MaxEvents)
      /\ event[i] \in 1..MaxEvents
  BY SSEAssumption DEF TypeOK, Holding, Handled
<1> QED
  BY <1>1, SSEAssumption, AppendedAt

(* Every step keeps the types. *)
LEMMA TypeStep ==
  ASSUME TypeOK, Holding, [Next]_vars
  PROVE  TypeOK'
<1> USE SSEAssumption DEF TypeOK, Holding, Rounds
<1>0. ASSUME UNCHANGED vars PROVE TypeOK'
  BY <1>0 DEF vars, loop, listener, reader
<1>1. ASSUME Loop PROVE TypeOK'
  BY <1>1 DEF Loop, LoopEnds, loop, listener, reader
<1>2. ASSUME GetToken PROVE TypeOK'
  <2>1. CASE UNCHANGED <<round, lpc>> /\ spc' = "check"
    BY <1>2, <2>1 DEF GetToken, loop, listener, reader
  <2>2. CASE /\ round < MaxRounds /\ round' = round + 1
             /\ lpc' = [lpc EXCEPT ![round + 1] = "subscribe"]
             /\ spc' = "connect"
    <3>1. round' \in 0..MaxRounds
      BY <2>2
    <3>2. lpc' \in [1..MaxRounds -> {"none", "subscribe", "select", "handle",
                                    "close", "done"}]
      BY <2>2
    <3> QED
      BY <1>2, <2>2, <3>1, <3>2 DEF GetToken, loop, listener, reader
  <2> QED
    BY <1>2, <2>1, <2>2 DEF GetToken
<1>3. ASSUME Connect PROVE TypeOK'
  <2>1. round \in 1..MaxRounds
    BY <1>3 DEF Connect
  <2>2. /\ exitChan' \subseteq 1..MaxRounds
        /\ rpc' \in [1..MaxRounds ->
                       {"none", "read", "deliver", "status", "done"}]
        /\ body' \in [1..MaxRounds -> {"none", "open", "closed", "lost"}]
    BY <1>3, <2>1 DEF Connect
  <2>3. spc' \in {"check", "select"}
    BY <1>3 DEF Connect
  <2> QED
    BY <1>3, <2>2, <2>3 DEF Connect, loop, listener, reader
<1>4. ASSUME NEW i \in Rounds, Receive(i) PROVE TypeOK'
  BY <1>4 DEF Receive, Taken, loop, listener, reader
<1>5. ASSUME maybeDeliver PROVE TypeOK'
  BY <1>5 DEF maybeDeliver, loop, listener, reader
<1>6. ASSUME NEW i \in Rounds, Close(i) PROVE TypeOK'
  BY <1>6 DEF Close, loop, listener, reader
<1>7. ASSUME NEW i \in Rounds, addListener(i) PROVE TypeOK'
  BY <1>7 DEF addListener, loop, listener, reader
<1>8. ASSUME NEW i \in Rounds, Handled(i) PROVE TypeOK'
  BY <1>8 DEF Handled, loop, listener, reader
<1>9. ASSUME NEW i \in Rounds, NEW j \in Rounds, OnStatus(i, j) PROVE TypeOK'
  BY <1>9 DEF OnStatus, AfterError, loop, listener, reader
<1>10. ASSUME NEW i \in Rounds, OnShutdown(i) PROVE TypeOK'
  BY <1>10 DEF OnShutdown, Leaves, loop, listener, reader
<1>11. ASSUME NEW i \in Rounds, Read(i) PROVE TypeOK'
  BY <1>11 DEF Read, loop, listener, reader
<1>12. ASSUME NEW i \in Rounds, ReadError(i) PROVE TypeOK'
  BY <1>12 DEF ReadError, Lose, loop, listener, reader
<1>13. ASSUME NEW i \in Rounds, ReadEOF(i) PROVE TypeOK'
  BY <1>13 DEF ReadEOF, Lose, AfterEOF, loop, listener, reader
<1>14. ASSUME Shutdown PROVE TypeOK'
  BY <1>14 DEF Shutdown, loop, listener, reader
<1> QED
  BY <1>0, <1>1, <1>2, <1>3, <1>4, <1>5, <1>6, <1>7, <1>8, <1>9, <1>10, <1>11,
     <1>12, <1>13, <1>14 DEF Next, SubscribeStep, ListenerStep

(* A new reader starts when no reader is alive, and Listen returns when    *)
(* the reader of its connection has ended or the loop is told to end.      *)
LEMMA ReadersStep ==
  ASSUME TypeOK, Readers, Closing, Holding, [Next]_vars
  PROVE  Readers'
<1> USE SSEAssumption DEF TypeOK, Readers, OneLiveReader, Closing, Live,
Holding, Rounds
<1>0. ASSUME UNCHANGED vars PROVE Readers'
  BY <1>0 DEF vars, loop, listener, reader
<1>1. ASSUME Loop PROVE Readers'
  BY <1>1 DEF Loop, LoopEnds, loop, listener, reader
<1>2. ASSUME GetToken PROVE Readers'
  BY <1>2 DEF GetToken, loop, listener, reader
<1>3. ASSUME Connect PROVE Readers'
  BY <1>3 DEF Connect, loop, listener, reader
<1>4. ASSUME NEW i \in Rounds, Receive(i) PROVE Readers'
  BY <1>4 DEF Receive, Taken, loop, listener, reader
<1>5. ASSUME maybeDeliver PROVE Readers'
  BY <1>5 DEF maybeDeliver, loop, listener, reader
<1>6. ASSUME NEW i \in Rounds, Close(i) PROVE Readers'
  BY <1>6 DEF Close, loop, listener, reader
<1>7. ASSUME NEW i \in Rounds, addListener(i) PROVE Readers'
  BY <1>7 DEF addListener, loop, listener, reader
<1>8. ASSUME NEW i \in Rounds, Handled(i) PROVE Readers'
  BY <1>8 DEF Handled, loop, listener, reader
<1>9. ASSUME NEW i \in Rounds, NEW j \in Rounds, OnStatus(i, j) PROVE Readers'
  BY <1>9 DEF OnStatus, AfterError, loop, listener, reader
<1>10. ASSUME NEW i \in Rounds, OnShutdown(i) PROVE Readers'
  BY <1>10 DEF OnShutdown, Leaves, loop, listener, reader
<1>11. ASSUME NEW i \in Rounds, Read(i) PROVE Readers'
  BY <1>11 DEF Read, loop, listener, reader
<1>12. ASSUME NEW i \in Rounds, ReadError(i) PROVE Readers'
  BY <1>12 DEF ReadError, Lose, loop, listener, reader
<1>13. ASSUME NEW i \in Rounds, ReadEOF(i) PROVE Readers'
  BY <1>13 DEF ReadEOF, Lose, AfterEOF, loop, listener, reader
<1>14. ASSUME Shutdown PROVE Readers'
  BY <1>14 DEF Shutdown, loop, listener, reader
<1> QED
  BY <1>0, <1>1, <1>2, <1>3, <1>4, <1>5, <1>6, <1>7, <1>8, <1>9, <1>10, <1>11,
     <1>12, <1>13, <1>14 DEF Next, SubscribeStep, ListenerStep

(* A listener that takes a status ends the only live reader, and its close *)
(* ends the wait of Listen.                                                *)
LEMMA ClosingStep ==
  ASSUME TypeOK, Readers, Closing, Holding, [Next]_vars
  PROVE  Closing'
<1> USE SSEAssumption DEF TypeOK, Readers, OneLiveReader, Closing, Live,
Holding, Rounds
<1>0. ASSUME UNCHANGED vars PROVE Closing'
  BY <1>0 DEF vars, loop, listener, reader
<1>1. ASSUME Loop PROVE Closing'
  BY <1>1 DEF Loop, LoopEnds, loop, listener, reader
<1>2. ASSUME GetToken PROVE Closing'
  BY <1>2 DEF GetToken, loop, listener, reader
<1>3. ASSUME Connect PROVE Closing'
  BY <1>3 DEF Connect, loop, listener, reader
<1>4. ASSUME NEW i \in Rounds, Receive(i) PROVE Closing'
  BY <1>4 DEF Receive, Taken, loop, listener, reader
<1>5. ASSUME maybeDeliver PROVE Closing'
  BY <1>5 DEF maybeDeliver, loop, listener, reader
<1>6. ASSUME NEW i \in Rounds, Close(i) PROVE Closing'
  BY <1>6 DEF Close, loop, listener, reader
<1>7. ASSUME NEW i \in Rounds, addListener(i) PROVE Closing'
  BY <1>7 DEF addListener, loop, listener, reader
<1>8. ASSUME NEW i \in Rounds, Handled(i) PROVE Closing'
  BY <1>8 DEF Handled, loop, listener, reader
<1>9. ASSUME NEW i \in Rounds, NEW j \in Rounds, OnStatus(i, j) PROVE Closing'
  BY <1>9 DEF OnStatus, AfterError, loop, listener, reader
<1>10. ASSUME NEW i \in Rounds, OnShutdown(i) PROVE Closing'
  BY <1>10 DEF OnShutdown, Leaves, loop, listener, reader
<1>11. ASSUME NEW i \in Rounds, Read(i) PROVE Closing'
  BY <1>11 DEF Read, loop, listener, reader
<1>12. ASSUME NEW i \in Rounds, ReadError(i) PROVE Closing'
  BY <1>12 DEF ReadError, Lose, loop, listener, reader
<1>13. ASSUME NEW i \in Rounds, ReadEOF(i) PROVE Closing'
  BY <1>13 DEF ReadEOF, Lose, AfterEOF, loop, listener, reader
<1>14. ASSUME Shutdown PROVE Closing'
  BY <1>14 DEF Shutdown, loop, listener, reader
<1> QED
  BY <1>0, <1>1, <1>2, <1>3, <1>4, <1>5, <1>6, <1>7, <1>8, <1>9, <1>10, <1>11,
     <1>12, <1>13, <1>14 DEF Next, SubscribeStep, ListenerStep

(* Nothing is passed on without an event. *)
LEMMA HoldingStep ==
  ASSUME TypeOK, Holding, [Next]_vars
  PROVE  Holding'
<1> USE SSEAssumption DEF TypeOK, Holding, Rounds
<1>0. ASSUME UNCHANGED vars PROVE Holding'
  BY <1>0 DEF vars, loop, listener, reader
<1>1. ASSUME Loop PROVE Holding'
  BY <1>1 DEF Loop, LoopEnds, loop, listener, reader
<1>2. ASSUME GetToken PROVE Holding'
  BY <1>2 DEF GetToken, loop, listener, reader
<1>3. ASSUME Connect PROVE Holding'
  BY <1>3 DEF Connect, loop, listener, reader
<1>4. ASSUME NEW i \in Rounds, Receive(i) PROVE Holding'
  BY <1>4 DEF Receive, Taken, loop, listener, reader
<1>5. ASSUME maybeDeliver PROVE Holding'
  BY <1>5 DEF maybeDeliver, loop, listener, reader
<1>6. ASSUME NEW i \in Rounds, Close(i) PROVE Holding'
  BY <1>6 DEF Close, loop, listener, reader
<1>7. ASSUME NEW i \in Rounds, addListener(i) PROVE Holding'
  BY <1>7 DEF addListener, loop, listener, reader
<1>8. ASSUME NEW i \in Rounds, Handled(i) PROVE Holding'
  BY <1>8 DEF Handled, loop, listener, reader
<1>9. ASSUME NEW i \in Rounds, NEW j \in Rounds, OnStatus(i, j) PROVE Holding'
  BY <1>9 DEF OnStatus, AfterError, loop, listener, reader
<1>10. ASSUME NEW i \in Rounds, OnShutdown(i) PROVE Holding'
  BY <1>10 DEF OnShutdown, Leaves, loop, listener, reader
<1>11. ASSUME NEW i \in Rounds, Read(i) PROVE Holding'
  BY <1>11 DEF Read, loop, listener, reader
<1>12. ASSUME NEW i \in Rounds, ReadError(i) PROVE Holding'
  BY <1>12 DEF ReadError, Lose, loop, listener, reader
<1>13. ASSUME NEW i \in Rounds, ReadEOF(i) PROVE Holding'
  BY <1>13 DEF ReadEOF, Lose, AfterEOF, loop, listener, reader
<1>14. ASSUME Shutdown PROVE Holding'
  BY <1>14 DEF Shutdown, loop, listener, reader
<1> QED
  BY <1>0, <1>1, <1>2, <1>3, <1>4, <1>5, <1>6, <1>7, <1>8, <1>9, <1>10, <1>11,
     <1>12, <1>13, <1>14 DEF Next, SubscribeStep, ListenerStep

(* Only events that were sent are on their way. *)
LEMMA SentStep ==
  ASSUME TypeOK, Holding, Sent, [Next]_vars
  PROVE  Sent'
<1> USE SSEAssumption DEF TypeOK, Holding, Sent, Rounds
<1>0. ASSUME UNCHANGED vars PROVE Sent'
  BY <1>0 DEF vars, loop, listener, reader
<1>1. ASSUME Loop PROVE Sent'
  BY <1>1 DEF Loop, LoopEnds, loop, listener, reader
<1>2. ASSUME GetToken PROVE Sent'
  BY <1>2 DEF GetToken, loop, listener, reader
<1>3. ASSUME Connect PROVE Sent'
  BY <1>3 DEF Connect, loop, listener, reader
<1>4. ASSUME NEW i \in Rounds, Receive(i) PROVE Sent'
  BY <1>4 DEF Receive, Taken, loop, listener, reader
<1>5. ASSUME maybeDeliver PROVE Sent'
  BY <1>5 DEF maybeDeliver, loop, listener, reader
<1>6. ASSUME NEW i \in Rounds, Close(i) PROVE Sent'
  BY <1>6 DEF Close, loop, listener, reader
<1>7. ASSUME NEW i \in Rounds, addListener(i) PROVE Sent'
  BY <1>7 DEF addListener, loop, listener, reader
<1>8. ASSUME NEW i \in Rounds, Handled(i) PROVE Sent'
  <2> HIDE DEF TypeOK, Holding, Rounds
  <2>1. /\ \A x \in DOMAIN handled' :
             x \in DOMAIN handled \/ x = Len(handled) + 1
        /\ \A x \in DOMAIN handled : handled'[x] = handled[x]
        /\ handled'[Len(handled) + 1] = event[i]
    BY <1>8, AppendHandled
  <2>2. /\ event' = [event EXCEPT ![i] = 0]
        /\ UNCHANGED <<e, hand, sent>>
    BY <1>8 DEF Handled, loop, reader
  <2>3. 0 <= sent /\ event \in [Rounds -> 0..MaxEvents]
    BY DEF TypeOK
  <2>4. hand' <= sent' /\ \A k \in Rounds : e'[k] <= sent'
    BY <2>2
  <2>5. \A k \in Rounds : event'[k] <= sent'
    BY <2>2, <2>3
  <2>6. \A x \in DOMAIN handled' : handled'[x] <= sent'
    BY <2>1, <2>2
  <2> QED
    BY <2>4, <2>5, <2>6
<1>9. ASSUME NEW i \in Rounds, NEW j \in Rounds, OnStatus(i, j) PROVE Sent'
  BY <1>9 DEF OnStatus, AfterError, loop, listener, reader
<1>10. ASSUME NEW i \in Rounds, OnShutdown(i) PROVE Sent'
  BY <1>10 DEF OnShutdown, Leaves, loop, listener, reader
<1>11. ASSUME NEW i \in Rounds, Read(i) PROVE Sent'
  BY <1>11 DEF Read, loop, listener, reader
<1>12. ASSUME NEW i \in Rounds, ReadError(i) PROVE Sent'
  BY <1>12 DEF ReadError, Lose, loop, listener, reader
<1>13. ASSUME NEW i \in Rounds, ReadEOF(i) PROVE Sent'
  BY <1>13 DEF ReadEOF, Lose, AfterEOF, loop, listener, reader
<1>14. ASSUME Shutdown PROVE Sent'
  BY <1>14 DEF Shutdown, loop, listener, reader
<1> QED
  BY <1>0, <1>1, <1>2, <1>3, <1>4, <1>5, <1>6, <1>7, <1>8, <1>9, <1>10, <1>11,
     <1>12, <1>13, <1>14 DEF Next, SubscribeStep, ListenerStep

(* Who passes an event on does not keep it. *)
LEMMA OnePlaceStep ==
  ASSUME TypeOK, Holding, Sent, OnePlace, [Next]_vars
  PROVE  OnePlace'
<1> USE SSEAssumption DEF TypeOK, Holding, Sent, OnePlace, Rounds
<1>0. ASSUME UNCHANGED vars PROVE OnePlace'
  BY <1>0 DEF vars, loop, listener, reader
<1>1. ASSUME Loop PROVE OnePlace'
  BY <1>1 DEF Loop, LoopEnds, loop, listener, reader
<1>2. ASSUME GetToken PROVE OnePlace'
  BY <1>2 DEF GetToken, loop, listener, reader
<1>3. ASSUME Connect PROVE OnePlace'
  BY <1>3 DEF Connect, loop, listener, reader
<1>4. ASSUME NEW i \in Rounds, Receive(i) PROVE OnePlace'
  BY <1>4 DEF Receive, Taken, loop, listener, reader
<1>5. ASSUME maybeDeliver PROVE OnePlace'
  <2>1. spc = "deliver" /\ hand # 0 /\ channel \in Rounds
    BY <1>5 DEF maybeDeliver
  <2>2. /\ event' = [event EXCEPT ![channel] = hand]
        /\ hand' = 0
        /\ UNCHANGED <<e, handled>>
    BY <1>5 DEF maybeDeliver, reader
  <2>3. /\ event \in [Rounds -> 0..MaxEvents]
        /\ \A x \in DOMAIN handled : handled[x] # 0
    OBVIOUS
  <2> HIDE DEF TypeOK, Holding, Rounds, Sent
  <2>4. \A k \in Rounds : event'[k] = IF k = channel THEN hand ELSE event[k]
    BY <2>2, <2>3
  <2> QED
    BY <2>1, <2>2, <2>3, <2>4
<1>6. ASSUME NEW i \in Rounds, Close(i) PROVE OnePlace'
  BY <1>6 DEF Close, loop, listener, reader
<1>7. ASSUME NEW i \in Rounds, addListener(i) PROVE OnePlace'
  BY <1>7 DEF addListener, loop, listener, reader
<1>8. ASSUME NEW i \in Rounds, Handled(i) PROVE OnePlace'
  <2> HIDE DEF TypeOK, Holding, Rounds
  <2>1. event[i] # 0
    BY <1>8, AppendHandled
  <2>2. /\ event' = [event EXCEPT ![i] = 0]
        /\ UNCHANGED <<e, hand>>
    BY <1>8 DEF Handled, loop, reader
  <2>0. event \in [Rounds -> 0..MaxEvents]
    BY DEF TypeOK
  <2>3. /\ \A k, j \in Rounds : k # j /\ e'[k] # 0 => e'[k] # e'[j]
        /\ \A k, j \in Rounds :
             k # j /\ event'[k] # 0 => event'[k] # event'[j]
        /\ \A k, j \in Rounds : e'[k] # 0 => e'[k] # event'[j]
        /\ hand' # 0 => \A k \in Rounds : hand' # e'[k] /\ hand' # event'[k]
    BY <2>2, <2>0
  <2>4. ASSUME NEW x \in DOMAIN handled
        PROVE  /\ handled'[x] # hand'
               /\ \A k \in Rounds : /\ handled'[x] # e'[k]
                                    /\ handled'[x] # event'[k]
    <3>1. handled'[x] = handled[x] /\ handled[x] # 0
      BY <1>8, AppendHandled
    <3> QED
      BY <2>0, <2>2, <3>1
  <2>5. LET new == handled'[Len(handled) + 1] IN
        new # hand' /\ \A k \in Rounds : new # e'[k] /\ new # event'[k]
    <3>1. handled'[Len(handled) + 1] = event[i]
      BY <1>8, AppendHandled
    <3> QED
      BY <2>0, <2>1, <2>2, <3>1
  <2>6. \A x \in DOMAIN handled' :
          x \in DOMAIN handled \/ x = Len(handled) + 1
    BY <1>8, AppendHandled
  <2> QED
    BY <2>3, <2>4, <2>5, <2>6
<1>9. ASSUME NEW i \in Rounds, NEW j \in Rounds, OnStatus(i, j) PROVE OnePlace'
  BY <1>9 DEF OnStatus, AfterError, loop, listener, reader
<1>10. ASSUME NEW i \in Rounds, OnShutdown(i) PROVE OnePlace'
  BY <1>10 DEF OnShutdown, Leaves, loop, listener, reader
<1>11. ASSUME NEW i \in Rounds, Read(i) PROVE OnePlace'
  <2>1. /\ e' = [e EXCEPT ![i] = sent + 1]
        /\ UNCHANGED <<event, hand, handled>>
    BY <1>11 DEF Read, loop, listener
  <2>2. /\ hand # sent + 1
        /\ \A k \in Rounds : e[k] # sent + 1 /\ event[k] # sent + 1
        /\ \A x \in DOMAIN handled : handled[x] # sent + 1
    OBVIOUS
  <2> QED
    BY <2>1, <2>2
<1>12. ASSUME NEW i \in Rounds, ReadError(i) PROVE OnePlace'
  BY <1>12 DEF ReadError, Lose, loop, listener, reader
<1>13. ASSUME NEW i \in Rounds, ReadEOF(i) PROVE OnePlace'
  BY <1>13 DEF ReadEOF, Lose, AfterEOF, loop, listener, reader
<1>14. ASSUME Shutdown PROVE OnePlace'
  BY <1>14 DEF Shutdown, loop, listener, reader
<1> QED
  BY <1>0, <1>1, <1>2, <1>3, <1>4, <1>5, <1>6, <1>7, <1>8, <1>9, <1>10, <1>11,
     <1>12, <1>13, <1>14 DEF Next, SubscribeStep, ListenerStep

(* The event a handler is done with was not in `handled' before. *)
LEMMA HandledOnceStep ==
  ASSUME TypeOK, Holding, OnePlace, HandledOnce, [Next]_vars
  PROVE  HandledOnce'
<1> USE DEF loop, listener, reader
<1>1. CASE UNCHANGED handled
  BY <1>1 DEF HandledOnce
<1>2. ASSUME NEW i \in Rounds, Handled(i) PROVE HandledOnce'
  <2>1. /\ \A x \in DOMAIN handled' :
             x \in DOMAIN handled \/ x = Len(handled) + 1
        /\ \A x \in DOMAIN handled : handled'[x] = handled[x]
        /\ handled'[Len(handled) + 1] = event[i]
    BY <1>2, AppendHandled
  <2>2. \A x \in DOMAIN handled : handled[x] # event[i]
    BY DEF OnePlace
  <2> QED
    BY <2>1, <2>2 DEF HandledOnce
<1>3. Loop \/ GetToken \/ Connect \/ maybeDeliver => UNCHANGED handled
  BY DEF Loop, GetToken, Connect, maybeDeliver
<1>4. ASSUME NEW i \in Rounds
      PROVE  Receive(i) \/ Close(i) \/ addListener(i) => UNCHANGED handled
  BY DEF Receive, Close, addListener
<1>5. ASSUME NEW i \in Rounds, NEW j \in Rounds
      PROVE  OnStatus(i, j) \/ OnShutdown(i) => UNCHANGED handled
  BY DEF OnStatus, OnShutdown
<1>6. ASSUME NEW i \in Rounds
      PROVE  Read(i) \/ ReadError(i) \/ ReadEOF(i) => UNCHANGED handled
  BY DEF Read, ReadError, ReadEOF
<1>7. Shutdown \/ UNCHANGED vars => UNCHANGED handled
  BY DEF Shutdown, vars
<1> QED
  BY <1>1, <1>2, <1>3, <1>4, <1>5, <1>6, <1>7
     DEF Next, SubscribeStep, ListenerStep

(* A round begins only where shouldShutdown was not set when the loop read *)
(* it, so it is the last that begins once the flag is set.                 *)
LEMMA LastRoundStep ==
  ASSUME TypeOK, LastRound, [Next]_vars
  PROVE  LastRound'
<1> USE SSEAssumption DEF TypeOK, LastRound, AtMostOneMoreRound, Rounds
<1>0. ASSUME UNCHANGED vars PROVE LastRound'
  BY <1>0 DEF vars, loop, listener, reader
<1>1. ASSUME Loop PROVE LastRound'
  BY <1>1 DEF Loop, LoopEnds, loop, listener, reader
<1>2. ASSUME GetToken PROVE LastRound'
  BY <1>2 DEF GetToken, loop, listener, reader
<1>3. ASSUME Connect PROVE LastRound'
  BY <1>3 DEF Connect, loop, listener, reader
<1>4. ASSUME NEW i \in Rounds, Receive(i) PROVE LastRound'
  BY <1>4 DEF Receive, Taken, loop, listener, reader
<1>5. ASSUME maybeDeliver PROVE LastRound'
  BY <1>5 DEF maybeDeliver, loop, listener, reader
<1>6. ASSUME NEW i \in Rounds, Close(i) PROVE LastRound'
  BY <1>6 DEF Close, loop, listener, reader
<1>7. ASSUME NEW i \in Rounds, addListener(i) PROVE LastRound'
  BY <1>7 DEF addListener, loop, listener, reader
<1>8. ASSUME NEW i \in Rounds, Handled(i) PROVE LastRound'
  BY <1>8 DEF Handled, loop, listener, reader
<1>9. ASSUME NEW i \in Rounds, NEW j \in Rounds, OnStatus(i, j)
      PROVE  LastRound'
  BY <1>9 DEF OnStatus, AfterError, loop, listener, reader
<1>10. ASSUME NEW i \in Rounds, OnShutdown(i) PROVE LastRound'
  BY <1>10 DEF OnShutdown, Leaves, loop, listener, reader
<1>11. ASSUME NEW i \in Rounds, Read(i) PROVE LastRound'
  BY <1>11 DEF Read, loop, listener, reader
<1>12. ASSUME NEW i \in Rounds, ReadError(i) PROVE LastRound'
  BY <1>12 DEF ReadError, Lose, loop, listener, reader
<1>13. ASSUME NEW i \in Rounds, ReadEOF(i) PROVE LastRound'
  BY <1>13 DEF ReadEOF, Lose, AfterEOF, loop, listener, reader
<1>14. ASSUME Shutdown PROVE LastRound'
  BY <1>14 DEF Shutdown, loop, listener, reader
<1> QED
  BY <1>0, <1>1, <1>2, <1>3, <1>4, <1>5, <1>6, <1>7, <1>8, <1>9, <1>10, <1>11,
     <1>12, <1>13, <1>14 DEF Next, SubscribeStep, ListenerStep

LEMMA SInvInit == Init => SInv
<1> SUFFICES ASSUME Init PROVE SInv
  OBVIOUS
<1> USE SSEAssumption DEF Init
<1>1. TypeOK
  <2>1. handled \in Seq(1..MaxEvents)
    OBVIOUS
  <2>2. /\ lpc = [i \in Rounds |-> "none"] /\ rpc = [i \in Rounds |-> "none"]
        /\ body = [i \in Rounds |-> "none"]
    OBVIOUS
  <2>3. shutdownChan \in BOOLEAN /\ shouldShutdown \in BOOLEAN
    OBVIOUS
  <2> QED
    BY <2>1, <2>2, <2>3 DEF TypeOK
<1>2. Readers /\ Closing
  BY DEF Readers, OneLiveReader, Closing, Live
<1>3. Holding /\ Sent
  BY DEF Holding, Sent
<1>4. OnePlace /\ HandledOnce
  BY DEF OnePlace, HandledOnce
<1>5. LastRound
  BY DEF LastRound, AtMostOneMoreRound
<1> QED
  BY <1>1, <1>2, <1>3, <1>4, <1>5 DEF SInv

LEMMA SInvStep == SInv /\ [Next]_vars => SInv'
BY TypeStep, ReadersStep, ClosingStep, HoldingStep, SentStep, OnePlaceStep,
   HandledOnceStep, LastRoundStep
   DEF SInv

LEMMA SInvAlways == Spec => []SInv
BY SInvInit, SInvStep, PTL DEF Spec

-----------------------------------------------------------------------------
(* Every variable of the subscription keeps its type; in particular an     *)
(* event channel that is used has been made, and a handler is never called *)
(* without an event (listen in sse/client.go).                             *)
THEOREM TypeCorrect == Spec => []TypeOK
<1>1. SInv => TypeOK
  BY DEF SInv
<1> QED
  BY SInvAlways, <1>1, PTL

(* Whenever Listen waits on or delivers from a connection, the reader of   *)
(* that connection is the only one alive, however many rounds there were.  *)
THEOREM OneReader == Spec => []OneLiveReader
<1>1. SInv => OneLiveReader
  BY DEF SInv, Readers
<1> QED
  BY SInvAlways, <1>1, PTL

(* The handler is called at most once for each event that Houston sends.   *)
THEOREM EventHandledOnce == Spec => []HandledOnce
<1>1. SInv => HandledOnce
  BY DEF SInv
<1> QED
  BY SInvAlways, <1>1, PTL

(* After shouldShutdown is set, Subscribe's loop opens at most one more    *)
(* connection, although it reads the flag without synchronisation.         *)
THEOREM OneMoreRound == Spec => []AtMostOneMoreRound
<1>1. SInv => AtMostOneMoreRound
  BY DEF SInv, LastRound
<1> QED
  BY SInvAlways, <1>1, PTL
=============================================================================
