------------------------------ MODULE MCRouter ------------------------------
(* Router for TLC: integrations with one topic each. *)
EXTENDS Router, TLC

CONSTANTS n1, n2, t1, t2

TopicOf == n1 :> t1 @@ n2 :> t2

(* No integration, and all of Names. *)
MCAnswers == {[n \in S |-> TopicOf[n]] : S \in {{}, Names}}

(* A message opts out of n1 and says nothing about n2. *)
MCChoices == [m \in Messages |-> n1 :> FALSE]

(* The integrations differ in their names only, and so do the keys: a copy *)
(* is told by the round of the loop that sent it, a key by being that of   *)
(* the first datum or not.                                                 *)
Round(c) ==
  IF c[2] = Retry THEN 0
  ELSE CHOOSE i \in DOMAIN visited[c[1]] : visited[c[1]][i] = c[2]

Rounds(S)    == {<<c[1], Round(c)>> : c \in S}
Outcomes(S)  == {<<r[1][1], Round(r[1]), r[2]>> : r \in S}
InOrder(seq) == [i \in DOMAIN seq |-> <<seq[i][1], Round(seq[i])>>]

First(k) ==
  \/ <<k, 1>> \in accepted
  \/ datum["handleEvents"] = 1 /\ key["handleEvents"] = k

FirstKeys(S) == {<<First(Head(k)), Tail(k)>> : k \in S}
Entries      == {<<First(Head(k)), Tail(k), queue[k]>> : k \in DOMAIN queue}
Accepted     == {<<First(p[1]), p[2]>> : p \in accepted}

(* What the next steps and the properties depend on.  No step reads a      *)
(* topic, the bucket or `owed' again, and the bodies in the bucket, which  *)
(* NothingLostOnTheWay looks at, are all empty.  A process that is gone    *)
(* takes no step at all, so its states count as one.                       *)
LiveView ==
  IF Running
  THEN <<inbox, pc, cur, [m \in Messages |-> DOMAIN integrations[m]],
         [m \in Messages |-> Len(visited[m])], InOrder(produceChannel),
         Rounds(InHand), Rounds(InOutq), Rounds(Logged), Outcomes(reports),
         polling, Outcomes(events), Rounds(deadletter), Rounds(counted), hpc,
         stop, Rounds(sent), InOrder(given),
         Entries, globalLock, adding, timer, clock, calls, apc,
         calls = 0 \/ First(key["handleEvents"]), datum, spc,
         FirstKeys(present), FirstKeys(seen), Accepted>>
  ELSE <<proc>>
=============================================================================
