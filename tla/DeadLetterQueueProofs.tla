------------------------ MODULE DeadLetterQueueProofs ------------------------
(***************************************************************************)
(* Safety of the dead letter queue, for any number of callers, keys, calls *)
(* and seconds, any queue size, and uploads that fail at will.             *)
(*                                                                         *)
(* The argument: flush clears and adds only the entry of a key it has made *)
(* longer, which is never a key of a caller.  So the entry of a caller's   *)
(* key only grows, what was accepted stays in it, a range that visits      *)
(* every key that was present visits the keys of everything accepted, and  *)
(* what an object was made from is a prefix of the entry it came from.     *)
(***************************************************************************)
EXTENDS DeadLetterQueue, FiniteSetTheorems, SequenceTheorems, TLAPS

(* The map's keys are not empty, its values are sequences of data. *)
Entries ==
  \A k \in DOMAIN queue : /\ k \in Seq(Keys \cup Nat)
                          /\ k # <<>>
                          /\ queue[k] \in Seq(Nat)

(* What the proof needs of the other variables' types. *)
Control ==
  /\ globalLock \in Adders \cup {"start", Nobody}
  /\ apc \in [Adders -> {"idle", "lock", "flush", "unlock", "done"}]
  /\ spc \in {"select", "lock", "range", "wait", "closing lock",
              "closing range", "closed"}
  /\ key \in [Adders -> Keys]
  /\ datum \in [Adders -> Nat]
  /\ clock \in Nat
  /\ calls \in Nat

(* The entry of a caller's key still holds everything accepted for it. *)
Retained ==
  \A p \in accepted : /\ <<p[1]>> \in DOMAIN queue
                      /\ p[2] \in Elements(queue[<<p[1]>>])

(* A caller about to flush has made the entry it will flush. *)
FlushTarget == \A a \in Adders : apc[a] = "flush" => <<key[a]>> \in DOMAIN queue

Prefix(s, t) == Len(s) <= Len(t) /\ SubSeq(t, 1, Len(s)) = s

(* What an object was made from is where the entry it came from begins. *)
Uploaded ==
  \A o \in DOMAIN s3 :
    /\ s3[o].buffer \in Seq(Nat)
    /\ \E k \in DOMAIN queue, c \in Nat :
         o = Append(k, c) /\ Prefix(s3[o].buffer, queue[k])

(* The progress of Close towards CloseTriesAll. *)
CloseProgress ==
  /\ owed \subseteq accepted
  /\ spc = "closing range" => \A p \in owed : <<p[1]>> \in present
  /\ CloseTriesAll

DInv ==
  /\ Entries /\ Control /\ QueueExclusion
  /\ DerivedKeysEmpty /\ Retained /\ FlushTarget /\ Uploaded /\ CloseProgress

-----------------------------------------------------------------------------
(* A key that flush has made longer is not the key of a caller, and is     *)
(* longer than 1.                                                          *)
LEMMA LongerKey ==
  ASSUME NEW S, NEW k \in Seq(S), k # <<>>, NEW c \in S
  PROVE  /\ Append(k, c) \in Seq(S)
         /\ Append(k, c) # <<>>
         /\ Len(Append(k, c)) > 1
         /\ \A x : Append(k, c) # <<x>>
<1>1. Len(k) \in Nat /\ Len(k) > 0
  OBVIOUS
<1>2. Append(k, c) \in Seq(S) /\ Len(Append(k, c)) = Len(k) + 1
  OBVIOUS
<1>3. \A x : Len(<<x>>) = 1
  OBVIOUS
<1>4. Len(Append(k, c)) # 1 /\ Len(Append(k, c)) # 0
  BY <1>1, <1>2
<1>5. ASSUME NEW x, Append(k, c) = <<x>> PROVE FALSE
  <2>1. Len(Append(k, c)) = Len(<<x>>)
    BY <1>5
  <2> QED
    BY <1>3, <1>4, <2>1
<1>6. Append(k, c) # <<>>
  OBVIOUS
<1>7. Len(Append(k, c)) > 1
  BY <1>1, <1>2
<1> QED
  BY <1>2, <1>5, <1>6, <1>7

(* Every sequence is a prefix of itself, and of what it is a prefix of,    *)
(* appended to.                                                            *)
LEMMA PrefixFacts ==
  ASSUME NEW s \in Seq(Nat), NEW t \in Seq(Nat), NEW d \in Nat
  PROVE  /\ Prefix(s, s)
         /\ Prefix(s, t) => Prefix(s, Append(t, d))
<1>1. Prefix(s, s)
  BY DEF Prefix
<1>2. ASSUME Prefix(s, t) PROVE Prefix(s, Append(t, d))
  <2>1. /\ Len(s) \in Nat /\ Len(t) \in Nat /\ Len(s) <= Len(t)
        /\ Append(t, d) \in Seq(Nat)
        /\ Len(Append(t, d)) = Len(t) + 1
    BY <1>2 DEF Prefix
  <2>2. \A i \in 1..Len(s) : t[i] = s[i]
    BY <1>2, <2>1 DEF Prefix
  <2>3. \A i \in 1..Len(s) : Append(t, d)[i] = t[i]
    BY <2>1
  <2>4. SubSeq(Append(t, d), 1, Len(s)) = s
    <3> DEFINE u == SubSeq(Append(t, d), 1, Len(s))
    <3>1. u \in Seq(Nat) /\ Len(u) = Len(s)
      BY <2>1
    <3>2. \A i \in 1..Len(s) : u[i] = Append(t, d)[i]
      BY <2>1
    <3>3. \A i \in 1..Len(s) : u[i] = s[i]
      BY <2>2, <2>3, <3>2
    <3> HIDE DEF u
    <3>4. u = s
      BY <3>1, <3>3, SeqEqual
    <3> QED
      BY <3>4 DEF u
  <2> QED
    BY <2>1, <2>4 DEF Prefix
<1> QED
  BY <1>1, <1>2

(* An append keeps the elements and adds one. *)
LEMMA AppendElements ==
  ASSUME NEW S, NEW s \in Seq(S), NEW d \in S
  PROVE  Elements(s) \cup {d} \subseteq Elements(Append(s, d))
<1>1. /\ DOMAIN Append(s, d) = 1..(Len(s) + 1)
      /\ DOMAIN s = 1..Len(s)
      /\ Len(s) \in Nat
  OBVIOUS
<1>2. \A i \in DOMAIN s : i \in DOMAIN Append(s, d) /\ Append(s, d)[i] = s[i]
  BY <1>1
<1>3. /\ Len(s) + 1 \in DOMAIN Append(s, d)
      /\ Append(s, d)[Len(s) + 1] = d
  BY <1>1
<1> QED
  BY <1>2, <1>3 DEF Elements

(* What flush(k, ok) does: every entry it finds is as before, but for      *)
(* those of longer keys, which are empty; an object is as before or was    *)
(* made from the whole entry of the key.                                   *)
LEMMA FlushEffect ==
  ASSUME DInv, NEW k \in DOMAIN queue, NEW ok \in BOOLEAN, flush(k, ok)
  PROVE  /\ DOMAIN queue \subseteq DOMAIN queue'
         /\ \A x \in DOMAIN queue' :
              \/ x \in DOMAIN queue /\ queue'[x] = queue[x]
              \/ /\ x \in Seq(Keys \cup Nat) /\ x # <<>>
                 /\ \A y : x # <<y>>
                 /\ queue'[x] = <<>>
         /\ DOMAIN s3 \subseteq DOMAIN s3'
         /\ \A o \in DOMAIN s3' :
              \/ o \in DOMAIN s3 /\ s3'[o].buffer = s3[o].buffer
              \/ o = Append(k, clock) /\ s3'[o].buffer = queue[k]
<1> DEFINE to == Append(k, clock)
<1>1. to \in Seq(Keys \cup Nat) /\ to # <<>> /\ \A y : to # <<y>>
  <2>1. k \in Seq(Keys \cup Nat) /\ k # <<>>
    BY DEF DInv, Entries
  <2>2. clock \in Keys \cup Nat
    BY DEF DInv, Control
  <2> QED
    BY <2>1, <2>2, LongerKey
<1> HIDE DEF to
<1>2. CASE ok
  <2>1. queue' = [x \in DOMAIN queue \cup {to} |->
                    IF x = to THEN <<>> ELSE queue[x]]
    BY <1>2 DEF flush, Cleared, to
  <2>2. s3' = [o \in DOMAIN s3 \cup {to} |->
                 IF o = to THEN [body |-> <<>>, buffer |-> queue[k]] ELSE s3[o]]
    BY <1>2 DEF flush, to
  <2>3. /\ DOMAIN queue \subseteq DOMAIN queue'
        /\ \A x \in DOMAIN queue' :
             \/ x \in DOMAIN queue /\ queue'[x] = queue[x]
             \/ x = to /\ queue'[x] = <<>>
    BY <2>1
  <2>4. /\ DOMAIN s3 \subseteq DOMAIN s3'
        /\ \A o \in DOMAIN s3' :
             \/ o \in DOMAIN s3 /\ s3'[o].buffer = s3[o].buffer
             \/ o = to /\ s3'[o].buffer = queue[k]
    BY <2>2
  <2> QED
    BY <1>1, <2>3, <2>4 DEF to
<1>3. CASE ~ok
  BY <1>3 DEF flush, Cleared
<1> QED
  BY <1>2, <1>3

(* An entry that flush finds is still there afterwards, and begins as it   *)
(* did: flush clears only entries that were empty.                         *)
LEMMA FlushKeepsEntries ==
  ASSUME DInv, NEW k \in DOMAIN queue, NEW ok \in BOOLEAN, flush(k, ok)
  PROVE  \A x \in DOMAIN queue : x \in DOMAIN queue' /\ queue'[x] = queue[x]
<1> SUFFICES ASSUME NEW x \in DOMAIN queue
             PROVE  x \in DOMAIN queue' /\ queue'[x] = queue[x]
  OBVIOUS
<1>1. x \in DOMAIN queue'
  BY FlushEffect
<1>2. CASE x = Append(k, clock)
  <2>1. k \in Seq(Keys \cup Nat) /\ k # <<>> /\ clock \in Keys \cup Nat
    BY DEF DInv, Entries, Control
  <2>2. Len(x) > 1
    BY <1>2, <2>1, LongerKey
  <2>3. queue[x] = <<>>
    BY <2>2 DEF DInv, DerivedKeysEmpty
  <2>4. queue'[x] = <<>> \/ queue'[x] = queue[x]
    BY <1>1, FlushEffect
  <2> QED
    BY <1>1, <2>3, <2>4
<1>3. CASE x # Append(k, clock)
  BY <1>3 DEF flush, Cleared
<1> QED
  BY <1>1, <1>2, <1>3

-----------------------------------------------------------------------------
(* What is said of the map and the objects survives any flush. *)
LEMMA FlushKeepsMap ==
  ASSUME DInv, NEW k \in DOMAIN queue, NEW ok \in BOOLEAN, flush(k, ok),
         UNCHANGED accepted
  PROVE  Entries' /\ DerivedKeysEmpty' /\ Retained' /\ Uploaded'
<1>1. Entries'
  <2> SUFFICES ASSUME NEW x \in DOMAIN queue'
               PROVE  /\ x \in Seq(Keys \cup Nat)
                      /\ x # <<>>
                      /\ queue'[x] \in Seq(Nat)
    BY DEF Entries
  <2>1. CASE x \in DOMAIN queue /\ queue'[x] = queue[x]
    BY <2>1 DEF DInv, Entries
  <2>2. CASE x \in Seq(Keys \cup Nat) /\ x # <<>> /\ queue'[x] = <<>>
    BY <2>2
  <2> QED
    BY <2>1, <2>2, FlushEffect
<1>2. DerivedKeysEmpty'
  BY FlushEffect DEF DInv, DerivedKeysEmpty
<1>3. Retained'
  <2> SUFFICES ASSUME NEW p \in accepted
               PROVE  /\ <<p[1]>> \in DOMAIN queue'
                      /\ p[2] \in Elements(queue'[<<p[1]>>])
    BY DEF Retained, Elements
  <2>1. <<p[1]>> \in DOMAIN queue /\ p[2] \in Elements(queue[<<p[1]>>])
    BY DEF DInv, Retained
  <2>2. <<p[1]>> \in DOMAIN queue' /\ queue'[<<p[1]>>] = queue[<<p[1]>>]
    BY <2>1, FlushKeepsEntries
  <2> QED
    BY <2>1, <2>2
<1>4. Uploaded'
  <2> SUFFICES ASSUME NEW o \in DOMAIN s3'
               PROVE  /\ s3'[o].buffer \in Seq(Nat)
                      /\ \E l \in DOMAIN queue', c \in Nat :
                           o = Append(l, c) /\ Prefix(s3'[o].buffer, queue'[l])
    BY DEF Uploaded, Prefix
  <2>1. CASE o \in DOMAIN s3 /\ s3'[o].buffer = s3[o].buffer
    <3>1. PICK l \in DOMAIN queue, c \in Nat :
            o = Append(l, c) /\ Prefix(s3[o].buffer, queue[l])
      BY <2>1 DEF DInv, Uploaded
    <3>2. l \in DOMAIN queue' /\ queue'[l] = queue[l]
      BY FlushKeepsEntries
    <3>3. s3'[o].buffer \in Seq(Nat)
      BY <2>1 DEF DInv, Uploaded
    <3> QED
      BY <2>1, <3>1, <3>2, <3>3
  <2>2. CASE o = Append(k, clock) /\ s3'[o].buffer = queue[k]
    <3>1. queue[k] \in Seq(Nat) /\ clock \in Nat
      BY DEF DInv, Entries, Control
    <3>2. k \in DOMAIN queue' /\ queue'[k] = queue[k]
      BY FlushKeepsEntries
    <3>3. Prefix(queue[k], queue[k])
      BY <3>1, PrefixFacts
    <3> QED
      BY <2>2, <3>1, <3>2, <3>3
  <2> QED
    BY <2>1, <2>2, FlushEffect
<1> QED
  BY <1>1, <1>2, <1>3, <1>4

(* Steps that leave the map, the bucket and what was accepted alone leave  *)
(* alone what is said of them.                                             *)
LEMMA MapUnchanged ==
  ASSUME DInv, UNCHANGED <<queue, s3, accepted>>
  PROVE  Entries' /\ DerivedKeysEmpty' /\ Retained' /\ Uploaded'
  BY DEF DInv, Entries, DerivedKeysEmpty, Retained, Elements, Uploaded, Prefix

(* AddToQueue only moves its caller towards the lock. *)
LEMMA AddToQueueStep ==
  ASSUME DInv, NEW a \in Adders, NEW k \in Keys, AddToQueue(a, k)
  PROVE  DInv'
<1>1. Control'
  <2>1. calls \in Nat
    BY DEF DInv, Control
  <2>2. calls + 1 \in Nat
    BY <2>1
  <2> QED
    BY <2>2 DEF DInv, Control, AddToQueue
<1>2. QueueExclusion'
  BY QueueAssumption DEF DInv, Control, QueueExclusion, Critical, Ranging,
                         AddToQueue
<1>3. CloseProgress'
  BY DEF DInv, CloseProgress, CloseTriesAll, AddToQueue, history, ranging
<1>4. FlushTarget'
  BY DEF DInv, Control, FlushTarget, AddToQueue
<1>5. UNCHANGED <<queue, s3, accepted>>
  BY DEF AddToQueue, history
<1> QED
  BY <1>1, <1>2, <1>3, <1>4, <1>5, MapUnchanged DEF DInv

(* The datum is appended to the entry of its key, with the lock held. *)
LEMMA AddLockedStep ==
  ASSUME DInv, NEW a \in Adders, AddLocked(a)
  PROVE  DInv'
<1> DEFINE k   == <<key[a]>>
           new == Append(Contents(k), datum[a])
<1>1. key[a] \in Keys /\ datum[a] \in Nat
  BY DEF DInv, Control
<1>2. k \in Seq(Keys \cup Nat) /\ k # <<>> /\ Len(k) = 1
  BY <1>1
<1>3. Contents(k) \in Seq(Nat)
  <2>1. CASE k \in DOMAIN queue
    BY <2>1 DEF DInv, Entries, Contents
  <2>2. CASE k \notin DOMAIN queue
    BY <2>2 DEF Contents
  <2> QED
    BY <2>1, <2>2
<1>4. new \in Seq(Nat)
  BY <1>1, <1>3
<1>5. queue' = [x \in DOMAIN queue \cup {k} |-> IF x = k THEN new ELSE queue[x]]
  BY DEF AddLocked
<1>6. /\ DOMAIN queue' = DOMAIN queue \cup {k}
      /\ queue'[k] = new
      /\ \A x \in DOMAIN queue : x # k => queue'[x] = queue[x]
  BY <1>5
<1> HIDE DEF k, new
<1>7. Entries'
  BY <1>2, <1>4, <1>6 DEF DInv, Entries
<1>8. Control'
  <2>1. apc' \in [Adders -> {"idle", "lock", "flush", "unlock", "done"}]
    BY DEF DInv, Control, AddLocked
  <2> QED
    BY <2>1 DEF DInv, Control, AddLocked
<1>9. QueueExclusion'
  BY QueueAssumption DEF DInv, Control, QueueExclusion, Critical, Ranging,
                         AddLocked
<1>10. DerivedKeysEmpty'
  <2> SUFFICES ASSUME NEW x \in DOMAIN queue', Len(x) > 1
               PROVE  queue'[x] = <<>>
    BY DEF DerivedKeysEmpty
  <2>1. ~(Len(k) > 1)
    <3>1. Len(k) = 1
      BY <1>2
    <3> QED
      BY <3>1
  <2>2. x # k
    BY <2>1, Zenon
  <2> QED
    BY <1>6, <2>2 DEF DInv, DerivedKeysEmpty
<1>11. Retained'
  <2> SUFFICES ASSUME NEW p \in accepted'
               PROVE  /\ <<p[1]>> \in DOMAIN queue'
                      /\ p[2] \in Elements(queue'[<<p[1]>>])
    BY DEF Retained, Elements
  <2>1. Elements(Contents(k)) \cup {datum[a]} \subseteq Elements(new)
    BY <1>1, <1>3, AppendElements DEF new
  <2>2. CASE p = <<key[a], datum[a]>>
    <3>1. <<p[1]>> = k /\ p[2] = datum[a]
      BY <2>2 DEF k
    <3> QED
      BY <1>6, <2>1, <3>1
  <2>3. CASE p \in accepted
    <3>1. <<p[1]>> \in DOMAIN queue /\ p[2] \in Elements(queue[<<p[1]>>])
      BY <2>3 DEF DInv, Retained
    <3>2. CASE <<p[1]>> = k
      <4>1. Contents(k) = queue[k]
        BY <3>1, <3>2 DEF Contents
      <4> QED
        BY <1>6, <2>1, <3>1, <3>2, <4>1
    <3>3. CASE <<p[1]>> # k
      BY <1>6, <3>1, <3>3
    <3> QED
      BY <3>2, <3>3
  <2> QED
    BY <2>2, <2>3 DEF AddLocked
<1>12. FlushTarget'
  <2> SUFFICES ASSUME NEW b \in Adders, apc'[b] = "flush"
               PROVE  <<key[b]>> \in DOMAIN queue'
    BY DEF FlushTarget, AddLocked
  <2>1. CASE b = a
    BY <1>6, <2>1 DEF k
  <2>2. CASE b # a
    <3>1. apc[b] = "flush"
      BY <2>2 DEF AddLocked, DInv, Control
    <3> QED
      BY <1>6, <3>1 DEF DInv, FlushTarget
  <2> QED
    BY <2>1, <2>2
<1>13. Uploaded'
  <2> SUFFICES ASSUME NEW o \in DOMAIN s3
               PROVE  /\ s3[o].buffer \in Seq(Nat)
                      /\ \E l \in DOMAIN queue', c \in Nat :
                           o = Append(l, c) /\ Prefix(s3[o].buffer, queue'[l])
    BY DEF Uploaded, Prefix, AddLocked
  <2>1. s3[o].buffer \in Seq(Nat)
    BY DEF DInv, Uploaded
  <2>2. PICK l \in DOMAIN queue, c \in Nat :
          o = Append(l, c) /\ Prefix(s3[o].buffer, queue[l])
    BY DEF DInv, Uploaded
  <2>3. l \in DOMAIN queue'
    BY <1>6
  <2>4. CASE l = k
    <3>1. Contents(k) = queue[l]
      BY <2>4 DEF Contents
    <3>2. Prefix(s3[o].buffer, new)
      BY <1>1, <1>3, <2>1, <2>2, <3>1, PrefixFacts DEF new
    <3> QED
      BY <1>6, <2>1, <2>2, <2>3, <2>4, <3>2
  <2>5. CASE l # k
    BY <1>6, <2>1, <2>2, <2>3, <2>5
  <2> QED
    BY <2>4, <2>5
<1>14. CloseProgress'
  BY DEF DInv, CloseProgress, CloseTriesAll, AddLocked, ranging
<1> QED
  BY <1>7, <1>8, <1>9, <1>10, <1>11, <1>12, <1>13, <1>14 DEF DInv

(* A caller's own flush. *)
LEMMA AddFlushStep ==
  ASSUME DInv, NEW a \in Adders, AddFlush(a)
  PROVE  DInv'
<1> DEFINE k == <<key[a]>>
<1>1. k \in DOMAIN queue
  BY DEF DInv, FlushTarget, AddFlush
<1>2. PICK ok \in BOOLEAN : flush(k, ok)
  BY DEF AddFlush, SendToS3
<1> HIDE DEF k
<1>3. UNCHANGED accepted
  BY DEF AddFlush, history
<1>4. Entries' /\ DerivedKeysEmpty' /\ Retained' /\ Uploaded'
  BY <1>1, <1>2, <1>3, FlushKeepsMap
<1>5. Control'
  BY DEF DInv, Control, AddFlush
<1>6. QueueExclusion'
  BY QueueAssumption DEF DInv, Control, QueueExclusion, Critical, Ranging,
                         AddFlush
<1>7. FlushTarget'
  <2>1. DOMAIN queue \subseteq DOMAIN queue'
    BY <1>1, <1>2, FlushEffect
  <2> QED
    BY <2>1 DEF DInv, Control, FlushTarget, AddFlush
<1>8. CloseProgress'
  BY DEF DInv, CloseProgress, CloseTriesAll, AddFlush, history, ranging
<1> QED
  BY <1>4, <1>5, <1>6, <1>7, <1>8 DEF DInv

(* One round of the range in Flush. *)
LEMMA FlushKeyStep ==
  ASSUME DInv, NEW k \in DOMAIN queue, NEW ok \in SendToS3, FlushKey(k, ok)
  PROVE  DInv'
<1>1. ok \in BOOLEAN /\ flush(k, ok) /\ UNCHANGED accepted
  BY DEF FlushKey, history, SendToS3
<1>2. Entries' /\ DerivedKeysEmpty' /\ Retained' /\ Uploaded'
  BY <1>1, FlushKeepsMap
<1>3. Control'
  BY DEF DInv, Control, FlushKey, adder
<1>4. QueueExclusion'
  BY DEF DInv, QueueExclusion, Critical, Ranging, FlushKey, adder
<1>5. FlushTarget'
  <2>1. DOMAIN queue \subseteq DOMAIN queue'
    BY <1>1, FlushEffect
  <2> QED
    BY <2>1 DEF DInv, FlushTarget, FlushKey, adder
<1>6. CloseProgress'
  BY DEF DInv, CloseProgress, CloseTriesAll, FlushKey, history
<1> QED
  BY <1>2, <1>3, <1>4, <1>5, <1>6 DEF DInv

(* The steps that only take or release the lock, or move start() along. *)
LEMMA AddUnlockStep ==
  ASSUME DInv, NEW a \in Adders, AddUnlock(a)
  PROVE  DInv'
<1>1. Control'
  BY DEF DInv, Control, AddUnlock, Unlock
<1>2. QueueExclusion'
  BY QueueAssumption DEF DInv, Control, QueueExclusion, Critical, Ranging,
                         AddUnlock, Unlock
<1>3. FlushTarget' /\ CloseProgress'
  BY DEF DInv, Control, FlushTarget, CloseProgress, CloseTriesAll, AddUnlock,
         history, ranging
<1>4. UNCHANGED <<queue, s3, accepted>>
  BY DEF AddUnlock, history
<1> QED
  BY <1>1, <1>2, <1>3, <1>4, MapUnchanged DEF DInv

(* addingWaitGroup.Done() leaves the lock and the queue alone. *)
LEMMA AddDoneStep ==
  ASSUME DInv, NEW a \in Adders, AddDone(a)
  PROVE  DInv'
<1>1. Control'
  BY DEF DInv, Control, AddDone
<1>2. QueueExclusion'
  BY QueueAssumption DEF DInv, Control, QueueExclusion, Critical, Ranging,
                         AddDone
<1>3. FlushTarget' /\ CloseProgress'
  BY DEF DInv, Control, FlushTarget, CloseProgress, CloseTriesAll, AddDone,
         history, ranging
<1>4. UNCHANGED <<queue, s3, accepted>>
  BY DEF AddDone, history
<1> QED
  BY <1>1, <1>2, <1>3, <1>4, MapUnchanged DEF DInv

(* The range begins with every key that is in the map, among them the keys *)
(* of everything accepted.                                                 *)
LEMMA FlushLockedStep ==
  ASSUME DInv, FlushLocked
  PROVE  DInv'
<1>1. Control'
  BY DEF DInv, Control, FlushLocked, adder
<1>2. QueueExclusion'
  BY QueueAssumption DEF DInv, Control, QueueExclusion, Critical, Ranging,
                         FlushLocked, adder
<1>3. FlushTarget'
  BY DEF DInv, FlushTarget, FlushLocked, adder
<1>4. CloseProgress'
  BY DEF DInv, Retained, CloseProgress, CloseTriesAll, FlushLocked, history
<1>5. UNCHANGED <<queue, s3, accepted>>
  BY DEF FlushLocked, history
<1> QED
  BY <1>1, <1>2, <1>3, <1>4, <1>5, MapUnchanged DEF DInv

(* The range has visited all it began with when the lock is released. *)
LEMMA FlushUnlockStep ==
  ASSUME DInv, FlushUnlock
  PROVE  DInv'
<1>1. Control'
  BY DEF DInv, Control, FlushUnlock, adder
<1>2. QueueExclusion'
  BY QueueAssumption DEF DInv, Control, QueueExclusion, Critical, Ranging,
                         FlushUnlock, adder
<1>3. FlushTarget'
  BY DEF DInv, FlushTarget, FlushUnlock, adder
<1>4. CloseProgress'
  BY DEF DInv, CloseProgress, CloseTriesAll, FlushUnlock, RangeEnds, history,
         ranging
<1>5. UNCHANGED <<queue, s3, accepted>>
  BY DEF FlushUnlock, history
<1> QED
  BY <1>1, <1>2, <1>3, <1>4, <1>5, MapUnchanged DEF DInv

(* start() between its flushes, the shutdown signal and the clock. *)
LEMMA OtherSteps ==
  ASSUME DInv, TimerFires \/ CloseBegin \/ CloseWait \/ Shutdown \/ Tick
  PROVE  DInv'
<1>1. Control'
  <2>1. clock \in Nat
    BY DEF DInv, Control
  <2>2. clock + 1 \in Nat
    BY <2>1
  <2>3. CASE Tick
    BY <2>2, <2>3 DEF DInv, Control, Tick, adder
  <2>4. CASE ~Tick
    BY <2>4 DEF DInv, Control, TimerFires, CloseBegin, CloseWait, Shutdown,
                adder
  <2> QED
    BY <2>3, <2>4
<1>2. QueueExclusion'
  BY DEF DInv, QueueExclusion, Critical, Ranging, TimerFires, CloseBegin,
         CloseWait, Shutdown, Tick, adder
<1>3. FlushTarget'
  BY DEF DInv, FlushTarget, TimerFires, CloseBegin, CloseWait, Shutdown, Tick,
         adder
<1>4. CloseProgress'
  BY DEF DInv, CloseProgress, CloseTriesAll, TimerFires, CloseBegin, CloseWait,
         Shutdown, Tick, history, ranging
<1>5. UNCHANGED <<queue, s3, accepted>>
  BY DEF TimerFires, CloseBegin, CloseWait, Shutdown, Tick, history
<1> QED
  BY <1>1, <1>2, <1>3, <1>4, <1>5, MapUnchanged DEF DInv

(* The queue starts empty, and start() waits. *)
LEMMA InitHolds == Init => DInv
<1> SUFFICES ASSUME Init PROVE DInv
  OBVIOUS
<1>1. DOMAIN queue = {} /\ DOMAIN s3 = {}
  BY DEF Init
<1>2. Entries /\ DerivedKeysEmpty /\ Uploaded
  BY <1>1 DEF Entries, DerivedKeysEmpty, Uploaded
<1>3. Control /\ QueueExclusion
  BY QueueAssumption DEF Init, Control, QueueExclusion, Critical, Ranging
<1>4. Retained /\ FlushTarget /\ CloseProgress
  BY DEF Init, Retained, FlushTarget, CloseProgress, CloseTriesAll
<1> QED
  BY <1>2, <1>3, <1>4 DEF DInv

(* Every step keeps the inductive invariant. *)
LEMMA NextKeeps == DInv /\ [Next]_vars => DInv'
<1> SUFFICES ASSUME DInv, [Next]_vars PROVE DInv'
  OBVIOUS
<1>1. ASSUME NEW a \in Adders, NEW k \in Keys, AddToQueue(a, k) PROVE DInv'
  BY <1>1, AddToQueueStep
<1>2. ASSUME NEW a \in Adders, AdderStep(a) PROVE DInv'
  BY <1>2, AddLockedStep, AddFlushStep, AddUnlockStep, AddDoneStep
     DEF AdderStep
<1>3. CASE StartStep
  BY <1>3, FlushLockedStep, FlushKeyStep, FlushUnlockStep, OtherSteps
     DEF StartStep
<1>4. CASE TimerFires \/ CloseBegin \/ Shutdown \/ Tick
  BY <1>4, OtherSteps
<1>5. CASE UNCHANGED vars
  <2>1. UNCHANGED <<queue, s3, accepted>>
    BY <1>5 DEF vars, history
  <2>2. Control' /\ QueueExclusion' /\ FlushTarget' /\ CloseProgress'
    BY <1>5 DEF DInv, Control, QueueExclusion, Critical, Ranging, FlushTarget,
                CloseProgress, CloseTriesAll, vars, adder, ranging, history
  <2> QED
    BY <2>1, <2>2, MapUnchanged DEF DInv
<1> QED
  BY <1>1, <1>2, <1>3, <1>4, <1>5 DEF Next

(* The inductive invariant of the dead letter queue. *)
THEOREM DeadLetterInvariance == Spec => []DInv
  BY InitHolds, NextKeeps, PTL DEF Spec

(* globalLock is held by exactly the goroutine that works on the queue:    *)
(* AddToQueue and Flush release it on every path.                          *)
THEOREM ExclusiveQueue == Spec => []QueueExclusion
<1>1. DInv => QueueExclusion
  BY DEF DInv
<1> QED
  BY <1>1, DeadLetterInvariance, PTL

(* What AddToQueue appended is never dropped, whatever uploads fail or     *)
(* overwrite one another: flush never clears the entry of a caller's key.  *)
THEOREM NothingIsDropped == Spec => []NothingDropped
<1>1. DInv => NothingDropped
  BY DEF DInv, Retained, NothingDropped, Contents
<1> QED
  BY <1>1, DeadLetterInvariance, PTL

(* The entries that flush adds for its longer keys stay empty. *)
THEOREM LongerKeysEmpty == Spec => []DerivedKeysEmpty
<1>1. DInv => DerivedKeysEmpty
  BY DEF DInv
<1> QED
  BY <1>1, DeadLetterInvariance, PTL

(* The Flush of Close has tried the key of every datum accepted before     *)
(* Close was called, also when other uploads fail.                         *)
THEOREM CloseTriesEveryKey == Spec => []CloseTriesAll
<1>1. DInv => CloseTriesAll
  BY DEF DInv, CloseProgress
<1> QED
  BY <1>1, DeadLetterInvariance, PTL

-----------------------------------------------------------------------------
(* An upload may only replace an object by one made from more. *)
LEMMA FlushOverwrites ==
  ASSUME DInv, NEW k \in DOMAIN queue, NEW ok \in BOOLEAN, flush(k, ok),
         NEW o \in DOMAIN s3
  PROVE  Prefix(s3[o].buffer, s3'[o].buffer)
<1>1. s3[o].buffer \in Seq(Nat)
  BY DEF DInv, Uploaded
<1>2. o \in DOMAIN s3'
  BY FlushEffect
<1>3. CASE s3'[o].buffer = s3[o].buffer
  BY <1>1, <1>3, PrefixFacts
<1>4. CASE o = Append(k, clock) /\ s3'[o].buffer = queue[k]
  <2>1. PICK l \in DOMAIN queue, c \in Nat :
          o = Append(l, c) /\ Prefix(s3[o].buffer, queue[l])
    BY DEF DInv, Uploaded
  <2>2. /\ k \in Seq(Keys \cup Nat) /\ l \in Seq(Keys \cup Nat)
        /\ clock \in Keys \cup Nat /\ c \in Keys \cup Nat
    BY DEF DInv, Entries, Control
  <2>3. Append(k, clock) = Append(l, c)
    BY <1>4, <2>1
  <2>4. k = l
    BY <2>2, <2>3, AppendInjective
  <2> QED
    BY <1>4, <2>1, <2>4
<1> QED
  BY <1>2, <1>3, <1>4, FlushEffect

(* Object names have the second as their last part, so a second upload of  *)
(* a key within a second replaces the first: what it was made from starts  *)
(* with all that the replaced one was made from.                           *)
THEOREM OverwritesKeepData == Spec => OverwriteKeepsData
<1> DEFINE Kept == \A o \in DOMAIN s3 : Prefix(s3[o].buffer, s3'[o].buffer)
<1>1. DInv /\ [Next]_vars => [Kept]_vars
  <2> SUFFICES ASSUME DInv, Next PROVE Kept
    OBVIOUS
  <2>1. ASSUME UNCHANGED s3 PROVE Kept
    <3>1. \A o \in DOMAIN s3 : s3[o].buffer \in Seq(Nat)
      BY DEF DInv, Uploaded
    <3> QED
      BY <2>1, <3>1, PrefixFacts
  <2>2. ASSUME NEW a \in Adders, AddFlush(a) PROVE Kept
    <3>1. <<key[a]>> \in DOMAIN queue
      BY <2>2 DEF DInv, FlushTarget, AddFlush
    <3> QED
      BY <2>2, <3>1, FlushOverwrites DEF AddFlush, SendToS3
  <2>3. ASSUME NEW k \in DOMAIN queue, NEW ok \in SendToS3, FlushKey(k, ok)
        PROVE  Kept
    BY <2>3, FlushOverwrites DEF FlushKey, SendToS3
  <2>4. \/ UNCHANGED s3
        \/ \E a \in Adders : AddFlush(a)
        \/ \E k \in DOMAIN queue, ok \in SendToS3 : FlushKey(k, ok)
    BY DEF Next, AddToQueue, AdderStep, AddLocked, AddUnlock, AddDone,
           TimerFires, StartStep, FlushLocked, FlushUnlock, CloseWait,
           CloseBegin, Shutdown, Tick
  <2> QED
    BY <2>1, <2>2, <2>3, <2>4
<1>2. [Kept]_vars =>
        [\A o \in DOMAIN s3 :
           LET old == s3[o].buffer
               new == s3'[o].buffer
           IN  Len(old) <= Len(new) /\ SubSeq(new, 1, Len(old)) = old]_vars
  BY DEF Prefix
<1> QED
  BY <1>1, <1>2, DeadLetterInvariance, PTL DEF Spec, OverwriteKeepsData

-----------------------------------------------------------------------------
(* The types of the variables, with the count of addingWaitGroup: it is    *)
(* the number of calls between the lock and their last deferred call.      *)
MapTypes ==
  /\ \A k \in DOMAIN queue : /\ Head(k) \in Keys
                             /\ Tail(k) \in Seq(Seconds)
                             /\ queue[k] \in Seq(Data)
  /\ \A o \in DOMAIN s3 : /\ Head(o) \in Keys
                          /\ Tail(o) \in Seq(Seconds)
                          /\ s3[o].body \in Seq(Data)
                          /\ s3[o].buffer \in Seq(Data)

CallTypes ==
  /\ clock \in Seconds
  /\ calls \in 0..MaxCalls
  /\ datum \in [Adders -> 0..MaxCalls]
  /\ \A a \in Adders : apc[a] = "lock" => datum[a] \in Data

RangeTypes ==
  /\ timer \in {"armed", "fired"}
  /\ shutdown \in BOOLEAN
  /\ present \subseteq DOMAIN queue /\ seen \subseteq DOMAIN queue
  /\ accepted \subseteq Keys \X Data

Inside == {a \in Adders : apc[a] \in {"flush", "unlock", "done"}}

Adding == adding = Cardinality(Inside)

(* The name of an object, or of the entry flush clears, is a caller's key  *)
(* and seconds.                                                            *)
LEMMA LongerKeyTypes ==
  ASSUME NEW S, NEW k \in Seq(S), k # <<>>, NEW c \in Seconds,
         Head(k) \in Keys, Tail(k) \in Seq(Seconds)
  PROVE  Head(Append(k, c)) \in Keys /\ Tail(Append(k, c)) \in Seq(Seconds)
<1>1. Len(k) \in Nat /\ Len(k) > 0 /\ k \in Seq(S \cup Seconds)
  OBVIOUS
<1>2. /\ Append(k, c) \in Seq(S \cup Seconds)
      /\ Len(Append(k, c)) = Len(k) + 1
      /\ Append(k, c)[Len(k) + 1] = c
      /\ \A i \in 1..Len(k) : Append(k, c)[i] = k[i]
  BY <1>1
<1>3. Head(Append(k, c)) = Head(k)
  BY <1>1, <1>2
<1>4. Tail(Append(k, c)) = Append(Tail(k), c)
  <2> DEFINE t == Tail(Append(k, c))
             u == Append(Tail(k), c)
  <2>1. /\ t \in Seq(S \cup Seconds) /\ Len(t) = Len(k)
        /\ \A i \in 1..Len(k) : t[i] = Append(k, c)[i + 1]
    BY <1>1, <1>2
  <2>2. /\ Tail(k) \in Seq(S \cup Seconds) /\ Len(Tail(k)) = Len(k) - 1
        /\ \A i \in 1..(Len(k) - 1) : Tail(k)[i] = k[i + 1]
    BY <1>1
  <2>3. /\ u \in Seq(S \cup Seconds) /\ Len(u) = Len(k)
        /\ u[Len(k)] = c
        /\ \A i \in 1..(Len(k) - 1) : u[i] = Tail(k)[i]
    BY <1>1, <2>2
  <2> HIDE DEF t, u
  <2>4. ASSUME NEW i \in 1..Len(k) PROVE t[i] = u[i]
    <3>1. CASE i = Len(k)
      BY <1>1, <1>2, <2>1, <2>3, <3>1
    <3>2. CASE i # Len(k)
      <4>1. i \in 1..(Len(k) - 1) /\ i + 1 \in 1..Len(k)
        BY <1>1, <3>2
      <4> QED
        BY <1>2, <2>1, <2>2, <2>3, <4>1
    <3> QED
      BY <3>1, <3>2
  <2>5. t = u
    BY <2>1, <2>3, <2>4, SeqEqual
  <2> QED
    BY <2>5 DEF t, u
<1> QED
  BY <1>3, <1>4

LEMMA FlushKeepsTypes ==
  ASSUME DInv, MapTypes, CallTypes,
         NEW k \in DOMAIN queue, NEW ok \in BOOLEAN, flush(k, ok)
  PROVE  MapTypes'
<1> DEFINE to == Append(k, clock)
<1>1. Head(to) \in Keys /\ Tail(to) \in Seq(Seconds)
  <2>1. k \in Seq(Keys \cup Nat) /\ k # <<>>
    BY DEF DInv, Entries
  <2>2. /\ Head(k) \in Keys /\ Tail(k) \in Seq(Seconds)
        /\ clock \in Seconds
    BY DEF MapTypes, CallTypes
  <2> QED
    BY <2>1, <2>2, LongerKeyTypes
<1> HIDE DEF to
<1>2. CASE ok
  <2>1. queue' = [x \in DOMAIN queue \cup {to} |->
                    IF x = to THEN <<>> ELSE queue[x]]
    BY <1>2 DEF flush, Cleared, to
  <2>2. s3' = [o \in DOMAIN s3 \cup {to} |->
                 IF o = to THEN [body |-> <<>>, buffer |-> queue[k]] ELSE s3[o]]
    BY <1>2 DEF flush, to
  <2>3. <<>> \in Seq(Data) /\ queue[k] \in Seq(Data)
    BY DEF MapTypes
  <2>4. ASSUME NEW x \in DOMAIN queue'
        PROVE  Head(x) \in Keys /\ Tail(x) \in Seq(Seconds)
               /\ queue'[x] \in Seq(Data)
    BY <1>1, <2>1, <2>3 DEF MapTypes
  <2>5. ASSUME NEW o \in DOMAIN s3'
        PROVE  /\ Head(o) \in Keys /\ Tail(o) \in Seq(Seconds)
               /\ s3'[o].body \in Seq(Data) /\ s3'[o].buffer \in Seq(Data)
    <3>1. CASE o = to
      BY <1>1, <2>2, <2>3, <3>1
    <3>2. CASE o # to
      BY <2>2, <3>2 DEF MapTypes
    <3> QED
      BY <3>1, <3>2
  <2> QED
    BY <2>4, <2>5 DEF MapTypes
<1>3. CASE ~ok
  BY <1>3 DEF flush, Cleared, MapTypes
<1> QED
  BY <1>2, <1>3

LEMMA AddLockedTypes ==
  ASSUME DInv, MapTypes, CallTypes, RangeTypes, NEW a \in Adders, AddLocked(a)
  PROVE  MapTypes' /\ RangeTypes'
<1> DEFINE k   == <<key[a]>>
           new == Append(Contents(k), datum[a])
<1>1. key[a] \in Keys /\ datum[a] \in Data
  BY DEF DInv, Control, CallTypes, AddLocked
<1>2. Head(k) \in Keys /\ Tail(k) \in Seq(Seconds)
  BY <1>1
<1>3. Contents(k) \in Seq(Data)
  BY DEF Contents, MapTypes
<1>4. new \in Seq(Data)
  BY <1>1, <1>3
<1>5. /\ queue' = [x \in DOMAIN queue \cup {k} |->
                     IF x = k THEN new ELSE queue[x]]
      /\ accepted' = accepted \cup {<<key[a], datum[a]>>}
      /\ UNCHANGED <<s3, timer, shutdown, present, seen>>
  BY DEF AddLocked, ranging
<1> HIDE DEF k, new
<1>6. MapTypes'
  BY <1>2, <1>4, <1>5 DEF MapTypes
<1>7. RangeTypes'
  BY <1>1, <1>5 DEF RangeTypes
<1> QED
  BY <1>6, <1>7

(* The calls, and who is between the lock and its last deferred call. *)
LEMMA AddingStep ==
  ASSUME DInv, Adding, [Next]_vars
  PROVE  Adding'
<1> USE DEF DInv, Control
<1>1. IsFiniteSet(Inside)
  BY QueueAssumption, FS_Subset DEF Inside
<1>2. CASE UNCHANGED <<adding, Inside>>
  BY <1>2 DEF Adding
<1>3. ASSUME NEW a \in Adders, AddLocked(a) PROVE Adding'
  <2>1. a \notin Inside /\ Inside' = Inside \cup {a} /\ adding' = adding + 1
    BY <1>3 DEF AddLocked, Inside
  <2> QED
    BY <1>1, <2>1, FS_AddElement DEF Adding
<1>4. ASSUME NEW a \in Adders, AddDone(a) PROVE Adding'
  <2>1. a \in Inside /\ Inside' = Inside \ {a} /\ adding' = adding - 1
    BY <1>4 DEF AddDone, Done, Inside
  <2> QED
    BY <1>1, <2>1, FS_RemoveElement DEF Adding
<1>5. ASSUME NEW a \in Adders, NEW k \in Keys, AddToQueue(a, k)
      PROVE  UNCHANGED <<adding, Inside>>
  BY <1>5 DEF AddToQueue, Inside
<1>6. ASSUME NEW a \in Adders, AddFlush(a) \/ AddUnlock(a)
      PROVE  UNCHANGED <<adding, Inside>>
  BY <1>6 DEF AddFlush, AddUnlock, Unlock, Inside
<1>7. CASE UNCHANGED vars \/ TimerFires \/ CloseBegin \/ Shutdown \/ Tick
           \/ StartStep
  <2>1. UNCHANGED <<adding, apc>>
    BY <1>7 DEF vars, adder, TimerFires, CloseBegin, Shutdown, Tick, StartStep,
       FlushLocked, FlushKey, FlushUnlock, CloseWait
  <2> QED
    BY <1>2, <2>1 DEF Inside
<1> QED
  BY <1>2, <1>3, <1>4, <1>5, <1>6, <1>7 DEF Next, AdderStep

TInv == MapTypes /\ CallTypes /\ RangeTypes /\ Adding

LEMMA TInvInit == Init => TInv
<1> SUFFICES ASSUME Init PROVE TInv
  OBVIOUS
<1>1. MapTypes /\ RangeTypes
  BY DEF Init, MapTypes, RangeTypes
<1>2. CallTypes
  BY QueueAssumption DEF Init, CallTypes, Seconds
<1>3. Inside = {} /\ adding = 0
  BY DEF Init, Inside
<1>4. Adding
  BY <1>3, FS_EmptySet DEF Adding
<1> QED
  BY <1>1, <1>2, <1>4 DEF TInv

LEMMA TInvStep == DInv /\ TInv /\ [Next]_vars => TInv'
<1> SUFFICES ASSUME DInv, TInv, [Next]_vars PROVE TInv'
  OBVIOUS
<1> USE DEF adder, ranging, history
<1>0. Adding'
  BY AddingStep DEF TInv
<1>1. ASSUME NEW a \in Adders, NEW k \in Keys, AddToQueue(a, k) PROVE TInv'
  <2>1. MapTypes' /\ RangeTypes'
    BY <1>1 DEF AddToQueue, TInv, MapTypes, RangeTypes
  <2>2. CASE UNCHANGED <<apc, key, datum>>
    <3>1. calls' \in 0..MaxCalls
      BY <1>1, QueueAssumption DEF AddToQueue, TInv, CallTypes
    <3>2. CallTypes'
      BY <1>1, <2>2, <3>1 DEF AddToQueue, TInv, CallTypes
    <3> QED
      BY <1>0, <2>1, <3>2 DEF TInv
  <2>3. CASE /\ apc' = [apc EXCEPT ![a] = "lock"]
             /\ datum' = [datum EXCEPT ![a] = calls + 1]
    <3>1. calls' \in 0..MaxCalls /\ calls + 1 \in Data
          /\ calls + 1 \in 0..MaxCalls
      BY <1>1, QueueAssumption DEF AddToQueue, TInv, CallTypes, Data
    <3>2. CallTypes'
      BY <1>1, <2>3, <3>1 DEF AddToQueue, TInv, CallTypes, DInv, Control
    <3> QED
      BY <1>0, <2>1, <3>2 DEF TInv
  <2> QED
    BY <1>1, <2>2, <2>3 DEF AddToQueue
<1>2. ASSUME NEW a \in Adders, AddLocked(a) PROVE TInv'
  <2>1. CallTypes'
    BY <1>2 DEF AddLocked, TInv, CallTypes, DInv, Control
  <2> QED
    BY <1>0, <1>2, <2>1, AddLockedTypes DEF TInv
<1>3. ASSUME NEW a \in Adders, AddFlush(a) PROVE TInv'
  <2>1. PICK ok \in BOOLEAN : flush(<<key[a]>>, ok)
    BY <1>3 DEF AddFlush, SendToS3
  <2>2. <<key[a]>> \in DOMAIN queue
    BY <1>3 DEF DInv, FlushTarget, AddFlush
  <2>3. MapTypes' /\ DOMAIN queue \subseteq DOMAIN queue'
    BY <2>1, <2>2, FlushKeepsTypes, FlushEffect DEF TInv
  <2>4. RangeTypes'
    BY <1>3, <2>3 DEF AddFlush, TInv, RangeTypes
  <2>5. CallTypes'
    BY <1>3 DEF AddFlush, TInv, CallTypes, DInv, Control
  <2> QED
    BY <1>0, <2>3, <2>4, <2>5 DEF TInv
<1>4. ASSUME NEW k \in DOMAIN queue, NEW ok \in SendToS3, FlushKey(k, ok)
      PROVE  TInv'
  <2>1. ok \in BOOLEAN /\ flush(k, ok)
    BY <1>4 DEF FlushKey, SendToS3
  <2>2. MapTypes' /\ DOMAIN queue \subseteq DOMAIN queue'
    BY <2>1, FlushKeepsTypes, FlushEffect DEF TInv
  <2>3. RangeTypes'
    BY <1>4, <2>2 DEF FlushKey, TInv, RangeTypes
  <2>4. CallTypes'
    BY <1>4 DEF FlushKey, TInv, CallTypes
  <2> QED
    BY <1>0, <2>2, <2>3, <2>4 DEF TInv
<1>5. ASSUME NEW a \in Adders, AddUnlock(a) \/ AddDone(a) PROVE TInv'
  <2>1. MapTypes' /\ RangeTypes'
    BY <1>5 DEF AddUnlock, AddDone, TInv, MapTypes, RangeTypes
  <2>2. CallTypes'
    BY <1>5 DEF AddUnlock, AddDone, TInv, CallTypes, DInv, Control
  <2> QED
    BY <1>0, <2>1, <2>2 DEF TInv
<1>6. CASE Tick
  <2>1. MapTypes' /\ RangeTypes'
    BY <1>6 DEF Tick, TInv, MapTypes, RangeTypes
  <2>2. clock' \in Seconds
    BY <1>6, QueueAssumption DEF Tick, TInv, CallTypes, Seconds
  <2>3. CallTypes'
    BY <1>6, <2>2 DEF Tick, TInv, CallTypes
  <2> QED
    BY <1>0, <2>1, <2>3 DEF TInv
<1>7. CASE \/ TimerFires \/ FlushLocked \/ FlushUnlock \/ CloseBegin
           \/ CloseWait \/ Shutdown \/ UNCHANGED vars
  <2>1. UNCHANGED <<queue, s3, clock, calls, datum, apc, accepted>>
    BY <1>7 DEF TimerFires, FlushLocked, FlushUnlock, CloseBegin, CloseWait,
       Shutdown, vars
  <2>2. MapTypes' /\ CallTypes'
    BY <2>1 DEF TInv, MapTypes, CallTypes
  <2>3. RangeTypes'
    BY <1>7 DEF TInv, RangeTypes, TimerFires, FlushLocked, FlushUnlock,
       CloseBegin, CloseWait, Shutdown, vars
  <2> QED
    BY <1>0, <2>2, <2>3 DEF TInv
<1> QED
  BY <1>1, <1>2, <1>3, <1>4, <1>5, <1>6, <1>7 DEF Next, AdderStep, StartStep

(* The variables of the queue keep their types: the keys of the map and    *)
(* the names of the objects are a caller's key and seconds, and the        *)
(* counter of addingWaitGroup is never negative.                           *)
THEOREM TypeCorrect == Spec => []TypeOK
<1>1. DInv /\ TInv => TypeOK
  <2> SUFFICES ASSUME DInv, TInv PROVE TypeOK
    OBVIOUS
  <2>1. /\ IsFiniteSet(Adders) /\ Inside \subseteq Adders
        /\ adding = Cardinality(Inside)
    BY QueueAssumption DEF TInv, Adding, Inside
  <2>2. adding \in 0..Cardinality(Adders)
    BY <2>1, FS_Subset, FS_CardinalityType
  <2> QED
    BY <2>2 DEF TypeOK, DInv, Control, CloseProgress, TInv, MapTypes,
       CallTypes, RangeTypes
<1>2. Spec => []TInv
  BY TInvInit, TInvStep, DeadLetterInvariance, PTL DEF Spec
<1> QED
  BY <1>1, <1>2, DeadLetterInvariance, PTL

=============================================================================
