---------------------------- MODULE AbstractCache ----------------------------
(***************************************************************************)
(* What the integration cache promises, without locks, maps or control     *)
(* points.  Goroutines ask Houston about an app and keep the answer until  *)
(* they store it in the one cache that readers see, each answer at most    *)
(* once.  The cache expires at most once, as a whole.  So an entry is      *)
(* always an answer Houston gave to a question asked earlier; nothing says *)
(* that it is the latest one.                                              *)
(***************************************************************************)
EXTENDS Naturals

CONSTANTS
  Apps, Goroutines,
  CanExpire,       \* the cache has a time to live
  MaxVersion,      \* bound: how often Houston changes one app
  Nil              \* no entry, no answer

VARIABLES
  houston,         \* the current version of every app
  answer,          \* per goroutine: <<app, version>> it has yet to store
  cache,           \* per app: the version readers see, or Nil
  expired

vars == <<houston, answer, cache, expired>>

Empty == [a \in Apps |-> Nil]

Init ==
  /\ houston = [a \in Apps |-> 0]
  /\ answer = [g \in Goroutines |-> Nil]
  /\ cache = Empty
  /\ expired = FALSE

Change(a) ==
  /\ houston[a] < MaxVersion
  /\ houston' = [houston EXCEPT ![a] = @ + 1]
  /\ UNCHANGED <<answer, cache, expired>>

Ask(g, a) ==
  /\ answer[g] = Nil
  /\ answer' = [answer EXCEPT ![g] = <<a, houston[a]>>]
  /\ UNCHANGED <<houston, cache, expired>>

Store(g, a, v) ==
  /\ answer[g] = <<a, v>>
  /\ answer' = [answer EXCEPT ![g] = Nil]
  /\ cache' = [cache EXCEPT ![a] = v]
  /\ UNCHANGED <<houston, expired>>

(* An answer can also be lost, but only once the cache has expired: it was *)
(* meant for the cache of before.                                          *)
Lose(g) ==
  /\ expired
  /\ answer' = [answer EXCEPT ![g] = Nil]
  /\ UNCHANGED <<houston, cache, expired>>

Expire ==
  /\ CanExpire /\ ~expired
  /\ expired' = TRUE
  /\ cache' = Empty
  /\ UNCHANGED <<houston, answer>>

Next ==
  \/ \E a \in Apps : Change(a)
  \/ \E g \in Goroutines, a \in Apps : Ask(g, a)
  \/ \E g \in Goroutines, a \in Apps, v \in 0..MaxVersion : Store(g, a, v)
  \/ \E g \in Goroutines : Lose(g)
  \/ Expire

Spec == Init /\ [][Next]_vars
=============================================================================
