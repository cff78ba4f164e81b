------------------------ MODULE MCClickstreamProducer ------------------------
(* ClickstreamProducer for TLC: two or three integrations with one topic   *)
(* each, messages that opt out of one, into one, or say nothing.           *)
EXTENDS ClickstreamProducer, TLC

CONSTANTS n1, n2, n3, t1, t2, t3, m1, m2

TopicOf == n1 :> t1 @@ n2 :> t2 @@ n3 :> t3

(* No integration, one, and all of Names. *)
MCAnswers == {[n \in S |-> TopicOf[n]] : S \in {{}, {n1}, Names}}

(* m1 opts out of n1; m2 opts into n1. *)
MCChoices == [m \in Messages |-> IF m = m1 THEN n1 :> FALSE ELSE n1 :> TRUE]

(* All messages opt out of n1 and say nothing about the others, and so may *)
(* be exchanged with each other.                                           *)
SameChoices == [m \in Messages |-> n1 :> FALSE]
Symmetry    == Permutations(Messages)

(* Bound: at most one of the messages goes to more than one integration.   *)
OneLoop ==
  Cardinality({m \in Messages : Cardinality(DOMAIN integrations[m]) > 1}) <= 1

(* A process that is gone takes no step: its states count as one. *)
SafetyView == IF Running THEN vars ELSE <<proc, shutdown, destroyed>>
=============================================================================
