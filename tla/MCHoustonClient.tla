--------------------------- MODULE MCHoustonClient ---------------------------
(* HoustonClient for TLC, with two answers of Houston: between them a name *)
(* comes again in the same source and in another one, with and without a   *)
(* topic, enabled and not.                                                 *)
EXTENDS HoustonClient

Entry(n, t, e) == [name |-> n, topic |-> t, enabled |-> e]

AllEntries ==
  [name : {"n1", "n2"}, topic : {"", "t1", "t2"}, enabled : BOOLEAN]

TwoAnswers ==
  {<< <<Entry("n1", "", TRUE), Entry("n1", "t1", TRUE)>>,
      <<Entry("n1", "t2", TRUE), Entry("n2", "t2", FALSE)>> >>,
   << <<Entry("n1", "t1", FALSE)>>, <<Entry("n1", "", TRUE)>> >>}
==============================================================================
