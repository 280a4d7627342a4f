--------------------------- MODULE MCEntityDelivery ---------------------------
(* Instances of EntityDelivery: entity "a" is observed three times, the second *)
(* time with one new column and the third with two, and "b" once in between.  *)
EXTENDS EntityDelivery

MCKey == <<"a", "b", "a", "a">>
MCFields == <<{"x"}, {"x", "y"}, {"x", "y"}, {"x", "y", "z"}>>
MCKeyPair == <<"a", "a", "b">>
MCFieldsPair == <<{"x"}, {"x", "y"}, {"y", "z"}>>
=============================================================================
