------------------------------- MODULE MCServer -------------------------------
(***************************************************************************)
(* Instances of MBServer.                                                  *)
(***************************************************************************)
EXTENDS MBServerProps

TwoCustoms == <<{8}, {7, 8}>>
SomeCodes  == {8, 9}
TwoBufs    == {0, 1}
ZeroOrOne  == {0, 1}
SomeEnvs   == {[fs |-> f, call |-> TRUE, shared |-> f] : f \in BOOLEAN}
              \cup {[fs |-> TRUE, call |-> FALSE, shared |-> TRUE]}
===============================================================================
