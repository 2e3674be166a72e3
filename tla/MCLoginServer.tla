--------------------------- MODULE MCLoginServer ----------------------------
(* An instance of LoginServer that runs out of descriptors, since four      *)
(* clients come, and before that of processes.                              *)
EXTENDS LoginServer

CONSTANTS c1, c2, c3, c4

MCFour == {c1, c2, c3, c4}
MCSites == {[users |-> "some", prime |-> "good"],
            [users |-> "empty", prime |-> "bad"],
            [users |-> "missing", prime |-> "missing"]}
=============================================================================
