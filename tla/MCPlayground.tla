---------------------------- MODULE MCPlayground ----------------------------
(* Instances of Playground for TLC: the requests are interchangeable.      *)
(* The screen of the public page is most of the states: one request comes  *)
(* to it, with faults at any time; three come to the sandbox, whose list   *)
(* stays empty, with faults until the second one is there.                 *)
EXTENDS Playground, TLC

PageCalls   == [public |-> 1, sandbox |-> 3]
PageTrouble == [public |-> 1, sandbox |-> 1]

\* For the runs that look for one behaviour.
AnyCalls    == [public |-> 2, sandbox |-> 2]

Symmetry == Permutations(Requests)
=============================================================================
