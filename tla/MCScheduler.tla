---------------------------- MODULE MCScheduler ----------------------------
(* Instances of Scheduler. *)
EXTENDS Scheduler, TLC

CONSTANTS s1, s2, s3

OneRunner == {s1}
TwoRunners == {s1, s2}
ThreeRunners == {s1, s2, s3}

NoFaults == [calls |-> 0, cancels |-> 0, crashes |-> 0, backs |-> 0]
OneCancel == [NoFaults EXCEPT !.cancels = 1]
CallAndCrash == [NoFaults EXCEPT !.calls = 1, !.crashes = 1]
CancelAndBack == [NoFaults EXCEPT !.cancels = 1, !.backs = 1]

Symmetry == Permutations(Runners)
=============================================================================
