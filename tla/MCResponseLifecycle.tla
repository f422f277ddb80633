------------------------ MODULE MCResponseLifecycle ------------------------
(* An instance of ResponseLifecycle: two attempts at one slot, with leases *)
(* of two holders that are renewed, run out, are taken back or given up.    *)
EXTENDS ResponseLifecycle, TLC

CONSTANTS r1, r2, s1, t1, t2

TwoRequests == {r1, r2}
OneSlot == {s1}
TwoTokens == {t1, t2}

Deadline2 == {2}
Lease12 == {1, 2}

SomeStates == {"lease_acquired", "committing"}

Symmetry == Permutations(Requests) \cup Permutations(Slots)
              \cup Permutations(Tokens)
=============================================================================
