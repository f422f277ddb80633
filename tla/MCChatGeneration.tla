-------------------------- MODULE MCChatGeneration --------------------------
(* Instances of ChatGeneration; the .cfg files say which parts of the chat  *)
(* each of them explores.                                                   *)
EXTENDS ChatGeneration, TLC

CONSTANTS a1, a2, a3, q1, q2, w1, w2, th1, th2, k1, k2, k3

OneRequest == {a1}
TwoRequests == {a1, a2}
ThreeRequests == {a1, a2, a3}
OneSlot == {q1}
TwoSlots == {q1, q2}
OneRun == {w1}
TwoRuns == {w1, w2}
OneThread == {th1}
TwoThreads == {th1, th2}
TwoKeys == {k1, k2}
ThreeKeys == {k1, k2, k3}

OneRoute == {"canonical_planning"}

Symmetry == Permutations(Requests) \cup Permutations(Slots) \cup Permutations(Tokens)
              \cup Permutations(Threads) \cup Permutations(Keys)
=============================================================================
