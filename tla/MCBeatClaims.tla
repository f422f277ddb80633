----------------------------- MODULE MCBeatClaims -----------------------------
(* Instances of BeatClaims. *)
EXTENDS BeatClaims

CONSTANTS w1, w2, r1, r2, e1

TwoWorkers == {w1, w2}
TwoActivities == {r1, r2}
OneEvent == {e1}

OneEpisode == {1}
Start == <<0>>
End == <<2>>
=============================================================================
