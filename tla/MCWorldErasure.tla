--------------------------- MODULE MCWorldErasure ---------------------------
(* Small instances of the erasure of a world, for TLC. *)
EXTENDS WorldErasure, TLC

CONSTANTS w1, w2

OneWorker == {w1}
TwoWorkers == {w1, w2}

(* A character in the graph; a run with a checkpoint and a received file,  *)
(* which points to it; a memory, which points to the run.                  *)
ThreeRows == 1..3
Chain == {<<2, 1>>, <<3, 2>>}
Stores == (1 :> "graph") @@ (2 :> "checkpoint") @@ (3 :> "index")

(* A published beat and its post: posts.activity_beat_id and               *)
(* activity_beats.source_post_id, both nullable.                           *)
TwoRows == {1, 2}
Circle == {<<1, 2>>, <<2, 1>>}
NoStores == (1 :> "none") @@ (2 :> "graph")
=============================================================================
