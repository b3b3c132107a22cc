--------------------------- MODULE MCCoordinator ----------------------------
(* Small instances of Coordinator for TLC.                              *)
EXTENDS Coordinator, TLC

CONSTANTS t1, t2, t3, i1, i2, i3, r1, w1, w2

\* t1 names a worker, t2 names none, t3 is regional.
OneWorker == (t1 :> <<w1>>) @@ (t2 :> <<>>) @@ (t3 :> <<>>)
MCRegionOf == (t1 :> "none") @@ (t2 :> "none") @@ (t3 :> r1)

DistinctIDOf == (t1 :> i1) @@ (t2 :> i2) @@ (t3 :> i3)
SharedIDOf == (t1 :> i1) @@ (t2 :> i1) @@ (t3 :> i2)
=============================================================================
