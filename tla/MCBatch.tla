------------------------------ MODULE MCBatch ------------------------------
(* Small instances of Batch: three files, two users at different SSPs. *)
EXTENDS Batch, TLC

CONSTANTS u1, u2, f1, f2, f3

Sizes == f1 :> 2 @@ f2 :> 1 @@ f3 :> 1
Homes == [u \in Users |-> IF u = u1 THEN 1 ELSE 2]
\* u1 asks for two files of its own; u2 for two, the first of which is not
\* its own, so that its client asks for a list that is under another key, and does not stop.
TwoEach == u1 :> {<<f1, f2>>} @@ u2 :> {<<f3, f2>>}
Foreign == [u \in Users |-> IF u = u1 THEN {} ELSE {f3}]
=============================================================================
