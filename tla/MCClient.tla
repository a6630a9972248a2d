------------------------------ MODULE MCClient ------------------------------
(* Two threads of one client; a file of two blocks and one of one block. *)
EXTENDS Client, TLC

CONSTANTS f1, f2, u1, u2

TwoAndOne == f1 :> 2 @@ f2 :> 1
=============================================================================
