------------------------------ MODULE MCDedup ------------------------------
(* Small instances of Dedup: two files of two blocks that share the block b. *)
EXTENDS Dedup, TLC

CONSTANTS c1, c2, f1, f2, a, b, d

\* f1 and f2 share b; each also has a block of its own.
SharedBlock == f1 :> <<a, b>> @@ f2 :> <<b, d>>
OneFile == f1 :> <<a, b>>
\* One client with one file; two with the same; one with f1 and one with both.
Only == c1 :> {f1}
Same == c1 :> {f1} @@ c2 :> {f1}
Mixed == c1 :> {f1} @@ c2 :> {f1, f2}

\* Under this constraint the steps of Spec are those of TurnsSpec, each counted by its own name.
InTurns == TakeTurns'
=============================================================================
