------------------------------ MODULE MCAudit ------------------------------
(* Small instances of Audit. *)
EXTENDS Audit, TLC

CONSTANTS u1, u2, f1, f2

\* One file of two blocks; two files of two and one.
OneOfTwo == f1 :> 2
TwoFiles == f1 :> 2 @@ f2 :> 1
\* One user with one file; two users with the same file, or one each.
Alone == u1 :> {f1}
Same == u1 :> {f1} @@ u2 :> {f1}
Apart == u1 :> {f1} @@ u2 :> {f2}
=============================================================================
