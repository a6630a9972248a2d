----------------------------- MODULE MCAccounts -----------------------------
(* Two clients; one of them serves two requests of its page at a time. *)
EXTENDS Accounts, TLC

CONSTANTS c1, c2, a1, a2, b1

TwoAndOne == a1 :> c1 @@ a2 :> c1 @@ b1 :> c2
=============================================================================
