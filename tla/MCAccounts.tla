----------------------------- MODULE MCAccounts -----------------------------
(* A small instance of Accounts for TLC: the page's own server and another. *)
EXTENDS Accounts, TLC
=============================================================================
