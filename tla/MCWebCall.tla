----------------------------- MODULE MCWebCall -----------------------------
(* Small instances of WebCall for TLC.                                     *)
EXTENDS WebCall, TLC

CONSTANTS A, B

OneCall == 1 :> A
=============================================================================
