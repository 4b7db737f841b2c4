------------------------------ MODULE MCThread ------------------------------
(* A small instance of Thread for TLC.                                     *)
EXTENDS Thread, TLC

CONSTANTS A, B

Homes == 1 :> A @@ 2 :> A @@ 3 :> B
=============================================================================
