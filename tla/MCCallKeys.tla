----------------------------- MODULE MCCallKeys -----------------------------
(* A small instance of CallKeys for TLC.                                   *)
EXTENDS CallKeys, TLC

CONSTANTS D1, D2, D3
=============================================================================
