--------------------------- MODULE MCCallSession ---------------------------
(* Small instances of CallSession for TLC.                                 *)
EXTENDS CallHangup, TLC

\* Requests of one process, so calls and devices are interchangeable.
CallSymmetry == Permutations(Calls) \cup Permutations(Devices)
RaceSymmetry == Permutations(Devices) \cup Permutations(Procs)
=============================================================================
