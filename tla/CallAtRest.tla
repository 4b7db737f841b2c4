----------------------------- MODULE CallAtRest -----------------------------
(* What a call's end leaves to the next call: the part of CallQuality that *)
(* its promise speaks of, and what theorems beside WebCall's share with it.*)
EXTENDS Naturals

VARIABLES
    active,     \* an active call is shown
    conn,       \* membraneClientConnected
    profile     \* callQualityProfileRef

High == 3       \* the best profile, the one a call starts with

\* Without a call the quality is as it was at first, and it changes only with
\* a connection: what a poll of an earlier call or client has decided while it
\* waited is not taken over (useCall.ts pollQuality, resetTransportState).
FreshWithoutCall == ~active => profile = High /\ conn = FALSE
=============================================================================
