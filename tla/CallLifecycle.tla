--------------------------- MODULE CallLifecycle ---------------------------
(***************************************************************************)
(* What the calls API promises about the life of a call: it rings once,    *)
(* may be active, ends, and when it is closed nothing can reopen it.       *)
(* "ended" is an ended call that an accept admitted earlier may still turn *)
(* active; it is closed when no such accept is left.                       *)
(***************************************************************************)
CONSTANT Calls

VARIABLE phase

Phases == {"absent", "ringing", "active", "ended", "closed"}

Moves ==
    {<<"absent", "ringing">>,
     <<"ringing", "active">>, <<"ringing", "ended">>, <<"ringing", "closed">>,
     <<"active", "ended">>, <<"active", "closed">>,
     <<"ended", "active">>, <<"ended", "closed">>}

Init == phase = [c \in Calls |-> "absent"]

\* One update may end several calls; the others stay where they are.
Next ==
    /\ phase' \in [Calls -> Phases]
    /\ \A c \in Calls : phase'[c] = phase[c] \/ <<phase[c], phase'[c]>> \in Moves

Spec == Init /\ [][Next]_phase
=============================================================================
