----------------------------- MODULE CallHangup -----------------------------
(***************************************************************************)
(* What hanging up a call leaves behind when other requests for the call   *)
(* are served at the same time.  end_call writes the row, the participants *)
(* and the room in commits of their own (VostokServer.Calls.Commands), and *)
(* a request that was admitted before them may act after them.             *)
(*                                                                         *)
(* The variable overlap belongs to no code: it records the requests that a *)
(* hang-up has run beside, and only the property below reads it.           *)
(***************************************************************************)
EXTENDS CallSession

VARIABLE overlap   \* what requests beside a hang-up of a call may still do to it

hangupVars == <<vars, overlap>>

\* The steps of end_call.
Ending == {"end_count", "end_write", "end_rows", "end_room"}

\* What an admitted request may still do: bring the call back, boot its room,
\* write a device's row, take a device into the room.
Revival == <<"revive", NoDevice>>
Boot    == <<"boot", NoDevice>>
Risks   == {Revival, Boot} \cup ({"row", "room"} \X Devices)

Boots(r) ==
    \/ r.at \in {"accept_write", "accept_room", "join_room", "provision_room"}
    \/ r.at = "ensure_room" /\ r.seen = "active"
Joins(r)  == r.at \in {"join_room", "join_row", "join_upsert"}
Enters(r) == Joins(r) \/ r.at \in {"join_endpoint", "join_member",
                                   "provision_room", "provision_endpoint"}

Risk(r) == {x \in Risks : \/ x = Revival /\ r.at = "accept_write"
                          \/ x = Boot /\ Boots(r)
                          \/ x = <<"row", r.dev>> /\ Joins(r)
                          \/ x = <<"room", r.dev>> /\ Enters(r)}

\* What the requests that run beside a hang-up of the call may still do.
HangsUp(p, c) == req[p].call = c /\ req[p].at \in Ending
Overlapping(c) ==
    UNION {Risk(req[q]) : q \in {q \in Procs : /\ req[q].call = c
                                               /\ \E p \in Procs \ {q} : HangsUp(p, c)}}

\* To a call that an accept brings back, anything may happen again.
Recorded(before, now) ==
    IF Revival \in before \cup now THEN Risks ELSE before \cup now

HangupInit == Init /\ overlap = [c \in Calls |-> {}]
HangupNext ==
    Next /\ overlap' = [c \in Calls |-> Recorded(overlap[c], Overlapping(c)')]

HangupSpec     == HangupInit /\ [][HangupNext]_hangupVars
HangupFairSpec == HangupSpec /\ Fairness

-----------------------------------------------------------------------------
\* Once end_call has run to its last step the call is over for good, but for what
\* requests that were admitted before and ran beside it have done: unless an accept
\* among them brings it back it stays ended, only devices that were joining have a
\* joined row, its room is up only if one of them boots it, and only devices that
\* were on their way in are in it.
HungUp(c) == timeline[c] \cap {"completed", "missed"} # {}
HangupTearsDown ==
    \A c \in Calls : HungUp(c) =>
        /\ Revival \notin overlap[c] => status[c] = "ended"
        /\ \A d \in Joined(c) : <<"row", d>> \in overlap[c]
        /\ room[c].up => Boot \in overlap[c]
        /\ \A d \in room[c].members \cup room[c].endpoints : <<"room", d>> \in overlap[c]
-----------------------------------------------------------------------------
(* What is added to IInv for it to be inductive.                           *)

\* What may bring a call back may do anything to it.
OverlapOK ==
    /\ overlap \in [Calls -> SUBSET Risks]
    /\ \A c \in Calls : Revival \in overlap[c] => overlap[c] = Risks

\* What the requests beside a hang-up may do is on record, and so is, when it is done,
\* what any request may still do.
OverlapsRecorded ==
    \A c \in Calls, q \in Procs :
        /\ req[q].call = c
        /\ HungUp(c) \/ \E p \in Procs \ {q} : HangsUp(p, c)
        => Risk(req[q]) \subseteq overlap[c]

\* A hang-up that read the call as ended, which leaves the status out of its write, or
\* is past its write, finds the call ended; past its second commit, nobody joined.
EndsInOrder ==
    \A c \in Calls, p \in Procs : HangsUp(p, c) =>
        /\ req[p].seen = "ended" \/ At(p, "end_rows") \/ At(p, "end_room")
              => Revival \in overlap[c] \/ status[c] = "ended"
        /\ At(p, "end_room") => \A d \in Joined(c) : <<"row", d>> \in overlap[c]

HangupInv == OverlapOK /\ OverlapsRecorded /\ EndsInOrder /\ HangupTearsDown
=============================================================================
