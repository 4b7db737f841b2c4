---------------------------- MODULE CallSession ----------------------------
(***************************************************************************)
(* The call lifecycle of the server: VostokServer.Calls.Commands with the  *)
(* ring timer (Notifier), the room processes (RoomSupervisor and           *)
(* MembraneRoom) and the hourly StaleCallCleanupWorker.                    *)
(*                                                                         *)
(* All calls of the model belong to one scope (one chat or one call room). *)
(* A request is a process that reads rows into structs and writes them     *)
(* back later: nothing in the code locks a row, so every other process may *)
(* run between the read and the write.  Ecto's changeset writes a field    *)
(* only when the new value differs from the one in the struct, which       *)
(* Written models: an update computed from a stale struct can be lost.     *)
(*                                                                         *)
(* Callers are members of the scope (Access.ensure_call_access): a refused *)
(* request changes nothing and is left out.                                *)
(***************************************************************************)
EXTENDS Naturals, FiniteSets

CONSTANTS
    Calls,      \* ids call rows may get
    Devices,    \* devices of the scope's members
    Procs,      \* request processes of the web server
    NoCall, NoDevice,
    Ops,        \* the operations clients invoke (a subset of Operations)
    Background, \* what runs beside the requests (a subset of Activities)
    MaxFaults   \* bound: server restarts and cleanup failures in a behaviour

Operations ==
    {"start", "accept", "decline", "join", "leave", "end", "look", "provision"}

\* The ring timer always runs: start_call starts it.
Activities == {"cleanup", "crash"}

ASSUME NoCallAssumption == NoCall \notin Calls
ASSUME NoDeviceAssumption == NoDevice \notin Devices
ASSUME OpsAssumption == Ops \subseteq Operations
ASSUME BackgroundAssumption == Background \subseteq Activities
ASSUME MaxFaultsAssumption == MaxFaults \in Nat

VARIABLES
    status,    \* call_sessions.status, "absent" before the row is inserted
    reason,    \* call_sessions.end_reason; ended_at is set with it
    starter,   \* call_sessions.started_by_device_id
    age,       \* how long ago started_at is, see AgeCall
    rows,      \* call_participants.status of a (call, device)
    old,       \* devices whose row's joined_at is over two hours ago
    room,      \* the room process of a call, with its in-memory state
    timer,     \* the unlinked ring-timeout task of a call
    timeline,  \* kinds of system message the call has written to the chat
    req,       \* the request each process serves
    cleaner,   \* the running StaleCallCleanupWorker job
    faults     \* faults so far

callRow == <<status, reason, starter, age>>
vars == <<status, reason, starter, age, rows, old, room, timer, timeline,
          req, cleaner, faults>>

\* Mutant: ensure_active lets an ended call through.
LiveOrEnded == {"ringing", "active", "ended"}
Statuses == {"absent", "ringing", "active", "ended"}
Live     == {"ringing", "active"}
Reasons  == {"none", "declined", "missed", "cancelled", "normal"}
RowState == {"none", "joined", "left"}
Notes    == {"started", "declined", "unanswered", "completed", "missed"}

\* Where a request is in its handler; device steps act for the caller's device.
CallSteps   == {"ensure_room", "accept_write", "accept_room", "decline_write",
                "end_count", "end_write", "end_rows", "end_room"}
DeviceSteps == {"join_room", "join_row", "join_upsert", "join_endpoint", "join_member",
                "provision_room", "provision_endpoint",
                "leave_row", "leave_write", "leave_endpoint", "leave_member"}
Steps == {"idle", "insert"} \cup CallSteps \cup DeviceSteps

\* seen, why and row are what the request has read and holds in its structs.
Request ==
    {r \in [at    : Steps,
            call  : Calls \cup {NoCall},
            dev   : Devices \cup {NoDevice},
            seen  : Statuses,
            why   : Reasons,
            row   : RowState,
            heard : BOOLEAN] :
        /\ r.at \in CallSteps \cup DeviceSteps => r.call \in Calls
        /\ r.at \in DeviceSteps \cup {"insert"} => r.dev \in Devices}

Idle == [at |-> "idle", call |-> NoCall, dev |-> NoDevice, seen |-> "absent",
         why |-> "none", row |-> "none", heard |-> FALSE]

Room   == [up : BOOLEAN, members : SUBSET Devices, endpoints : SUBSET Devices]
NoRoom == [up |-> FALSE, members |-> {}, endpoints |-> {}]

Cleaner == [at : {"idle", "select_ringing", "select_abandoned", "mark_left",
                  "end_ringing", "end_abandoned"},
            ringing   : SUBSET Calls,
            abandoned : SUBSET Calls]
NoJob   == [at |-> "idle", ringing |-> {}, abandoned |-> {}]

TypeOK ==
    /\ status   \in [Calls -> Statuses]
    /\ reason   \in [Calls -> Reasons]
    /\ starter  \in [Calls -> Devices \cup {NoDevice}]
    /\ age      \in [Calls -> 0..2]
    /\ rows     \in [Calls -> [Devices -> RowState]]
    /\ old      \in [Calls -> SUBSET Devices]
    /\ room     \in [Calls -> Room]
    /\ timer    \in [Calls -> {"off", "armed", "loaded"}]
    /\ timeline \in [Calls -> SUBSET Notes]
    /\ req      \in [Procs -> Request]
    /\ cleaner  \in Cleaner
    /\ faults   \in 0..MaxFaults

Init ==
    /\ status   = [c \in Calls |-> "absent"]
    /\ reason   = [c \in Calls |-> "none"]
    /\ starter  = [c \in Calls |-> NoDevice]
    /\ age      = [c \in Calls |-> 0]
    /\ rows     = [c \in Calls |-> [d \in Devices |-> "none"]]
    /\ old      = [c \in Calls |-> {}]
    /\ room     = [c \in Calls |-> NoRoom]
    /\ timer    = [c \in Calls |-> "off"]
    /\ timeline = [c \in Calls |-> {}]
    /\ req      = [p \in Procs |-> Idle]
    /\ cleaner  = NoJob
    /\ faults   = 0

-----------------------------------------------------------------------------
(* Reading, writing and moving on.                                         *)

\* Ecto.Changeset: the field is in the UPDATE only when it changes the struct.
Written(stored, seen, new) == IF seen = new THEN stored ELSE new

\* Mutant: accept_call refuses active calls only.
NotActive == {"ringing", "ended"}
\* accept_call and decline_call match %CallSession{status: "ringing"}.
Answerable == {"ringing"}

Joined(c) == {d \in Devices : rows[c][d] = "joined"}

\* Mutant: the participants of a call that ends stay joined.
NobodyLeft(row) == row
AllLeft(row) == [d \in Devices |-> IF row[d] = "joined" THEN "left" ELSE row[d]]

At(p, step)   == req[p].at = step
Goto(p, step) == req' = [req EXCEPT ![p].at = step]
Done(p)       == req' = [req EXCEPT ![p] = Idle]

\* Repo.get(CallSession, call_id) on behalf of device d, then on to `step`.
Load(p, c, d, step) ==
    /\ At(p, "idle")
    /\ req' = [req EXCEPT ![p] = [Idle EXCEPT !.at = step, !.call = c, !.dev = d,
                                              !.seen = status[c], !.why = reason[c]]]

\* RoomSupervisor.ensure_room: a no-op when the room's process is registered.
EnsureRoom(c) == room' = [room EXCEPT ![c].up = TRUE]

Note(c, kind) == timeline' = [timeline EXCEPT ![c] = @ \cup {kind}]

-----------------------------------------------------------------------------
(* start_call, start_call_room: look for a live call, insert one if none.  *)

LiveCalls   == {c \in Calls : status[c] \in Live}

\* Bound: an id is left for every process that has found no live call.
IdsLeft == Cardinality({c \in Calls : status[c] = "absent"})
              > Cardinality({p \in Procs : At(p, "insert")})

\* order_by started_at, limit 1: with several live calls, any may be newest.
StartFindsLive(p, c, d) ==
    /\ "start" \in Ops
    /\ c \in LiveCalls
    /\ Load(p, c, d, "ensure_room")
    /\ UNCHANGED <<callRow, rows, old, room, timer, timeline, cleaner, faults>>

StartFindsNone(p, d) ==
    /\ "start" \in Ops
    /\ LiveCalls = {}
    /\ IdsLeft
    /\ At(p, "idle")
    /\ req' = [req EXCEPT ![p].at = "insert", ![p].dev = d]
    /\ UNCHANGED <<callRow, rows, old, room, timer, timeline, cleaner, faults>>

StartInsert(p, c) ==
    /\ At(p, "insert")
    /\ status[c] = "absent"
    /\ status'  = [status EXCEPT ![c] = "ringing"]
    /\ starter' = [starter EXCEPT ![c] = req[p].dev]
    /\ timer'   = [timer EXCEPT ![c] = "armed"]
    /\ Done(p)
    /\ UNCHANGED <<reason, age, rows, old, room, timeline, cleaner, faults>>

(* Reads that boot the room of a call they read as active: call_state,     *)
(* active_call_for_chat, active_call_for_room.  Other statuses: no effect. *)
LookLoad(p, c) ==
    /\ "look" \in Ops
    /\ status[c] = "active"
    /\ Load(p, c, NoDevice, "ensure_room")
    /\ UNCHANGED <<callRow, rows, old, room, timer, timeline, cleaner, faults>>

\* Runtime.maybe_ensure_room decides on the struct, not on the row.
MaybeEnsureRoom(p) ==
    /\ At(p, "ensure_room")
    /\ IF req[p].seen = "active" THEN EnsureRoom(req[p].call) ELSE UNCHANGED room
    /\ Done(p)
    /\ UNCHANGED <<callRow, rows, old, timer, timeline, cleaner, faults>>

-----------------------------------------------------------------------------
(* accept_call and decline_call: both refuse a call not read as ringing.   *)

AcceptLoad(p, c) ==
    /\ "accept" \in Ops
    /\ status[c] \in Answerable
    /\ Load(p, c, NoDevice, "accept_write")
    /\ UNCHANGED <<callRow, rows, old, room, timer, timeline, cleaner, faults>>

AcceptWrite(p) ==
    /\ At(p, "accept_write")
    /\ status' = [status EXCEPT ![req[p].call] = Written(@, req[p].seen, "active")]
    /\ Goto(p, "accept_room")
    /\ UNCHANGED <<reason, starter, age, rows, old, room, timer, timeline, cleaner, faults>>

\* The timeline is only ever appended to, so its write is joined to this step.
AcceptRoom(p) ==
    /\ At(p, "accept_room")
    /\ EnsureRoom(req[p].call)
    /\ Note(req[p].call, "started")
    /\ Done(p)
    /\ UNCHANGED <<callRow, rows, old, timer, cleaner, faults>>

DeclineLoad(p, c) ==
    /\ "decline" \in Ops
    /\ status[c] \in Answerable
    /\ Load(p, c, NoDevice, "decline_write")
    /\ UNCHANGED <<callRow, rows, old, room, timer, timeline, cleaner, faults>>

DeclineWrite(p) ==
    LET c == req[p].call IN
    /\ At(p, "decline_write")
    /\ status' = [status EXCEPT ![c] = Written(@, req[p].seen, "ended")]
    /\ reason' = [reason EXCEPT ![c] = Written(@, req[p].why, "declined")]
    /\ Note(c, "declined")
    /\ Done(p)
    /\ UNCHANGED <<starter, age, rows, old, room, timer, cleaner, faults>>

-----------------------------------------------------------------------------
(* join_call: room, participant row, WebRTC endpoint, room member.         *)

JoinLoad(p, c, d) ==
    /\ "join" \in Ops
    /\ status[c] \in Live
    /\ Load(p, c, d, "join_room")
    /\ UNCHANGED <<callRow, rows, old, room, timer, timeline, cleaner, faults>>

JoinRoom(p) ==
    /\ At(p, "join_room")
    /\ EnsureRoom(req[p].call)
    /\ Goto(p, "join_row")
    /\ UNCHANGED <<callRow, rows, old, timer, timeline, cleaner, faults>>

ReadRow(p, step) ==
    req' = [req EXCEPT ![p].row = rows[req[p].call][req[p].dev], ![p].at = step]

\* Mutant: the room admits the device before its row is written.
JoinRowSkipped(p) ==
    /\ At(p, "join_row")
    /\ Goto(p, "join_endpoint")
    /\ UNCHANGED <<callRow, rows, old, room, timer, timeline, cleaner, faults>>
JoinRow(p) ==
    /\ At(p, "join_row")
    /\ ReadRow(p, "join_upsert")
    /\ UNCHANGED <<callRow, rows, old, room, timer, timeline, cleaner, faults>>

\* Insert, refused by the unique index when a row appeared meanwhile, or update.
JoinUpsert(p) ==
    LET c == req[p].call  d == req[p].dev IN
    /\ At(p, "join_upsert")
    /\ IF req[p].row = "none" /\ rows[c][d] # "none"
       THEN Done(p) /\ UNCHANGED rows
       ELSE /\ rows' = [rows EXCEPT ![c][d] = Written(@, req[p].row, "joined")]
            /\ Goto(p, "join_endpoint")
    /\ UNCHANGED <<callRow, old, room, timer, timeline, cleaner, faults>>

\* A GenServer call that kills the request when the room is gone; the engine
\* may fail to add the endpoint, which the room swallows.
AddEndpoint(c, d) ==
    /\ room[c].up
    /\ \/ room' = [room EXCEPT ![c].endpoints = @ \cup {d}]
       \/ UNCHANGED room

JoinEndpoint(p) ==
    /\ At(p, "join_endpoint")
    /\ \/ AddEndpoint(req[p].call, req[p].dev) /\ Goto(p, "join_member")
       \/ ~room[req[p].call].up /\ Done(p) /\ UNCHANGED room
    /\ UNCHANGED <<callRow, rows, old, timer, timeline, cleaner, faults>>

JoinMember(p) ==
    LET c == req[p].call IN
    /\ At(p, "join_member")
    /\ IF room[c].up
       THEN room' = [room EXCEPT ![c].members = @ \cup {req[p].dev}]
       ELSE UNCHANGED room
    /\ Done(p)
    /\ UNCHANGED <<callRow, rows, old, timer, timeline, cleaner, faults>>

(* provision_webrtc_endpoint: the room and the endpoint, no participant.   *)

ProvisionLoad(p, c, d) ==
    /\ "provision" \in Ops
    /\ status[c] \in Live
    /\ Load(p, c, d, "provision_room")
    /\ UNCHANGED <<callRow, rows, old, room, timer, timeline, cleaner, faults>>

ProvisionRoom(p) ==
    /\ At(p, "provision_room")
    /\ EnsureRoom(req[p].call)
    /\ Goto(p, "provision_endpoint")
    /\ UNCHANGED <<callRow, rows, old, timer, timeline, cleaner, faults>>

ProvisionEndpoint(p) ==
    /\ At(p, "provision_endpoint")
    /\ \/ AddEndpoint(req[p].call, req[p].dev)
       \/ ~room[req[p].call].up /\ UNCHANGED room
    /\ Done(p)
    /\ UNCHANGED <<callRow, rows, old, timer, timeline, cleaner, faults>>

-----------------------------------------------------------------------------
(* leave_call: the row, then the room when the call was read as active.    *)

LeaveLoad(p, c, d) ==
    /\ "leave" \in Ops
    /\ status[c] # "absent"
    /\ Load(p, c, d, "leave_row")
    /\ UNCHANGED <<callRow, rows, old, room, timer, timeline, cleaner, faults>>

LeaveRow(p) ==
    /\ At(p, "leave_row")
    /\ IF rows[req[p].call][req[p].dev] = "none"
       THEN Done(p)
       ELSE ReadRow(p, "leave_write")
    /\ UNCHANGED <<callRow, rows, old, room, timer, timeline, cleaner, faults>>

LeaveWrite(p) ==
    LET c == req[p].call  d == req[p].dev IN
    /\ At(p, "leave_write")
    /\ rows' = [rows EXCEPT ![c][d] = Written(@, req[p].row, "left")]
    /\ IF req[p].seen = "active" THEN Goto(p, "leave_endpoint") ELSE Done(p)
    /\ UNCHANGED <<callRow, old, room, timer, timeline, cleaner, faults>>

\* current_room_state and remove_webrtc_endpoint: nothing when there is no room.
LeaveEndpoint(p) ==
    LET c == req[p].call IN
    /\ At(p, "leave_endpoint")
    /\ IF room[c].up
       THEN /\ room' = [room EXCEPT ![c].endpoints = @ \ {req[p].dev}]
            /\ Goto(p, "leave_member")
       ELSE Done(p) /\ UNCHANGED room
    /\ UNCHANGED <<callRow, rows, old, timer, timeline, cleaner, faults>>

LeaveMember(p) ==
    LET c == req[p].call IN
    /\ At(p, "leave_member")
    /\ IF room[c].up
       THEN room' = [room EXCEPT ![c].members = @ \ {req[p].dev}]
       ELSE UNCHANGED room
    /\ Done(p)
    /\ UNCHANGED <<callRow, rows, old, timer, timeline, cleaner, faults>>

-----------------------------------------------------------------------------
(* end_call: no status guard; row, participants and room in four commits.  *)

EndLoad(p, c) ==
    /\ "end" \in Ops
    /\ status[c] # "absent"
    /\ Load(p, c, NoDevice, "end_count")
    /\ UNCHANGED <<callRow, rows, old, room, timer, timeline, cleaner, faults>>

\* Mutant: the starter's own row counts as an answer.
AnyoneJoined(c) == \E d \in Devices : rows[c][d] # "none"
\* remote_participant_joined?: a row of any status of a device not the starter's.
RemoteJoined(c) == \E d \in Devices \ {starter[c]} : rows[c][d] # "none"

\* call_completion_message
EndCount(p) ==
    LET c == req[p].call IN
    /\ At(p, "end_count")
    /\ req' = [req EXCEPT ![p].at = "end_write",
                          ![p].heard = RemoteJoined(c)]
    /\ UNCHANGED <<callRow, rows, old, room, timer, timeline, cleaner, faults>>

EndReason(seen) == IF seen = "ringing" THEN "cancelled" ELSE "normal"

EndWrite(p) ==
    LET c == req[p].call IN
    /\ At(p, "end_write")
    /\ status' = [status EXCEPT ![c] = Written(@, req[p].seen, "ended")]
    /\ reason' = [reason EXCEPT ![c] = Written(@, req[p].why, EndReason(req[p].seen))]
    /\ Goto(p, "end_rows")
    /\ UNCHANGED <<starter, age, rows, old, room, timer, timeline, cleaner, faults>>

EndRows(p) ==
    /\ At(p, "end_rows")
    /\ rows' = [rows EXCEPT ![req[p].call] = AllLeft(@)]
    /\ Goto(p, "end_room")
    /\ UNCHANGED <<callRow, old, room, timer, timeline, cleaner, faults>>

EndRoom(p) ==
    LET c == req[p].call IN
    /\ At(p, "end_room")
    /\ room' = [room EXCEPT ![c] = NoRoom]
    /\ Note(c, IF req[p].heard THEN "completed" ELSE "missed")
    /\ Done(p)
    /\ UNCHANGED <<callRow, rows, old, timer, cleaner, faults>>

-----------------------------------------------------------------------------
(* The ring timeout: an unlinked task that reads the call 30 s after the   *)
(* start and writes it back as missed when it read it ringing.             *)

RingTimeoutLoad(c) ==
    /\ timer[c] = "armed"
    /\ timer' = [timer EXCEPT ![c] = IF status[c] = "ringing" THEN "loaded" ELSE "off"]
    /\ UNCHANGED <<callRow, rows, old, room, timeline, req, cleaner, faults>>

RingTimeoutWrite(c) ==
    /\ timer[c] = "loaded"
    /\ status' = [status EXCEPT ![c] = "ended"]
    /\ reason' = [reason EXCEPT ![c] = "missed"]
    /\ timer'  = [timer EXCEPT ![c] = "off"]
    /\ Note(c, "unanswered")
    /\ UNCHANGED <<starter, age, rows, old, room, req, cleaner, faults>>

-----------------------------------------------------------------------------
(* StaleCallCleanupWorker: selects first, updates by id afterwards.        *)

\* Mutant: the cutoff is compared the wrong way round.
RecentRow(c, d) == status[c] = "ended" /\ rows[c][d] = "joined" /\ d \notin old[c]
StaleRow(c, d)  == status[c] = "ended" /\ rows[c][d] = "joined" /\ d \in old[c]

CleanRows ==
    /\ "cleanup" \in Background
    /\ cleaner.at = "idle"
    /\ rows' = [c \in Calls |-> [d \in Devices |->
                   IF StaleRow(c, d) THEN "left" ELSE rows[c][d]]]
    /\ cleaner' = [cleaner EXCEPT !.at = "select_ringing"]
    /\ UNCHANGED <<callRow, old, room, timer, timeline, req, faults>>

\* Mutant: the cutoff is compared the wrong way round.
FreshRinging == {c \in Calls : status[c] = "ringing" /\ age[c] < 1}
StaleRinging == {c \in Calls : status[c] = "ringing" /\ age[c] >= 1}
\* Mutant: the join does not look at the participants' status.
NeverJoined == {c \in Calls : status[c] = "active" /\ age[c] = 2
                               /\ \A d \in Devices : rows[c][d] = "none"}
StaleAbandoned == {c \in Calls : status[c] = "active" /\ age[c] = 2 /\ Joined(c) = {}}

SelectRinging ==
    /\ cleaner.at = "select_ringing"
    /\ cleaner' = [cleaner EXCEPT !.at = "select_abandoned", !.ringing = StaleRinging]
    /\ UNCHANGED <<callRow, rows, old, room, timer, timeline, req, faults>>

SelectAbandoned ==
    LET found == StaleAbandoned \ cleaner.ringing IN
    /\ cleaner.at = "select_abandoned"
    /\ cleaner' = IF found = {} /\ cleaner.ringing = {}
                  THEN NoJob
                  ELSE [cleaner EXCEPT !.at = "mark_left", !.abandoned = found]
    /\ UNCHANGED <<callRow, rows, old, room, timer, timeline, req, faults>>

MarkLeft ==
    /\ cleaner.at = "mark_left"
    /\ rows' = [c \in Calls |-> IF c \in cleaner.ringing \cup cleaner.abandoned
                                THEN AllLeft(rows[c]) ELSE rows[c]]
    /\ cleaner' = [cleaner EXCEPT !.at = "end_ringing"]
    /\ UNCHANGED <<callRow, old, room, timer, timeline, req, faults>>

\* Repo.update_all by id: whatever the calls have become since the selection.
\* Mutant: the update forgets the reason.
EndSelectedStatus(selected, why) ==
    /\ status' = [c \in Calls |-> IF c \in selected THEN "ended" ELSE status[c]]
    /\ UNCHANGED reason
EndSelected(selected, why) ==
    /\ status' = [c \in Calls |-> IF c \in selected THEN "ended" ELSE status[c]]
    /\ reason' = [c \in Calls |-> IF c \in selected THEN why ELSE reason[c]]

EndRinging ==
    /\ cleaner.at = "end_ringing"
    /\ EndSelected(cleaner.ringing, "missed")
    /\ cleaner' = [cleaner EXCEPT !.at = "end_abandoned"]
    /\ UNCHANGED <<starter, age, rows, old, room, timer, timeline, req, faults>>

EndAbandoned ==
    /\ cleaner.at = "end_abandoned"
    /\ EndSelected(cleaner.abandoned, "normal")
    /\ cleaner' = NoJob
    /\ UNCHANGED <<starter, age, rows, old, room, timer, timeline, req, faults>>

-----------------------------------------------------------------------------
(* Time and faults.                                                        *)

\* started_at: under two minutes ago (0), over two minutes (1), over thirty (2).
\* Two minutes outlast the timer's 30 s and the Repo timeouts of its two calls.
AgeCall(c) ==
    /\ "cleanup" \in Background
    /\ status[c] # "absent"
    /\ timer[c] = "off"
    /\ age[c] < 2
    /\ age' = [age EXCEPT ![c] = @ + 1]
    /\ UNCHANGED <<status, reason, starter, rows, old, room, timer, timeline,
                   req, cleaner, faults>>

AgeRow(c, d) ==
    /\ "cleanup" \in Background
    /\ rows[c][d] # "none"
    /\ d \notin old[c]
    /\ old' = [old EXCEPT ![c] = @ \cup {d}]
    /\ UNCHANGED <<callRow, rows, room, timer, timeline, req, cleaner, faults>>

\* Any Repo call may raise (pool timeout, lost connection): the request dies.
RequestFails(p) ==
    /\ "crash" \in Background
    /\ ~At(p, "idle")
    /\ Done(p)
    /\ UNCHANGED <<callRow, rows, old, room, timer, timeline, cleaner, faults>>

RingTimeoutFails(c) ==
    /\ "crash" \in Background
    /\ timer[c] # "off"
    /\ timer' = [timer EXCEPT ![c] = "off"]
    /\ UNCHANGED <<callRow, rows, old, room, timeline, req, cleaner, faults>>

\* The room is a permanent child of its DynamicSupervisor: restarted, empty.
RoomCrash(c) ==
    /\ "crash" \in Background
    /\ room[c].up
    /\ room' = [room EXCEPT ![c].members = {}, ![c].endpoints = {}]
    /\ UNCHANGED <<callRow, rows, old, timer, timeline, req, cleaner, faults>>

CleanupFails ==
    /\ "crash" \in Background
    /\ cleaner.at # "idle"
    /\ faults < MaxFaults
    /\ faults' = faults + 1
    /\ cleaner' = NoJob
    /\ UNCHANGED <<callRow, rows, old, room, timer, timeline, req>>

\* The database survives; requests, rooms and ring timers do not.
ServerRestart ==
    /\ "crash" \in Background
    /\ faults < MaxFaults
    /\ faults' = faults + 1
    /\ req' = [p \in Procs |-> Idle]
    /\ room' = [c \in Calls |-> NoRoom]
    /\ timer' = [c \in Calls |-> "off"]
    /\ cleaner' = NoJob
    /\ UNCHANGED <<callRow, rows, old, timeline>>

-----------------------------------------------------------------------------
\* A client's request reaches an idle process.
Arrive(p) ==
    \/ \E d \in Devices : StartFindsNone(p, d)
    \/ \E c \in Calls : LookLoad(p, c) \/ AcceptLoad(p, c) \/ DeclineLoad(p, c)
                        \/ EndLoad(p, c)
    \/ \E c \in Calls, d \in Devices :
          StartFindsLive(p, c, d) \/ JoinLoad(p, c, d) \/ LeaveLoad(p, c, d)
          \/ ProvisionLoad(p, c, d)

\* A request takes its next step.
Continue(p) ==
    \/ \E c \in Calls : StartInsert(p, c)
    \/ MaybeEnsureRoom(p)
    \/ AcceptWrite(p) \/ AcceptRoom(p)
    \/ DeclineWrite(p)
    \/ JoinRoom(p) \/ JoinRow(p) \/ JoinUpsert(p) \/ JoinEndpoint(p) \/ JoinMember(p)
    \/ ProvisionRoom(p) \/ ProvisionEndpoint(p)
    \/ LeaveRow(p) \/ LeaveWrite(p) \/ LeaveEndpoint(p) \/ LeaveMember(p)
    \/ EndCount(p) \/ EndWrite(p) \/ EndRows(p) \/ EndRoom(p)

RingTimeout(c) == RingTimeoutLoad(c) \/ RingTimeoutWrite(c)

Cleanup == CleanRows \/ SelectRinging \/ SelectAbandoned \/ MarkLeft
           \/ EndRinging \/ EndAbandoned

Fault == \/ \E p \in Procs : RequestFails(p)
         \/ \E c \in Calls : RoomCrash(c) \/ RingTimeoutFails(c)
         \/ CleanupFails
         \/ ServerRestart

Next ==
    \/ \E p \in Procs : Arrive(p) \/ Continue(p)
    \/ \E c \in Calls : RingTimeout(c) \/ AgeCall(c) \/ (\E d \in Devices : AgeRow(c, d))
    \/ Cleanup
    \/ Fault

Spec == Init /\ [][Next]_vars

(* The cron inserts a cleanup job every hour and Oban runs it; clocks      *)
(* advance; tasks and requests that are alive are scheduled.  Clients need *)
(* not send anything, and faults need not happen.                          *)
Fairness ==
    /\ \A p \in Procs : WF_vars(Continue(p))
    /\ \A c \in Calls : WF_vars(RingTimeout(c)) /\ WF_vars(AgeCall(c))
    /\ \A c \in Calls, d \in Devices : WF_vars(AgeRow(c, d))
    /\ WF_vars(Cleanup)

FairSpec == Spec /\ Fairness
-----------------------------------------------------------------------------
(* Safety, under any interleaving.                                         *)

\* A call that has ended says why: whoever ended it, and however stale the
\* struct it was ended from, end_reason and ended_at are set.
EndedHasReason == \A c \in Calls : status[c] = "ended" => reason[c] # "none"

\* A room admits only devices that have a participant row, so the participant
\* list the clients get names everyone who is in the room.
RoomMembersHaveRows ==
    \A c \in Calls : \A d \in room[c].members : rows[c][d] # "none"

\* The history says "call ended" (and not "missed") only of a call that a device
\* other than the starter's has joined.
Answered(c) == \E d \in Devices \ {starter[c]} : rows[c][d] # "none"
CompletedWasAnswered == \A c \in Calls : "completed" \in timeline[c] => Answered(c)

Touches(p, c) == req[p].call = c
Late(c) == status[c] = "ended" /\ \A p \in Procs : Touches(p, c) => req[p].seen = "ended"

StaysOver(c) ==
    /\ status'[c] = "ended"
    /\ room'[c].up => room[c].up
    /\ room'[c].members \subseteq room[c].members
    /\ room'[c].endpoints \subseteq room[c].endpoints
    /\ \A d \in Devices : rows'[c][d] = "joined" => rows[c][d] = "joined"

\* Once every request that read a call alive is done with it, an ended call stays
\* over: later answers, joins, reads and hang-ups neither revive it, nor boot a
\* room for it, nor take anyone in.
LateRequestsRefused == [][\A c \in Calls : Late(c) => StaysOver(c)]_vars

(* The lifecycle a client of the calls API can count on.  Accepting covers *)
(* the one hole in it: an accept that read the call ringing and has not    *)
(* written yet may bring an ended call back.                               *)
Accepting(c) == \E p \in Procs : At(p, "accept_write") /\ Touches(p, c)

phase == [c \in Calls |-> IF status[c] = "ended" /\ ~Accepting(c)
                          THEN "closed" ELSE status[c]]

Lifecycle == INSTANCE CallLifecycle

\* Every step of the server is a step of the abstract lifecycle, or none.
LifecycleSpec == Lifecycle!Spec

-----------------------------------------------------------------------------
(* Safety when requests are served one at a time (one process), with the   *)
(* ring timer, the cleanup job and faults running beside them.             *)

\* start_call returns the scope's live call if there is one, so there is one.
OneLiveCall == Cardinality({c \in Calls : status[c] \in {"ringing", "active"}}) <= 1

-----------------------------------------------------------------------------
(* The inductive invariant: what a request or a job still holds is no more *)
(* than what the rows said once, and it stays true of them.                *)

\* A reason that was read is a reason that is stored: reasons are never erased.
ReasonsStay ==
    \A p \in Procs : req[p].why # "none" =>
        req[p].call \in Calls /\ reason[req[p].call] # "none"

\* A device on its way into the room has its row, and so has one whose row was read.
HoldsRow(p) ==
    \/ At(p, "join_endpoint")
    \/ At(p, "join_member")
    \/ At(p, "join_upsert") /\ req[p].row # "none"
RowsStay ==
    \A p \in Procs : HoldsRow(p) => rows[req[p].call][req[p].dev] # "none"

\* An answer that end_call has counted does not go away.
AnswersStay ==
    \A p \in Procs : req[p].heard => req[p].call \in Calls /\ Answered(req[p].call)

\* accept_call and decline_call write only from a call they read as ringing.
AnswersFollowRinging ==
    \A p \in Procs : At(p, "accept_write") \/ At(p, "decline_write")
                        => req[p].seen = "ringing"

\* A handler that boots a room, joins or provisions was admitted to a live call.
Admitted == {"ensure_room", "accept_room", "join_room", "join_row", "join_upsert",
             "join_endpoint", "join_member", "provision_room", "provision_endpoint"}
AdmittedAlive ==
    \A p \in Procs : req[p].at \in Admitted => req[p].seen \in {"ringing", "active"}

\* Nothing holds a call before it exists.
OnlyExistingCalls ==
    /\ \A p \in Procs : req[p].call \in Calls => status[req[p].call] # "absent"
    /\ \A c \in Calls :
          \/ timer[c] # "off"
          \/ timeline[c] # {}
          \/ c \in cleaner.ringing \cup cleaner.abandoned
          => status[c] # "absent"

ReasonInv == EndedHasReason /\ ReasonsStay
RowInv    == RoomMembersHaveRows /\ RowsStay
AnswerInv == OnlyExistingCalls /\ CompletedWasAnswered /\ AnswersStay

\* True at first, kept by every step, and enough for EndedHasReason,
\* RoomMembersHaveRows, CompletedWasAnswered, LifecycleSpec and LateRequestsRefused.
IInv == TypeOK /\ ReasonInv /\ RowInv /\ AnswerInv /\ AnswersFollowRinging /\ AdmittedAlive

-----------------------------------------------------------------------------
(* Liveness, under Fairness.                                               *)

\* No call rings forever, even when a restart has lost its ring timer.
RingingEnds == \A c \in Calls : (status[c] = "ringing") ~> (status[c] # "ringing")

\* An active call that everyone has left ends, unless someone joins again.
AbandonedEnds == \A c \in Calls :
    (status[c] = "active" /\ Joined(c) = {}) ~> (status[c] = "ended" \/ Joined(c) # {})

\* A device that vanished without leaving does not stay in an ended call.
NoGhosts == \A c \in Calls, d \in Devices :
    (status[c] = "ended" /\ rows[c][d] = "joined")
        ~> (status[c] # "ended" \/ rows[c][d] # "joined")

\* No call outlasts those who are in it, nor they the call.
EveryCallEnds == RingingEnds /\ AbandonedEnds /\ NoGhosts

-----------------------------------------------------------------------------
(* What the repository's documents say and the code does not do.           *)

\* docs/stage-6-8-ops.md: leaving a call removes the device's endpoint.
LeaveRemovesEndpoint ==
    [][\A p \in Procs : LeaveWrite(p) /\ req'[p] = Idle =>
          req[p].dev \notin room'[req[p].call].endpoints]_vars

\* The worker's moduledoc: it ends calls that have no participants.
CleanupSparesOccupiedCalls ==
    [][MarkLeft => \A c \in cleaner.ringing \cup cleaner.abandoned : Joined(c) = {}]_vars
=============================================================================
