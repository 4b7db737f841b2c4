------------------------ MODULE CallSession_proofs ------------------------
(* Theorems about CallSession and CallHangup, for any calls, devices and   *)
(* processes.                                                              *)
EXTENDS CallHangup, TLAPS

-----------------------------------------------------------------------------
(* What the moves of a request do to req.                                  *)

\* A process without a request has the type of one.
LEMMA IdleType == Idle \in Request
  BY DEF Idle, Request, Steps, CallSteps, DeviceSteps, Statuses, Reasons, RowState

\* A request that is done leaves an idle process.
LEMMA DoneType == ASSUME req \in [Procs -> Request], NEW p \in Procs, Done(p)
                  PROVE  req' \in [Procs -> Request]
  BY IdleType DEF Done

\* A request that acts on a call may go on to a step that acts on a call, and one
\* that acts for a device to a step that acts for a device.
LEMMA GotoType == ASSUME req \in [Procs -> Request], NEW p \in Procs, NEW step, Goto(p, step),
                         \/ step \in CallSteps /\ req[p].at \in CallSteps
                         \/ step \in DeviceSteps /\ req[p].at \in DeviceSteps
                  PROVE  req' \in [Procs -> Request]
  <1>1. [req[p] EXCEPT !.at = step] \in Request
    BY DEF Request, Steps, CallSteps, DeviceSteps
  <1> QED
    BY <1>1 DEF Goto

\* A request that has read a call and its device has its type.
LEMMA LoadType == ASSUME req \in [Procs -> Request],
                         status \in [Calls -> Statuses], reason \in [Calls -> Reasons],
                         NEW p \in Procs, NEW c \in Calls, NEW d, NEW step, Load(p, c, d, step),
                         \/ step \in CallSteps /\ d \in Devices \cup {NoDevice}
                         \/ step \in DeviceSteps /\ d \in Devices
                  PROVE  req' \in [Procs -> Request]
  <1>1. [Idle EXCEPT !.at = step, !.call = c, !.dev = d,
                     !.seen = status[c], !.why = reason[c]] \in Request
    BY IdleType DEF Request, Steps, CallSteps, DeviceSteps
  <1> QED
    BY <1>1 DEF Load

\* A request that has read its device's row has its type.
LEMMA ReadRowType == ASSUME req \in [Procs -> Request],
               rows \in [Calls -> [Devices -> RowState]],
                            NEW p \in Procs, NEW step, ReadRow(p, step),
                            step \in DeviceSteps, req[p].at \in DeviceSteps
                     PROVE  req' \in [Procs -> Request]
  <1>1. rows[req[p].call][req[p].dev] \in RowState
    BY DEF Request
  <1>2. [req[p] EXCEPT !.row = rows[req[p].call][req[p].dev], !.at = step] \in Request
    BY ZenonT(60), <1>1 DEF Request, Steps, CallSteps, DeviceSteps
  <1> QED
    BY <1>2 DEF ReadRow

\* What a request at a step holds.
LEMMA Addressed == ASSUME req \in [Procs -> Request], NEW p \in Procs
                   PROVE  /\ req[p].at \in CallSteps \cup DeviceSteps => req[p].call \in Calls
                          /\ req[p].at \in DeviceSteps \cup {"insert"} => req[p].dev \in Devices
                          /\ req[p].seen \in Statuses /\ req[p].why \in Reasons
                          /\ req[p].row \in RowState /\ req[p].heard \in BOOLEAN
  BY DEF Request

-----------------------------------------------------------------------------
(* What the moves of a room do to room.                                    *)

\* Booting a room gives a room.
LEMMA EnsureRoomType == ASSUME room \in [Calls -> Room], NEW c, EnsureRoom(c)
                        PROVE  room' \in [Calls -> Room]
  BY DEF EnsureRoom, Room

\* Adding the endpoint of a device gives a room.
LEMMA AddEndpointType == ASSUME room \in [Calls -> Room], NEW c, NEW d \in Devices,
                                AddEndpoint(c, d)
                         PROVE  room' \in [Calls -> Room]
  BY DEF AddEndpoint, Room

\* A stopped room is one.
LEMMA NoRoomType == NoRoom \in Room
  BY DEF NoRoom, Room

\* The history stays a set of kinds of message.
LEMMA NoteType == ASSUME timeline \in [Calls -> SUBSET Notes], NEW c, NEW kind \in Notes,
                         Note(c, kind)
                  PROVE  timeline' \in [Calls -> SUBSET Notes]
  BY DEF Note

-----------------------------------------------------------------------------
(* Type correctness.                                                       *)

\* Every step of a behaviour keeps the variables in their types.
LEMMA TypeStep == TypeOK /\ [Next]_vars => TypeOK'
  <1> SUFFICES ASSUME TypeOK, [Next]_vars PROVE TypeOK'
    OBVIOUS
  <1> USE MaxFaultsAssumption DEF TypeOK, callRow, At
  <1>1. ASSUME NEW p \in Procs, NEW d \in Devices, StartFindsNone(p, d) PROVE TypeOK'
    <2>1. [req[p] EXCEPT !.at = "insert", !.dev = d] \in Request
      BY ZenonT(60), <1>1 DEF StartFindsNone, Request, Steps, CallSteps, DeviceSteps
    <2>2. req' \in [Procs -> Request]
      BY <1>1, <2>1 DEF StartFindsNone
    <2> QED
      BY <1>1, <2>2 DEF StartFindsNone
  <1>2. ASSUME NEW p \in Procs, NEW c \in Calls,
               LookLoad(p, c) \/ AcceptLoad(p, c) \/ DeclineLoad(p, c) \/ EndLoad(p, c)
        PROVE TypeOK'
    BY <1>2, LoadType DEF LookLoad, AcceptLoad, DeclineLoad, EndLoad, CallSteps
  <1>3. ASSUME NEW p \in Procs, NEW c \in Calls, NEW d \in Devices,
               StartFindsLive(p, c, d) \/ JoinLoad(p, c, d) \/ LeaveLoad(p, c, d)
               \/ ProvisionLoad(p, c, d)
        PROVE TypeOK'
    BY <1>3, LoadType
       DEF StartFindsLive, JoinLoad, LeaveLoad, ProvisionLoad, CallSteps, DeviceSteps
  <1>4. ASSUME NEW p \in Procs, NEW c \in Calls, StartInsert(p, c) PROVE TypeOK'
    <2>1. req' \in [Procs -> Request]
      BY <1>4, DoneType DEF StartInsert
    <2>2. starter' \in [Calls -> Devices \cup {NoDevice}]
      BY <1>4 DEF StartInsert, Request
    <2> QED
      BY <1>4, <2>1, <2>2 DEF StartInsert, Statuses
  <1>5. ASSUME NEW p \in Procs, MaybeEnsureRoom(p) PROVE TypeOK'
    <2>1. req' \in [Procs -> Request]
      BY <1>5, DoneType DEF MaybeEnsureRoom
    <2>2. room' \in [Calls -> Room]
      BY <1>5, EnsureRoomType DEF MaybeEnsureRoom
    <2> QED
      BY <1>5, <2>1, <2>2 DEF MaybeEnsureRoom
  <1>6. ASSUME NEW p \in Procs, AcceptWrite(p) PROVE TypeOK'
    <2>1. req' \in [Procs -> Request]
      BY <1>6, GotoType DEF AcceptWrite, CallSteps
    <2>2. status' \in [Calls -> Statuses]
      BY <1>6 DEF AcceptWrite, Written, Statuses
    <2> QED
      BY <1>6, <2>1, <2>2 DEF AcceptWrite
  <1>7. ASSUME NEW p \in Procs, AcceptRoom(p) PROVE TypeOK'
    <2>1. req' \in [Procs -> Request]
      BY <1>7, DoneType DEF AcceptRoom
    <2>2. room' \in [Calls -> Room]
      BY <1>7, EnsureRoomType DEF AcceptRoom
    <2>3. timeline' \in [Calls -> SUBSET Notes]
      BY <1>7, NoteType DEF AcceptRoom, Notes
    <2> QED
      BY <1>7, <2>1, <2>2, <2>3 DEF AcceptRoom
  <1>8. ASSUME NEW p \in Procs, DeclineWrite(p) PROVE TypeOK'
    <2>1. req' \in [Procs -> Request]
      BY <1>8, DoneType DEF DeclineWrite
    <2>2. status' \in [Calls -> Statuses]
      BY <1>8 DEF DeclineWrite, Written, Statuses
    <2>3. reason' \in [Calls -> Reasons]
      BY <1>8 DEF DeclineWrite, Written, Reasons
    <2>4. timeline' \in [Calls -> SUBSET Notes]
      BY <1>8, NoteType DEF DeclineWrite, Notes
    <2> QED
      BY <1>8, <2>1, <2>2, <2>3, <2>4 DEF DeclineWrite
  <1>9. ASSUME NEW p \in Procs, JoinRoom(p) PROVE TypeOK'
    <2>1. req' \in [Procs -> Request]
      BY <1>9, GotoType DEF JoinRoom, DeviceSteps
    <2>2. room' \in [Calls -> Room]
      BY <1>9, EnsureRoomType DEF JoinRoom
    <2> QED
      BY <1>9, <2>1, <2>2 DEF JoinRoom
  <1>10. ASSUME NEW p \in Procs, JoinRow(p) PROVE TypeOK'
    <2>1. req' \in [Procs -> Request]
      BY <1>10, ReadRowType DEF JoinRow, DeviceSteps
    <2> QED
      BY <1>10, <2>1 DEF JoinRow
  <1>11. ASSUME NEW p \in Procs, JoinUpsert(p) PROVE TypeOK'
    <2>1. req' \in [Procs -> Request]
      BY <1>11, DoneType, GotoType DEF JoinUpsert, DeviceSteps
    <2>2. [rows[req[p].call] EXCEPT ![req[p].dev] = Written(@, req[p].row, "joined")]
             \in [Devices -> RowState]
      BY <1>11, Addressed DEF JoinUpsert, DeviceSteps, Written, RowState
    <2>3. rows' \in [Calls -> [Devices -> RowState]]
      BY <1>11, <2>2 DEF JoinUpsert
    <2> QED
      BY <1>11, <2>1, <2>3 DEF JoinUpsert
  <1>12. ASSUME NEW p \in Procs, JoinEndpoint(p) PROVE TypeOK'
    <2>1. req' \in [Procs -> Request]
      BY <1>12, DoneType, GotoType DEF JoinEndpoint, DeviceSteps
    <2>2. room' \in [Calls -> Room]
      BY <1>12, Addressed, AddEndpointType DEF JoinEndpoint, DeviceSteps
    <2> QED
      BY <1>12, <2>1, <2>2 DEF JoinEndpoint
  <1>13. ASSUME NEW p \in Procs, JoinMember(p) PROVE TypeOK'
    <2>1. req' \in [Procs -> Request]
      BY <1>13, DoneType DEF JoinMember
    <2>2. req[p].call \in Calls /\ req[p].dev \in Devices
      BY <1>13, Addressed DEF JoinMember, DeviceSteps
    <2>3. [room[req[p].call] EXCEPT !.members = @ \cup {req[p].dev}] \in Room
      BY ZenonT(60), <2>2 DEF Room
    <2>4. room' \in [Calls -> Room]
      BY <1>13, <2>2, <2>3 DEF JoinMember
    <2> QED
      BY <1>13, <2>1, <2>4 DEF JoinMember
  <1>14. ASSUME NEW p \in Procs, ProvisionRoom(p) PROVE TypeOK'
    <2>1. req' \in [Procs -> Request]
      BY <1>14, GotoType DEF ProvisionRoom, DeviceSteps
    <2>2. room' \in [Calls -> Room]
      BY <1>14, EnsureRoomType DEF ProvisionRoom
    <2> QED
      BY <1>14, <2>1, <2>2 DEF ProvisionRoom
  <1>15. ASSUME NEW p \in Procs, ProvisionEndpoint(p) PROVE TypeOK'
    <2>1. req' \in [Procs -> Request]
      BY <1>15, DoneType DEF ProvisionEndpoint
    <2>2. room' \in [Calls -> Room]
      BY <1>15, Addressed, AddEndpointType DEF ProvisionEndpoint, DeviceSteps
    <2> QED
      BY <1>15, <2>1, <2>2 DEF ProvisionEndpoint
  <1>16. ASSUME NEW p \in Procs, LeaveRow(p) PROVE TypeOK'
    <2>1. req' \in [Procs -> Request]
      BY <1>16, DoneType, ReadRowType DEF LeaveRow, DeviceSteps
    <2> QED
      BY <1>16, <2>1 DEF LeaveRow
  <1>17. ASSUME NEW p \in Procs, LeaveWrite(p) PROVE TypeOK'
    <2>1. req' \in [Procs -> Request]
      BY <1>17, DoneType, GotoType DEF LeaveWrite, DeviceSteps
    <2>2. rows' \in [Calls -> [Devices -> RowState]]
      BY <1>17 DEF LeaveWrite, Written, RowState
    <2> QED
      BY <1>17, <2>1, <2>2 DEF LeaveWrite
  <1>18. ASSUME NEW p \in Procs, LeaveEndpoint(p) PROVE TypeOK'
    <2>1. req' \in [Procs -> Request]
      BY <1>18, DoneType, GotoType DEF LeaveEndpoint, DeviceSteps
    <2>2. req[p].call \in Calls /\ req[p].dev \in Devices
      BY <1>18, Addressed DEF LeaveEndpoint, DeviceSteps
    <2>3. [room[req[p].call] EXCEPT !.endpoints = @ \ {req[p].dev}] \in Room
      BY ZenonT(60), <2>2 DEF Room
    <2>4. room' \in [Calls -> Room]
      BY <1>18, <2>2, <2>3 DEF LeaveEndpoint
    <2> QED
      BY <1>18, <2>1, <2>4 DEF LeaveEndpoint
  <1>19. ASSUME NEW p \in Procs, LeaveMember(p) PROVE TypeOK'
    <2>1. req' \in [Procs -> Request]
      BY <1>19, DoneType DEF LeaveMember
    <2>2. req[p].call \in Calls /\ req[p].dev \in Devices
      BY <1>19, Addressed DEF LeaveMember, DeviceSteps
    <2>3. [room[req[p].call] EXCEPT !.members = @ \ {req[p].dev}] \in Room
      BY ZenonT(60), <2>2 DEF Room
    <2>4. room' \in [Calls -> Room]
      BY <1>19, <2>2, <2>3 DEF LeaveMember
    <2> QED
      BY <1>19, <2>1, <2>4 DEF LeaveMember
  <1>20. ASSUME NEW p \in Procs, EndCount(p) PROVE TypeOK'
    <2>1. RemoteJoined(req[p].call) \in BOOLEAN
      BY DEF RemoteJoined
    <2>2. [req[p] EXCEPT !.at = "end_write", !.heard = RemoteJoined(req[p].call)] \in Request
      BY ZenonT(60), <1>20, <2>1 DEF EndCount, Request, Steps, CallSteps, DeviceSteps
    <2>3. req' \in [Procs -> Request]
      BY <1>20, <2>2 DEF EndCount
    <2> QED
      BY <1>20, <2>3 DEF EndCount
  <1>21. ASSUME NEW p \in Procs, EndWrite(p) PROVE TypeOK'
    <2>1. req' \in [Procs -> Request]
      BY <1>21, GotoType DEF EndWrite, CallSteps
    <2>2. status' \in [Calls -> Statuses]
      BY <1>21 DEF EndWrite, Written, Statuses
    <2>3. reason' \in [Calls -> Reasons]
      BY <1>21 DEF EndWrite, Written, EndReason, Reasons
    <2> QED
      BY <1>21, <2>1, <2>2, <2>3 DEF EndWrite
  <1>22. ASSUME NEW p \in Procs, EndRows(p) PROVE TypeOK'
    <2>1. req' \in [Procs -> Request]
      BY <1>22, GotoType DEF EndRows, CallSteps
    <2>2. rows' \in [Calls -> [Devices -> RowState]]
      BY <1>22 DEF EndRows, AllLeft, RowState
    <2> QED
      BY <1>22, <2>1, <2>2 DEF EndRows
  <1>23. ASSUME NEW p \in Procs, EndRoom(p) PROVE TypeOK'
    <2>1. req' \in [Procs -> Request]
      BY <1>23, DoneType DEF EndRoom
    <2>2. room' \in [Calls -> Room]
      BY <1>23, NoRoomType DEF EndRoom
    <2>3. timeline' \in [Calls -> SUBSET Notes]
      BY <1>23, NoteType DEF EndRoom, Notes
    <2> QED
      BY <1>23, <2>1, <2>2, <2>3 DEF EndRoom
  <1>24. ASSUME NEW c \in Calls, RingTimeoutLoad(c) PROVE TypeOK'
    BY <1>24 DEF RingTimeoutLoad
  <1>25. ASSUME NEW c \in Calls, RingTimeoutWrite(c) PROVE TypeOK'
    <2>1. timeline' \in [Calls -> SUBSET Notes]
      BY <1>25, NoteType DEF RingTimeoutWrite, Notes
    <2> QED
      BY <1>25, <2>1 DEF RingTimeoutWrite, Statuses, Reasons
  <1>26. CASE CleanRows
    <2>1. rows' \in [Calls -> [Devices -> RowState]]
      BY <1>26 DEF CleanRows, RowState
    <2> QED
      BY <1>26, <2>1 DEF CleanRows, Cleaner
  <1>27. CASE SelectRinging
    BY <1>27 DEF SelectRinging, StaleRinging, Cleaner
  <1>28. CASE SelectAbandoned
    BY <1>28 DEF SelectAbandoned, StaleAbandoned, Cleaner, NoJob
  <1>29. CASE MarkLeft
    <2>1. rows' \in [Calls -> [Devices -> RowState]]
      BY <1>29 DEF MarkLeft, AllLeft, RowState
    <2> QED
      BY <1>29, <2>1 DEF MarkLeft, Cleaner
  <1>30. CASE EndRinging \/ EndAbandoned
    <2>1. status' \in [Calls -> Statuses] /\ reason' \in [Calls -> Reasons]
      BY <1>30 DEF EndRinging, EndAbandoned, EndSelected, Statuses, Reasons
    <2>2. cleaner' \in Cleaner
      BY <1>30 DEF EndRinging, EndAbandoned, Cleaner, NoJob
    <2> QED
      BY <1>30, <2>1, <2>2 DEF EndRinging, EndAbandoned
  <1>31. ASSUME NEW c \in Calls, AgeCall(c) PROVE TypeOK'
    BY <1>31 DEF AgeCall
  <1>32. ASSUME NEW c \in Calls, NEW d \in Devices, AgeRow(c, d) PROVE TypeOK'
    BY <1>32 DEF AgeRow
  <1>33. ASSUME NEW p \in Procs, RequestFails(p) PROVE TypeOK'
    BY <1>33, DoneType DEF RequestFails
  <1>34. ASSUME NEW c \in Calls, RoomCrash(c) PROVE TypeOK'
    <2>1. room' \in [Calls -> Room]
      BY ZenonT(60), <1>34 DEF RoomCrash, Room
    <2> QED
      BY <1>34, <2>1 DEF RoomCrash
  <1>35. ASSUME NEW c \in Calls, RingTimeoutFails(c) PROVE TypeOK'
    BY <1>35 DEF RingTimeoutFails
  <1>36. CASE CleanupFails
    BY <1>36 DEF CleanupFails, Cleaner, NoJob
  <1>37. CASE ServerRestart
    BY <1>37, IdleType, NoRoomType DEF ServerRestart, Cleaner, NoJob
  <1>38. CASE UNCHANGED vars
    BY <1>38 DEF vars
  <1> QED
    BY <1>1, <1>2, <1>3, <1>4, <1>5, <1>6, <1>7, <1>8, <1>9, <1>10, <1>11, <1>12,
       <1>13, <1>14, <1>15, <1>16, <1>17, <1>18, <1>19, <1>20, <1>21, <1>22, <1>23,
       <1>24, <1>25, <1>26, <1>27, <1>28, <1>29, <1>30, <1>31, <1>32, <1>33, <1>34,
       <1>35, <1>36, <1>37, <1>38
       DEF Next, Arrive, Continue, RingTimeout, Cleanup, Fault

\* Type correctness: the variables of the call system always have their types.
THEOREM TypeCorrect == Spec => []TypeOK
  <1>1. Init => TypeOK
    BY MaxFaultsAssumption, IdleType
       DEF Init, TypeOK, Statuses, Reasons, RowState, Notes, Room, NoRoom, Cleaner, NoJob
  <1> QED
    BY <1>1, TypeStep, PTL DEF Spec

-----------------------------------------------------------------------------
(* What a step keeps of the rows, the calls and the requests.              *)

\* What every step keeps of the rows, the calls, their timers and their history, and
\* of the calls the cleanup job has selected.
RowsKept == \A c \in Calls, d \in Devices : rows[c][d] # "none" => rows'[c][d] # "none"
CallsKept ==
    \A c \in Calls : status[c] # "absent" => status'[c] # "absent" /\ starter'[c] = starter[c]
TimersKept == \A c \in Calls : timer'[c] # "off" => timer[c] # "off" \/ status'[c] # "absent"
JobKept ==
    \A c \in cleaner'.ringing \cup cleaner'.abandoned :
        c \in cleaner.ringing \cup cleaner.abandoned \/ (c \in Calls /\ status[c] # "absent")
TimelineKept ==
    \A c \in Calls :
        /\ timeline'[c] # {} => timeline[c] # {} \/ status[c] # "absent"
        /\ "completed" \in timeline'[c] =>
              "completed" \in timeline[c] \/ (status[c] # "absent" /\ Answered(c))
Kept == RowsKept /\ CallsKept /\ TimersKept /\ JobKept /\ TimelineKept

\* A request keeps its call, or drops it, or takes up an existing one.
RequestKept(q) ==
    \/ /\ req'[q].call = req[q].call
       /\ req'[q].heard => req[q].heard \/ (req[q].call \in Calls /\ Answered(req[q].call))
    \/ /\ ~req'[q].heard
       /\ req'[q].call \in Calls => status[req'[q].call] # "absent"
\* An accept is admitted to a ringing call only.
AcceptingKept(c) == Accepting(c)' => Accepting(c) \/ status[c] = "ringing"
RequestsKept ==
    /\ \A q \in Procs : RequestKept(q)
    /\ \A c \in Calls : AcceptingKept(c)
    /\ AnswersFollowRinging'

\* Rows, calls and answers stay; timers, jobs and notes are about existing calls.
LEMMA KeepStep == TypeOK /\ AnswerInv /\ [Next]_vars
               => Kept
  <1> SUFFICES ASSUME TypeOK, AnswerInv, [Next]_vars
               PROVE  Kept
    OBVIOUS
  <1> USE DEF TypeOK, AnswerInv, OnlyExistingCalls, AnswersStay, callRow, At,
             Kept, RowsKept, CallsKept, TimersKept, JobKept, TimelineKept
  <1>1. CASE UNCHANGED <<rows, status, starter, timer, timeline, cleaner>>
    BY <1>1
  <1>2. ASSUME NEW p \in Procs, NEW c \in Calls,
               LookLoad(p, c) \/ AcceptLoad(p, c) \/ DeclineLoad(p, c) \/ EndLoad(p, c)
        PROVE  Kept
    BY <1>2, <1>1 DEF LookLoad, AcceptLoad, DeclineLoad, EndLoad
  <1>3. ASSUME NEW p \in Procs, NEW c \in Calls, NEW d \in Devices,
               \/ StartFindsLive(p, c, d) \/ JoinLoad(p, c, d)
               \/ LeaveLoad(p, c, d) \/ ProvisionLoad(p, c, d)
        PROVE  Kept
    BY <1>3, <1>1 DEF StartFindsLive, LiveCalls, JoinLoad, LeaveLoad, ProvisionLoad
  <1>4. ASSUME NEW p \in Procs, NEW d \in Devices, StartFindsNone(p, d)
        PROVE  Kept
    BY <1>4, <1>1 DEF StartFindsNone
  <1>5. ASSUME NEW p \in Procs,
                  MaybeEnsureRoom(p) \/ JoinRoom(p) \/ JoinRow(p) \/ JoinEndpoint(p)
               \/ JoinMember(p) \/ ProvisionRoom(p) \/ ProvisionEndpoint(p)
               \/ LeaveRow(p) \/ LeaveEndpoint(p) \/ LeaveMember(p) \/ EndCount(p)
               \/ RequestFails(p)
        PROVE  Kept
    BY <1>5, <1>1 DEF MaybeEnsureRoom, JoinRoom, JoinRow, JoinEndpoint, JoinMember,
       ProvisionRoom,
         ProvisionEndpoint, LeaveRow, LeaveEndpoint, LeaveMember, EndCount,
         RequestFails
  <1>6. ASSUME NEW p \in Procs, NEW c \in Calls, StartInsert(p, c)
        PROVE  Kept
    BY <1>6 DEF StartInsert
  <1>7. ASSUME NEW p \in Procs, AcceptWrite(p) \/ EndWrite(p)
        PROVE  Kept
    BY <1>7 DEF AcceptWrite, EndWrite, Written
  <1>8. ASSUME NEW p \in Procs, AcceptRoom(p)
        PROVE  Kept
    BY <1>8, Addressed DEF AcceptRoom, Note, CallSteps
  <1>9. ASSUME NEW p \in Procs, DeclineWrite(p)
        PROVE  Kept
    BY <1>9, Addressed DEF DeclineWrite, Note, Written, CallSteps
  <1>10. ASSUME NEW p \in Procs, JoinUpsert(p)
        PROVE  Kept
    BY <1>10, Addressed DEF JoinUpsert, Written, DeviceSteps
  <1>11. ASSUME NEW p \in Procs, LeaveWrite(p)
        PROVE  Kept
    BY <1>11, Addressed DEF LeaveWrite, Written, DeviceSteps
  <1>12. ASSUME NEW p \in Procs, EndRows(p)
        PROVE  Kept
    BY <1>12, Addressed DEF EndRows, AllLeft, CallSteps
  <1>13. ASSUME NEW p \in Procs, EndRoom(p)
        PROVE  Kept
    BY <1>13, Addressed DEF EndRoom, Note, CallSteps
  <1>14. ASSUME NEW c \in Calls, RingTimeoutLoad(c) \/ RingTimeoutFails(c)
        PROVE  Kept
    BY <1>14 DEF RingTimeoutLoad, RingTimeoutFails
  <1>15. ASSUME NEW c \in Calls, RingTimeoutWrite(c)
        PROVE  Kept
    BY <1>15 DEF RingTimeoutWrite, Note
  <1>16. ASSUME NEW c \in Calls,
               AgeCall(c) \/ RoomCrash(c) \/ (\E d \in Devices : AgeRow(c, d))
        PROVE  Kept
    BY <1>16, <1>1 DEF AgeCall, RoomCrash, AgeRow
  <1>17. CASE SelectRinging
    BY <1>17 DEF SelectRinging, StaleRinging, Cleaner
  <1>18. CASE SelectAbandoned
    BY <1>18 DEF SelectAbandoned, StaleAbandoned, NoJob, Cleaner
  <1>19. CASE CleanRows
    BY <1>19 DEF CleanRows, Cleaner
  <1>20. CASE MarkLeft
    BY <1>20 DEF MarkLeft, AllLeft, Cleaner
  <1>21. CASE EndRinging
    BY <1>21 DEF EndRinging, EndSelected, Cleaner
  <1>22. CASE EndAbandoned
    BY <1>22 DEF EndAbandoned, EndSelected, NoJob
  <1>23. CASE CleanupFails \/ ServerRestart
    BY <1>23 DEF CleanupFails, ServerRestart, NoJob
  <1>24. CASE UNCHANGED vars
    BY <1>24, <1>1 DEF vars
  <1> QED
    BY <1>1, <1>2, <1>3, <1>4, <1>5, <1>6, <1>7, <1>8, <1>9, <1>10, <1>11, <1>12,
       <1>13, <1>14, <1>15, <1>16, <1>17, <1>18, <1>19, <1>20, <1>21, <1>22, <1>23,
       <1>24
       DEF Next, Arrive, Continue, RingTimeout, Cleanup, Fault

\* Requests take up existing calls, and answers only from a ringing call.
LEMMA RequestStep == TypeOK /\ AnswersFollowRinging /\ [Next]_vars
                  => RequestsKept
  <1> SUFFICES ASSUME TypeOK, AnswersFollowRinging, [Next]_vars
               PROVE  RequestsKept
    OBVIOUS
  <1> USE DEF TypeOK, RequestsKept, RequestKept, AcceptingKept, AnswersFollowRinging,
             Accepting, Touches, At, callRow
  <1>1. ASSUME NEW p \in Procs, NEW c \in Calls, NEW d, NEW step, Load(p, c, d, step),
               status[c] # "absent",
               step \in {"accept_write", "decline_write"} => status[c] = "ringing"
        PROVE  RequestsKept
    BY <1>1 DEF Load, Idle
  <1>2. ASSUME NEW p \in Procs, Done(p)
        PROVE  RequestsKept
    BY <1>2, NoCallAssumption DEF Done, Idle
  <1>3. ASSUME NEW p \in Procs, NEW step, Goto(p, step), step \notin {"accept_write",
               "decline_write"}
        PROVE  RequestsKept
    BY <1>3 DEF Goto, Request
  <1>4. ASSUME NEW p \in Procs, NEW step, ReadRow(p, step),
               step \notin {"accept_write", "decline_write"}
        PROVE  RequestsKept
    BY <1>4 DEF ReadRow, Request
  <1>5. CASE UNCHANGED req
    BY <1>5
  <1>6. ASSUME NEW p \in Procs, NEW c \in Calls,
               LookLoad(p, c) \/ AcceptLoad(p, c) \/ DeclineLoad(p, c) \/ EndLoad(p, c)
        PROVE  RequestsKept
    BY <1>6, <1>1 DEF LookLoad, AcceptLoad, DeclineLoad, EndLoad, Answerable
  <1>7. ASSUME NEW p \in Procs, NEW c \in Calls, NEW d \in Devices,
               \/ StartFindsLive(p, c, d) \/ JoinLoad(p, c, d)
               \/ LeaveLoad(p, c, d) \/ ProvisionLoad(p, c, d)
        PROVE  RequestsKept
    BY <1>7, <1>1 DEF StartFindsLive, LiveCalls, JoinLoad, LeaveLoad, ProvisionLoad, Live
  <1>8. ASSUME NEW p \in Procs, NEW d \in Devices, StartFindsNone(p, d)
        PROVE  RequestsKept
    BY <1>8 DEF StartFindsNone, Request
  <1>9. ASSUME NEW p \in Procs, NEW c \in Calls, StartInsert(p, c)
        PROVE  RequestsKept
    BY <1>9, <1>2 DEF StartInsert
  <1>10. ASSUME NEW p \in Procs, EndCount(p)
        PROVE  RequestsKept
    BY <1>10, Addressed DEF EndCount, RemoteJoined, Answered, CallSteps, Request
  <1>11. ASSUME NEW p \in Procs,
                  MaybeEnsureRoom(p) \/ AcceptWrite(p) \/ AcceptRoom(p)
               \/ DeclineWrite(p) \/ JoinRoom(p) \/ JoinRow(p) \/ JoinUpsert(p)
               \/ JoinEndpoint(p) \/ JoinMember(p) \/ ProvisionRoom(p)
               \/ ProvisionEndpoint(p) \/ LeaveRow(p) \/ LeaveWrite(p)
               \/ LeaveEndpoint(p) \/ LeaveMember(p) \/ EndWrite(p) \/ EndRows(p)
               \/ EndRoom(p) \/ RequestFails(p)
        PROVE  RequestsKept
    BY <1>11, <1>2, <1>3, <1>4, <1>5
       DEF MaybeEnsureRoom, AcceptWrite, AcceptRoom, DeclineWrite, JoinRoom, JoinRow,
         JoinUpsert, JoinEndpoint, JoinMember, ProvisionRoom, ProvisionEndpoint,
         LeaveRow, LeaveWrite, LeaveEndpoint, LeaveMember, EndWrite, EndRows,
         EndRoom, RequestFails
  <1>12. ASSUME NEW c \in Calls,
               RingTimeoutLoad(c) \/ RingTimeoutWrite(c) \/ AgeCall(c) \/ RoomCrash(c)
                 \/ RingTimeoutFails(c)
                 \/ (\E d \in Devices : AgeRow(c, d))
        PROVE  RequestsKept
    BY <1>12, <1>5 DEF RingTimeoutLoad, RingTimeoutWrite, AgeCall, RoomCrash,
       RingTimeoutFails, AgeRow
  <1>13. CASE CleanRows \/ SelectRinging \/ SelectAbandoned \/ MarkLeft \/ EndRinging
            \/ EndAbandoned \/ CleanupFails \/ UNCHANGED vars
    BY <1>13, <1>5 DEF CleanRows, SelectRinging, SelectAbandoned, MarkLeft, EndRinging,
       EndAbandoned,
         CleanupFails, vars
  <1>14. CASE ServerRestart
    BY <1>14, NoCallAssumption DEF ServerRestart, Idle
  <1> QED
    BY <1>6, <1>7, <1>8, <1>9, <1>10, <1>11, <1>12, <1>13, <1>14
       DEF Next, Arrive, Continue, RingTimeout, Cleanup, Fault

\* A handler boots a room, joins or provisions only for a call it read alive.
LEMMA AdmittedStep == TypeOK /\ AnswersFollowRinging /\ AdmittedAlive /\ [Next]_vars
                   => AdmittedAlive'
  <1> SUFFICES ASSUME TypeOK, AnswersFollowRinging, AdmittedAlive, [Next]_vars
               PROVE  AdmittedAlive'
    OBVIOUS
  <1> USE DEF TypeOK, AdmittedAlive, Admitted, At
  <1>1. ASSUME NEW p \in Procs, NEW c \in Calls, NEW d, NEW step, Load(p, c, d, step),
               step \in Admitted => status[c] \in {"ringing", "active"}
        PROVE  AdmittedAlive'
    BY <1>1 DEF Load, Idle
  <1>2. ASSUME NEW p \in Procs, Done(p)
        PROVE  AdmittedAlive'
    BY <1>2 DEF Done, Idle
  <1>3. ASSUME NEW p \in Procs, NEW step, Goto(p, step) \/ ReadRow(p, step),
               step \in Admitted => req[p].at \in Admitted \/ req[p].seen = "ringing"
        PROVE  AdmittedAlive'
    BY <1>3 DEF Goto, ReadRow, Request
  <1>4. CASE UNCHANGED req
    BY <1>4
  <1>5. ASSUME NEW p \in Procs, NEW c \in Calls,
               \/ LookLoad(p, c) \/ AcceptLoad(p, c) \/ DeclineLoad(p, c) \/ EndLoad(p, c)
        PROVE  AdmittedAlive'
    BY <1>5, <1>1 DEF LookLoad, AcceptLoad, DeclineLoad, EndLoad
  <1>6. ASSUME NEW p \in Procs, NEW c \in Calls, NEW d \in Devices,
               \/ StartFindsLive(p, c, d) \/ JoinLoad(p, c, d)
               \/ LeaveLoad(p, c, d) \/ ProvisionLoad(p, c, d)
        PROVE  AdmittedAlive'
    BY <1>6, <1>1 DEF StartFindsLive, LiveCalls, JoinLoad, LeaveLoad, ProvisionLoad, Live
  <1>7. ASSUME NEW p \in Procs, NEW d \in Devices, StartFindsNone(p, d)
        PROVE  AdmittedAlive'
    BY <1>7 DEF StartFindsNone, Request
  <1>8. ASSUME NEW p \in Procs, NEW c \in Calls, StartInsert(p, c)
        PROVE  AdmittedAlive'
    BY <1>8, <1>2 DEF StartInsert
  <1>9. ASSUME NEW p \in Procs, AcceptWrite(p)
        PROVE  AdmittedAlive'
    BY <1>9, <1>3 DEF AcceptWrite, AnswersFollowRinging
  <1>10. ASSUME NEW p \in Procs, EndCount(p)
        PROVE  AdmittedAlive'
    BY <1>10 DEF EndCount, Request
  <1>11. ASSUME NEW p \in Procs,
               \/ MaybeEnsureRoom(p) \/ AcceptRoom(p) \/ DeclineWrite(p) \/ JoinRoom(p)
               \/ JoinRow(p) \/ JoinUpsert(p) \/ JoinEndpoint(p) \/ JoinMember(p)
               \/ ProvisionRoom(p) \/ ProvisionEndpoint(p) \/ RequestFails(p)
        PROVE  AdmittedAlive'
    BY <1>11, <1>2, <1>3
       DEF MaybeEnsureRoom, AcceptRoom, DeclineWrite, JoinRoom, JoinRow, JoinUpsert,
           JoinEndpoint, JoinMember, ProvisionRoom, ProvisionEndpoint, RequestFails
  <1>12. ASSUME NEW p \in Procs,
               \/ LeaveRow(p) \/ LeaveWrite(p) \/ LeaveEndpoint(p) \/ LeaveMember(p)
               \/ EndWrite(p) \/ EndRows(p) \/ EndRoom(p)
        PROVE  AdmittedAlive'
    BY <1>12, <1>2, <1>3
       DEF LeaveRow, LeaveWrite, LeaveEndpoint, LeaveMember, EndWrite, EndRows, EndRoom
  <1>13. ASSUME NEW c \in Calls,
               \/ RingTimeoutLoad(c) \/ RingTimeoutWrite(c) \/ RingTimeoutFails(c)
               \/ AgeCall(c) \/ RoomCrash(c) \/ \E d \in Devices : AgeRow(c, d)
        PROVE  AdmittedAlive'
    BY <1>13, <1>4
       DEF RingTimeoutLoad, RingTimeoutWrite, RingTimeoutFails, AgeCall, RoomCrash, AgeRow
  <1>14. CASE \/ CleanRows \/ SelectRinging \/ SelectAbandoned \/ MarkLeft
              \/ EndRinging \/ EndAbandoned \/ CleanupFails \/ UNCHANGED vars
    BY <1>14, <1>4 DEF CleanRows, SelectRinging, SelectAbandoned, MarkLeft, EndRinging,
                       EndAbandoned, CleanupFails, vars
  <1>15. CASE ServerRestart
    BY <1>15 DEF ServerRestart, Idle
  <1> QED
    BY <1>5, <1>6, <1>7, <1>8, <1>9, <1>10, <1>11, <1>12, <1>13, <1>14, <1>15
       DEF Next, Arrive, Continue, RingTimeout, Cleanup, Fault

-----------------------------------------------------------------------------
(* The parts of the inductive invariant.                                   *)

\* Reasons are set with the status and never erased.
LEMMA ReasonStep == TypeOK /\ ReasonInv /\ [Next]_vars
                 => ReasonInv'
  <1> SUFFICES ASSUME TypeOK, ReasonInv, [Next]_vars
               PROVE  ReasonInv'
    OBVIOUS
  <1> USE DEF TypeOK, ReasonInv, EndedHasReason, ReasonsStay, callRow, At
  <1>1. ASSUME NEW p \in Procs, NEW c \in Calls, NEW d, NEW step, Load(p, c, d, step),
               UNCHANGED <<status, reason>>
        PROVE  ReasonInv'
    BY <1>1 DEF Load, Idle
  <1>2. ASSUME NEW p \in Procs, Done(p), UNCHANGED <<status, reason>>
        PROVE  ReasonInv'
    BY <1>2 DEF Done, Idle
  <1>3. ASSUME NEW p \in Procs, NEW step, Goto(p, step), UNCHANGED <<status, reason>>
        PROVE  ReasonInv'
    BY <1>3 DEF Goto, Request
  <1>4. ASSUME NEW p \in Procs, NEW step, ReadRow(p, step), UNCHANGED <<status, reason>>
        PROVE  ReasonInv'
    BY <1>4 DEF ReadRow, Request
  <1>5. ASSUME NEW p \in Procs, NEW d \in Devices, StartFindsNone(p, d)
        PROVE  ReasonInv'
    BY <1>5 DEF StartFindsNone, Request
  <1>6. ASSUME NEW p \in Procs, NEW c \in Calls,
               LookLoad(p, c) \/ AcceptLoad(p, c) \/ DeclineLoad(p, c) \/ EndLoad(p, c)
        PROVE  ReasonInv'
    BY <1>6, <1>1 DEF LookLoad, AcceptLoad, DeclineLoad, EndLoad
  <1>7. ASSUME NEW p \in Procs, NEW c \in Calls, NEW d \in Devices,
               \/ StartFindsLive(p, c, d) \/ JoinLoad(p, c, d)
               \/ LeaveLoad(p, c, d) \/ ProvisionLoad(p, c, d)
        PROVE  ReasonInv'
    BY <1>7, <1>1 DEF StartFindsLive, LiveCalls, JoinLoad, LeaveLoad, ProvisionLoad
  <1>8. ASSUME NEW p \in Procs, NEW c \in Calls, StartInsert(p, c)
        PROVE  ReasonInv'
    BY <1>8 DEF StartInsert, Done, Idle
  <1>9. ASSUME NEW p \in Procs, AcceptWrite(p)
        PROVE  ReasonInv'
    BY <1>9 DEF AcceptWrite, Goto, Request, Written
  <1>10. ASSUME NEW p \in Procs, DeclineWrite(p)
        PROVE  ReasonInv'
    BY <1>10, Addressed DEF DeclineWrite, Done, Idle, Written
  <1>11. ASSUME NEW p \in Procs, EndWrite(p)
        PROVE  ReasonInv'
    BY <1>11, Addressed DEF EndWrite, Goto, EndReason, Written
  <1>12. ASSUME NEW p \in Procs, EndCount(p)
        PROVE  ReasonInv'
    BY <1>12 DEF EndCount, Request
  <1>13. ASSUME NEW c \in Calls, RingTimeoutWrite(c)
        PROVE  ReasonInv'
    BY <1>13 DEF RingTimeoutWrite
  <1>14. CASE EndRinging
    BY <1>14 DEF EndRinging, EndSelected
  <1>15. CASE EndAbandoned
    BY <1>15 DEF EndAbandoned, EndSelected
  <1>16. CASE ServerRestart
    BY <1>16 DEF ServerRestart, Idle
  <1>17. CASE UNCHANGED <<status, reason, req>>
    BY <1>17
  <1>18. ASSUME NEW p \in Procs,
               MaybeEnsureRoom(p) \/ AcceptRoom(p) \/ JoinMember(p) \/ ProvisionEndpoint(p)
                 \/ LeaveMember(p) \/ EndRoom(p) \/ RequestFails(p)
        PROVE  ReasonInv'
    BY <1>18, <1>2 DEF MaybeEnsureRoom, AcceptRoom, JoinMember, ProvisionEndpoint,
       LeaveMember, EndRoom, RequestFails
  <1>19. ASSUME NEW p \in Procs, JoinRoom(p) \/ ProvisionRoom(p) \/ EndRows(p)
        PROVE  ReasonInv'
    BY <1>19, <1>3 DEF JoinRoom, ProvisionRoom, EndRows
  <1>20. ASSUME NEW p \in Procs, JoinRow(p) \/ LeaveRow(p)
        PROVE  ReasonInv'
    BY <1>20, <1>2, <1>4 DEF JoinRow, LeaveRow
  <1>21. ASSUME NEW p \in Procs,
               JoinUpsert(p) \/ JoinEndpoint(p) \/ LeaveWrite(p) \/ LeaveEndpoint(p)
        PROVE  ReasonInv'
    BY <1>21, <1>2, <1>3 DEF JoinUpsert, JoinEndpoint, LeaveWrite, LeaveEndpoint
  <1>22. ASSUME NEW c \in Calls,
               RingTimeoutLoad(c) \/ AgeCall(c) \/ RoomCrash(c) \/ RingTimeoutFails(c)
                 \/ (\E d \in Devices : AgeRow(c, d))
        PROVE  ReasonInv'
    BY <1>22, <1>17 DEF RingTimeoutLoad, AgeCall, AgeRow, RoomCrash, RingTimeoutFails
  <1>23. CASE CleanRows \/ SelectRinging \/ SelectAbandoned \/ MarkLeft \/ CleanupFails
    BY <1>23, <1>17 DEF CleanRows, SelectRinging, SelectAbandoned, MarkLeft, CleanupFails
  <1>24. CASE UNCHANGED vars
    BY <1>24, <1>17 DEF vars
  <1> QED
    BY <1>5, <1>6, <1>7, <1>8, <1>9, <1>10, <1>11, <1>12, <1>13, <1>14, <1>15, <1>16,
       <1>17, <1>18, <1>19, <1>20, <1>21, <1>22, <1>23, <1>24
       DEF Next, Arrive, Continue, RingTimeout, Cleanup, Fault

\* A step of one request keeps RowInv when it keeps the rows, moves no other
\* request, has a row for what it holds and admits only devices with a row.
LEMMA RowMove ==
    ASSUME TypeOK, RowInv, RowsKept, NEW p \in Procs,
           \A q \in Procs \ {p} : req'[q] = req[q],
           HoldsRow(p)' => rows'[req'[p].call][req'[p].dev] # "none",
           \A c \in Calls : \A d \in room'[c].members :
               d \in room[c].members \/ rows'[c][d] # "none"
    PROVE  RowInv'
  <1> USE DEF TypeOK, RowInv, RoomMembersHaveRows, RowsStay
  <1>1. RoomMembersHaveRows'
    BY DEF RowsKept, Room
  <1>2. ASSUME NEW q \in Procs, q # p, HoldsRow(q)'
        PROVE  rows'[req'[q].call][req'[q].dev] # "none"
    <2>1. req'[q] = req[q] /\ HoldsRow(q)
      BY <1>2 DEF HoldsRow, At
    <2>2. req[q].call \in Calls /\ req[q].dev \in Devices
      BY <2>1, Addressed DEF HoldsRow, At, DeviceSteps
    <2> QED
      BY <2>1, <2>2 DEF RowsKept
  <1> QED
    BY <1>1, <1>2

\* Booting a room admits nobody.
LEMMA EnsureRoomMembers == ASSUME room \in [Calls -> Room], NEW c, EnsureRoom(c),
               NEW k \in Calls
                           PROVE  room'[k].members = room[k].members
  BY DEF EnsureRoom, Room

\* Adding an endpoint admits nobody.
LEMMA AddEndpointMembers == ASSUME room \in [Calls -> Room], NEW c, NEW d,
               AddEndpoint(c, d),
                                   NEW k \in Calls
                            PROVE  room'[k].members = room[k].members
  BY DEF AddEndpoint, Room

\* An update of one field of one room other than its members leaves them as they were.
LEMMA SetEndpointsMembers == ASSUME room \in [Calls -> Room], NEW c, NEW E,
                                    room' = [room EXCEPT ![c].endpoints = E], NEW k \in Calls
                             PROVE  room'[k].members = room[k].members
  BY DEF Room

\* An update of the members of one room is that.
LEMMA SetMembersMembers == ASSUME room \in [Calls -> Room], NEW c, NEW M,
                                  room' = [room EXCEPT ![c].members = M], NEW k \in Calls
                           PROVE  room'[k].members = IF k = c THEN M ELSE room[k].members
  BY DEF Room

\* A room admits a device only after its row is written.
LEMMA RowStep == TypeOK /\ AnswerInv /\ RowInv /\ [Next]_vars
              => RowInv'
  <1> SUFFICES ASSUME TypeOK, AnswerInv, RowInv, [Next]_vars
               PROVE  RowInv'
    OBVIOUS
  <1> USE DEF TypeOK, callRow, At
  <1>0. RowsKept
    BY KeepStep DEF Kept
  <1>1. ASSUME NEW p \in Procs, NEW c \in Calls, NEW d, NEW step, Load(p, c, d, step),
                 step \notin {"join_endpoint", "join_member"}, UNCHANGED room
        PROVE  RowInv'
    BY <1>1, <1>0, RowMove DEF Load, Idle, HoldsRow
  <1>2. ASSUME NEW p \in Procs, Done(p),
                 \A c \in Calls : room'[c].members \subseteq room[c].members
        PROVE  RowInv'
    BY <1>2, <1>0, RowMove DEF Done, Idle, HoldsRow
  <1>3. ASSUME NEW p \in Procs, NEW step, Goto(p, step),
                 step \notin {"join_upsert", "join_endpoint", "join_member"},
                 \A c \in Calls : room'[c].members \subseteq room[c].members
        PROVE  RowInv'
    BY <1>3, <1>0, RowMove DEF Goto, HoldsRow
  <1>4. CASE UNCHANGED <<rows, room, req>>
    BY <1>4 DEF RowInv, RoomMembersHaveRows, RowsStay, HoldsRow
  <1>5. ASSUME NEW p \in Procs, NEW d \in Devices, StartFindsNone(p, d)
        PROVE  RowInv'
    BY <1>5, <1>0, RowMove DEF StartFindsNone, HoldsRow
  <1>6. ASSUME NEW p \in Procs, NEW c \in Calls,
               LookLoad(p, c) \/ AcceptLoad(p, c) \/ DeclineLoad(p, c) \/ EndLoad(p, c)
        PROVE  RowInv'
    BY <1>6, <1>1 DEF LookLoad, AcceptLoad, DeclineLoad, EndLoad
  <1>7. ASSUME NEW p \in Procs, NEW c \in Calls, NEW d \in Devices,
               \/ StartFindsLive(p, c, d) \/ JoinLoad(p, c, d)
               \/ LeaveLoad(p, c, d) \/ ProvisionLoad(p, c, d)
        PROVE  RowInv'
    BY <1>7, <1>1 DEF StartFindsLive, LiveCalls, JoinLoad, LeaveLoad, ProvisionLoad
  <1>8. ASSUME NEW p \in Procs, NEW c \in Calls, StartInsert(p, c)
        PROVE  RowInv'
    BY <1>8, <1>2 DEF StartInsert
  <1>9. ASSUME NEW p \in Procs, MaybeEnsureRoom(p) \/ AcceptRoom(p)
        PROVE  RowInv'
    BY <1>9, <1>2, EnsureRoomMembers DEF MaybeEnsureRoom, AcceptRoom
  <1>10. ASSUME NEW p \in Procs, DeclineWrite(p) \/ RequestFails(p)
        PROVE  RowInv'
    BY <1>10, <1>2 DEF DeclineWrite, RequestFails
  <1>11. ASSUME NEW p \in Procs, ProvisionEndpoint(p)
        PROVE  RowInv'
    BY <1>11, <1>2, AddEndpointMembers DEF ProvisionEndpoint
  <1>12. ASSUME NEW p \in Procs, LeaveMember(p)
        PROVE  RowInv'
    <2>1. \A c \in Calls : room'[c].members \subseteq room[c].members
      BY SMTT(30), <1>12 DEF LeaveMember, Room
    <2> QED
      BY <1>12, <1>2, <2>1 DEF LeaveMember
  <1>13. ASSUME NEW p \in Procs, EndRoom(p)
        PROVE  RowInv'
    BY <1>13, <1>2 DEF EndRoom, NoRoom
  <1>14. ASSUME NEW p \in Procs, AcceptWrite(p) \/ EndWrite(p)
        PROVE  RowInv'
    BY <1>14, <1>3 DEF AcceptWrite, EndWrite
  <1>15. ASSUME NEW p \in Procs, JoinRoom(p) \/ ProvisionRoom(p)
        PROVE  RowInv'
    BY <1>15, <1>3, EnsureRoomMembers DEF JoinRoom, ProvisionRoom
  <1>16. ASSUME NEW p \in Procs, EndCount(p)
        PROVE  RowInv'
    BY <1>16, <1>0, RowMove DEF EndCount, HoldsRow
  <1>17. ASSUME NEW p \in Procs, JoinRow(p)
        PROVE  RowInv'
    <2>1. req'[p].row = rows[req[p].call][req[p].dev]
             /\ req'[p].call = req[p].call /\ req'[p].dev = req[p].dev /\ req'[p].at = "join_upsert"
      BY <1>17 DEF JoinRow, ReadRow, Request
    <2>2. UNCHANGED <<rows, room>> /\ \A q \in Procs \ {p} : req'[q] = req[q]
      BY <1>17 DEF JoinRow, ReadRow
    <2>3. HoldsRow(p)' => rows'[req'[p].call][req'[p].dev] # "none"
      BY <2>1, <2>2 DEF HoldsRow
    <2> QED
      BY <2>2, <2>3, <1>0, RowMove
  <1>18. ASSUME NEW p \in Procs, LeaveRow(p)
        PROVE  RowInv'
    <2>1. CASE Done(p)
      BY <1>18, <2>1, <1>2 DEF LeaveRow
    <2>2. CASE ReadRow(p, "leave_write")
      <3>1. ~HoldsRow(p)'
        BY <2>2 DEF ReadRow, HoldsRow
      <3> QED
        BY <1>18, <2>2, <3>1, <1>0, RowMove DEF LeaveRow, ReadRow
    <2> QED
      BY <1>18, <2>1, <2>2 DEF LeaveRow
  <1>19. ASSUME NEW p \in Procs, LeaveWrite(p)
        PROVE  RowInv'
    BY <1>19, <1>2, <1>3 DEF LeaveWrite
  <1>20. ASSUME NEW p \in Procs, LeaveEndpoint(p)
        PROVE  RowInv'
    <2>1. \A c \in Calls : room'[c].members \subseteq room[c].members
      BY <1>20, SetEndpointsMembers DEF LeaveEndpoint
    <2> QED
      BY <1>20, <1>2, <1>3, <2>1 DEF LeaveEndpoint
  <1>21. ASSUME NEW p \in Procs, EndRows(p)
        PROVE  RowInv'
    BY <1>21, <1>3 DEF EndRows
  <1>22. CASE CleanRows \/ MarkLeft
    <2>1. UNCHANGED <<room, req>>
      BY <1>22 DEF CleanRows, MarkLeft
    <2>2. RoomMembersHaveRows'
      BY <2>1, <1>0 DEF RowInv, RoomMembersHaveRows, RowsKept, Room
    <2>3. ASSUME NEW p \in Procs,
               HoldsRow(p)' PROVE rows'[req'[p].call][req'[p].dev] # "none"
      <3>1. HoldsRow(p) /\ req[p].call \in Calls /\ req[p].dev \in Devices
        BY <2>1, <2>3, Addressed DEF HoldsRow, DeviceSteps
      <3> QED
        BY <3>1, <2>1, <1>0 DEF RowInv, RowsStay, RowsKept
    <2> QED
      BY <2>2, <2>3 DEF RowInv, RowsStay
  <1>23. CASE ServerRestart
    BY <1>23 DEF ServerRestart, Idle, NoRoom, RowInv, RoomMembersHaveRows, RowsStay,
       HoldsRow
  <1>24. ASSUME NEW c \in Calls, RoomCrash(c)
        PROVE  RowInv'
    BY <1>24 DEF RoomCrash, Room, RowInv, RoomMembersHaveRows, RowsStay, HoldsRow
  <1>25. ASSUME NEW c \in Calls, RingTimeoutLoad(c) \/ RingTimeoutWrite(c) \/ AgeCall(c)
                 \/ RingTimeoutFails(c) \/ (\E d \in Devices : AgeRow(c, d))
        PROVE  RowInv'
    BY <1>25, <1>4 DEF RingTimeoutLoad, RingTimeoutWrite, AgeCall, AgeRow, RingTimeoutFails
  <1>26. CASE SelectRinging \/ SelectAbandoned \/ EndRinging \/ EndAbandoned \/ CleanupFails
    BY <1>26, <1>4 DEF SelectRinging, SelectAbandoned, EndRinging, EndAbandoned,
       CleanupFails
  <1>27. CASE UNCHANGED vars
    BY <1>27, <1>4 DEF vars
  <1>28. ASSUME NEW p \in Procs, JoinUpsert(p)
        PROVE  RowInv'
    <2>1. req[p].call \in Calls /\ req[p].dev \in Devices
      BY <1>28, Addressed DEF JoinUpsert, DeviceSteps
    <2>2. CASE Done(p)
      BY <1>28, <2>2, <1>2 DEF JoinUpsert
    <2>3. CASE /\ ~(req[p].row = "none" /\ rows[req[p].call][req[p].dev] # "none")
               /\ Goto(p, "join_endpoint")
      <3>1. rows'[req[p].call][req[p].dev] # "none"
        <4>1. req[p].row = "none" \/ rows[req[p].call][req[p].dev] # "none"
          BY <1>28 DEF JoinUpsert, RowInv, RowsStay, HoldsRow
        <4> QED
          BY <1>28, <2>1, <2>3, <4>1 DEF JoinUpsert, Written
      <3>2. req'[p].call = req[p].call /\ req'[p].dev = req[p].dev
        BY <2>3 DEF Goto, Request
      <3> QED
        BY <1>28, <2>3, <3>1, <3>2, <1>0, RowMove DEF JoinUpsert, Goto
    <2> QED
      BY <1>28, <2>2, <2>3 DEF JoinUpsert
  <1>29. ASSUME NEW p \in Procs, JoinEndpoint(p)
        PROVE  RowInv'
    <2>1. CASE Done(p)
      BY <1>29, <2>1, <1>2, AddEndpointMembers DEF JoinEndpoint
    <2>2. CASE AddEndpoint(req[p].call, req[p].dev) /\ Goto(p, "join_member")
      <3>1. rows'[req[p].call][req[p].dev] # "none"
        BY <1>29 DEF JoinEndpoint, RowInv, RowsStay, HoldsRow
      <3>2. req'[p].call = req[p].call /\ req'[p].dev = req[p].dev
        BY <2>2 DEF Goto, Request
      <3>3. \A c \in Calls : room'[c].members = room[c].members
        BY <2>2, AddEndpointMembers
      <3> QED
        BY <1>29, <2>2, <3>1, <3>2, <3>3, <1>0, RowMove DEF JoinEndpoint, Goto
    <2> QED
      BY <1>29, <2>1, <2>2 DEF JoinEndpoint
  <1>30. ASSUME NEW p \in Procs, JoinMember(p)
        PROVE  RowInv'
    <2>1. rows'[req[p].call][req[p].dev] # "none"
      BY <1>30 DEF JoinMember, RowInv, RowsStay, HoldsRow
    <2>2. ASSUME NEW c \in Calls, NEW d \in room'[c].members, d \notin room[c].members
          PROVE  c = req[p].call /\ d = req[p].dev
      <3>1. CASE UNCHANGED room
        BY <2>2, <3>1
      <3>2. CASE room' = [room EXCEPT ![req[p].call].members = @ \cup {req[p].dev}]
        BY <2>2, <3>2, SetMembersMembers
      <3> QED
        BY <1>30, <3>1, <3>2 DEF JoinMember
    <2>3. ~HoldsRow(p)'
      BY <1>30 DEF JoinMember, Done, Idle, HoldsRow
    <2> QED
      BY <1>30, <2>1, <2>2, <2>3, <1>0, RowMove DEF JoinMember, Done
  <1> QED
    BY <1>5, <1>6, <1>7, <1>8, <1>9, <1>10, <1>11, <1>12, <1>13, <1>14, <1>15, <1>16,
       <1>17, <1>18, <1>19, <1>20, <1>21, <1>22, <1>23, <1>24, <1>25, <1>26, <1>27,
       <1>28, <1>29, <1>30
       DEF Next, Arrive, Continue, RingTimeout, Cleanup, Fault

\* An answered call stays answered, and only of an answered call does the history
\* say that it was completed.
LEMMA AnswerStep == TypeOK /\ AnswerInv /\ AnswersFollowRinging /\ [Next]_vars
                    => AnswerInv'
  <1> SUFFICES ASSUME TypeOK, AnswerInv, AnswersFollowRinging, [Next]_vars
               PROVE  AnswerInv'
    OBVIOUS
  <1> USE DEF AnswerInv
  <1>1. RowsKept /\ CallsKept /\ TimersKept /\ JobKept /\ TimelineKept
    BY KeepStep DEF Kept
  <1>2. \A q \in Procs : RequestKept(q)
    BY RequestStep DEF RequestsKept
  <1>3. ASSUME NEW c \in Calls, status[c] # "absent", Answered(c)
        PROVE  Answered(c)'
    BY <1>1, <1>3 DEF RowsKept, CallsKept, Answered
  <1>4. OnlyExistingCalls'
    <2>1. ASSUME NEW p \in Procs, req'[p].call \in Calls
          PROVE  status'[req'[p].call] # "absent"
      BY <1>1, <1>2, <2>1 DEF RequestKept, CallsKept, OnlyExistingCalls
    <2>2. ASSUME NEW c \in Calls,
                 \/ timer'[c] # "off"
                 \/ timeline'[c] # {}
                 \/ c \in cleaner'.ringing \cup cleaner'.abandoned
          PROVE  status'[c] # "absent"
      BY <1>1, <2>2 DEF CallsKept, TimersKept, JobKept, TimelineKept, OnlyExistingCalls
    <2> QED
      BY <2>1, <2>2 DEF OnlyExistingCalls
  <1>5. CompletedWasAnswered'
    BY <1>1, <1>3 DEF TimelineKept, CompletedWasAnswered, OnlyExistingCalls
  <1>6. AnswersStay'
    BY <1>2, <1>3 DEF RequestKept, AnswersStay, OnlyExistingCalls
  <1> QED
    BY <1>4, <1>5, <1>6

-----------------------------------------------------------------------------
(* The inductive invariant and what it is for.                             *)

\* Every step keeps the inductive invariant.
LEMMA IInvStep == IInv /\ [Next]_vars => IInv'
  BY TypeStep, ReasonStep, RowStep, AnswerStep, RequestStep, AdmittedStep
     DEF IInv, RequestsKept

\* The inductive invariant holds in every reachable state.
THEOREM Inductive == Spec => []IInv
  <1>1. Init => TypeOK
    BY MaxFaultsAssumption, IdleType
       DEF Init, TypeOK, Statuses, Reasons, RowState, Notes, Room, NoRoom, Cleaner, NoJob
  <1>2. Init => ReasonInv /\ RowInv /\ AnswersFollowRinging /\ AdmittedAlive
    BY DEF Init, ReasonInv, EndedHasReason, ReasonsStay, RowInv, RoomMembersHaveRows,
           RowsStay, HoldsRow, AnswersFollowRinging, AdmittedAlive, Admitted, At, Idle,
           NoRoom
  <1>3. Init => AnswerInv
    BY NoCallAssumption
       DEF Init, AnswerInv, OnlyExistingCalls, CompletedWasAnswered, AnswersStay, Idle, NoJob
  <1>4. Init => IInv
    BY <1>1, <1>2, <1>3 DEF IInv
  <1> QED
    BY <1>4, IInvStep, PTL DEF Spec

\* Whoever ends a call, and from however stale a read, the call says why it ended.
THEOREM EndedCallsSayWhy == Spec => []EndedHasReason
  <1>1. IInv => EndedHasReason
    BY DEF IInv, ReasonInv
  <1> QED
    BY <1>1, Inductive, PTL

\* A room never holds a device that the participant list does not name.
THEOREM RoomsAreListed == Spec => []RoomMembersHaveRows
  <1>1. IInv => RoomMembersHaveRows
    BY DEF IInv, RowInv
  <1> QED
    BY <1>1, Inductive, PTL

\* The history reports a call as completed only if a second device was in it.
THEOREM CompletedCallsWereAnswered == Spec => []CompletedWasAnswered
  <1>1. IInv => CompletedWasAnswered
    BY DEF IInv, AnswerInv
  <1> QED
    BY <1>1, Inductive, PTL

-----------------------------------------------------------------------------
(* What a step of the server does to the life of a call: CallSession       *)
(* implements CallLifecycle, and late requests are refused.                *)

\* How the status of a call may change.
StatusMoves(c) ==
    \/ status'[c] = status[c]
    \/ status[c] = "absent" /\ status'[c] = "ringing"
    \/ status[c] # "absent" /\ status'[c] = "ended"
    \/ status[c] # "absent" /\ status'[c] = "active" /\ Accepting(c)

\* The room of a call gets no newcomer, and its rows none that is joined.
RoomShrinks(c) ==
    /\ room'[c].up => room[c].up
    /\ room'[c].members \subseteq room[c].members
    /\ room'[c].endpoints \subseteq room[c].endpoints
RowsShrink(c) == \A d \in Devices : rows'[c][d] = "joined" => rows[c][d] = "joined"

\* Every step moves the status of a call as StatusMoves says.
LEMMA StatusStep == IInv /\ [Next]_vars
                 => \A k \in Calls : StatusMoves(k)
  <1> SUFFICES ASSUME IInv, [Next]_vars
               PROVE  \A k \in Calls : StatusMoves(k)
    OBVIOUS
  <1> USE DEF IInv, TypeOK, AnswerInv, OnlyExistingCalls, AnswersFollowRinging,
             StatusMoves, callRow
  <1>1. ASSUME NEW p \in Procs, NEW c \in Calls,
               LookLoad(p, c) \/ AcceptLoad(p, c) \/ DeclineLoad(p, c) \/ EndLoad(p, c)
        PROVE  \A k \in Calls : StatusMoves(k)
    BY <1>1 DEF LookLoad, AcceptLoad, DeclineLoad, EndLoad
  <1>2. ASSUME NEW p \in Procs, NEW c \in Calls, NEW d \in Devices,
               \/ StartFindsLive(p, c, d) \/ JoinLoad(p, c, d)
               \/ LeaveLoad(p, c, d) \/ ProvisionLoad(p, c, d)
        PROVE  \A k \in Calls : StatusMoves(k)
    BY <1>2 DEF StartFindsLive, LiveCalls, JoinLoad, LeaveLoad, ProvisionLoad
  <1>3. ASSUME NEW p \in Procs, NEW d \in Devices, StartFindsNone(p, d)
        PROVE  \A k \in Calls : StatusMoves(k)
    BY <1>3 DEF StartFindsNone
  <1>4. ASSUME NEW p \in Procs, NEW c \in Calls, StartInsert(p, c)
        PROVE  \A k \in Calls : StatusMoves(k)
    BY <1>4 DEF StartInsert
  <1>5. ASSUME NEW p \in Procs, AcceptWrite(p)
        PROVE  \A k \in Calls : StatusMoves(k)
    BY <1>5, Addressed DEF AcceptWrite, Written, Accepting, Touches, At, CallSteps
  <1>6. ASSUME NEW p \in Procs, DeclineWrite(p) \/ EndWrite(p)
        PROVE  \A k \in Calls : StatusMoves(k)
    BY <1>6, Addressed DEF DeclineWrite, EndWrite, Written, At, CallSteps
  <1>7. ASSUME NEW p \in Procs,
                  MaybeEnsureRoom(p) \/ AcceptRoom(p) \/ JoinRoom(p) \/ JoinRow(p)
               \/ JoinUpsert(p) \/ JoinEndpoint(p) \/ JoinMember(p)
               \/ ProvisionRoom(p) \/ ProvisionEndpoint(p) \/ LeaveRow(p)
               \/ LeaveWrite(p) \/ LeaveEndpoint(p) \/ LeaveMember(p) \/ EndCount(p)
               \/ EndRows(p) \/ EndRoom(p) \/ RequestFails(p)
        PROVE  \A k \in Calls : StatusMoves(k)
    BY <1>7 DEF MaybeEnsureRoom, AcceptRoom, JoinRoom, JoinRow, JoinUpsert, JoinEndpoint,
       JoinMember,
         ProvisionRoom, ProvisionEndpoint, LeaveRow, LeaveWrite, LeaveEndpoint,
         LeaveMember, EndCount, EndRows, EndRoom, RequestFails
  <1>8. ASSUME NEW c \in Calls, RingTimeoutWrite(c)
        PROVE  \A k \in Calls : StatusMoves(k)
    BY <1>8 DEF RingTimeoutWrite
  <1>9. ASSUME NEW c \in Calls,
               RingTimeoutLoad(c) \/ AgeCall(c) \/ RoomCrash(c) \/ RingTimeoutFails(c)
                 \/ (\E d \in Devices : AgeRow(c, d))
        PROVE  \A k \in Calls : StatusMoves(k)
    BY <1>9 DEF RingTimeoutLoad, AgeCall, RoomCrash, RingTimeoutFails, AgeRow
  <1>10. CASE EndRinging \/ EndAbandoned
    BY <1>10 DEF EndRinging, EndAbandoned, EndSelected
  <1>11. CASE CleanRows \/ SelectRinging \/ SelectAbandoned \/ MarkLeft \/ CleanupFails
            \/ ServerRestart \/ UNCHANGED vars
    BY <1>11 DEF CleanRows, SelectRinging, SelectAbandoned, MarkLeft, CleanupFails,
       ServerRestart,
         vars
  <1> QED
    BY <1>1, <1>2, <1>3, <1>4, <1>5, <1>6, <1>7, <1>8, <1>9, <1>10, <1>11
       DEF Next, Arrive, Continue, RingTimeout, Cleanup, Fault

-----------------------------------------------------------------------------
(* CallSession implements CallLifecycle.                                   *)

\* The detailed steps are steps of the abstract lifecycle, or none.
LEMMA LifecycleStep == IInv /\ [Next]_vars => [Lifecycle!Next]_phase
  <1> SUFFICES ASSUME IInv, [Next]_vars PROVE Lifecycle!Next
    OBVIOUS
  <1>1. TypeOK /\ TypeOK'
    BY TypeStep DEF IInv
  <1>2. ASSUME NEW c \in Calls
        PROVE  phase'[c] = phase[c] \/ <<phase[c], phase'[c]>> \in Lifecycle!Moves
    <2>1. StatusMoves(c) /\ AcceptingKept(c) /\ status[c] \in Statuses
      BY <1>1, StatusStep, RequestStep DEF IInv, TypeOK, RequestsKept
    <2>2. /\ phase[c] = IF status[c] = "ended" /\ ~Accepting(c) THEN "closed" ELSE status[c]
          /\ phase'[c] = IF status'[c] = "ended" /\ ~Accepting(c)' THEN "closed" ELSE status'[c]
      BY DEF phase
    <2> QED
      BY <2>1, <2>2 DEF StatusMoves, AcceptingKept, Statuses, Lifecycle!Moves
  <1>3. phase' \in [Calls -> Lifecycle!Phases]
    BY <1>1 DEF phase, TypeOK, Statuses, Lifecycle!Phases
  <1> QED
    BY <1>2, <1>3 DEF Lifecycle!Next

\* The server implements the abstract lifecycle.
THEOREM ImplementsLifecycle == Spec => LifecycleSpec
  <1>1. Init => Lifecycle!Init
    BY DEF Init, Lifecycle!Init, phase
  <1> QED
    BY <1>1, LifecycleStep, Inductive, PTL DEF Spec, LifecycleSpec, Lifecycle!Spec

-----------------------------------------------------------------------------
(* A call that only late requests hold stays over.                         *)

\* What the requests that hold a call may still do to it.
May(c, x) == \E p \in Procs : Touches(p, c) /\ x \in Risk(req[p])

\* What a request's place in its handler says of what it may do.
LEMMA RiskOf == ASSUME NEW r
                PROVE  /\ Risk(r) \subseteq Risks
                       /\ Revival \in Risk(r) <=> r.at = "accept_write"
                       /\ Boot \in Risk(r) <=> Boots(r)
                       /\ \A d \in Devices : /\ <<"row", d>> \in Risk(r) <=> r.dev = d /\ Joins(r)
                                             /\ <<"room", d>> \in Risk(r) <=> r.dev = d /\ Enters(r)
  <1>1. Revival # Boot
    BY DEF Revival, Boot
  <1>2. ASSUME NEW d, NEW e
        PROVE  /\ <<"row", d>> # Revival /\ <<"row", d>> # Boot
               /\ <<"room", d>> # Revival /\ <<"room", d>> # Boot
               /\ <<"row", d>> # <<"room", e>>
               /\ <<"row", d>> = <<"row", e>> <=> d = e
               /\ <<"room", d>> = <<"room", e>> <=> d = e
    BY DEF Revival, Boot
  <1>3. \A d \in Devices : <<"row", d>> \in Risks /\ <<"room", d>> \in Risks
    BY DEF Risks
  <1>4. Revival \in Risks /\ Boot \in Risks
    BY DEF Risks
  <1>5. \A x : x \in Risk(r) <=> /\ x \in Risks
                                 /\ \/ x = Revival /\ r.at = "accept_write"
                                    \/ x = Boot /\ Boots(r)
                                    \/ x = <<"row", r.dev>> /\ Joins(r)
                                    \/ x = <<"room", r.dev>> /\ Enters(r)
    BY DEF Risk
  <1>6. Risk(r) \subseteq Risks
    BY <1>5
  <1>7. (Revival \in Risk(r) <=> r.at = "accept_write") /\ (Boot \in Risk(r) <=> Boots(r))
    BY <1>1, <1>2, <1>4, <1>5
  <1>8. ASSUME NEW d \in Devices
        PROVE  /\ <<"row", d>> \in Risk(r) <=> r.dev = d /\ Joins(r)
               /\ <<"room", d>> \in Risk(r) <=> r.dev = d /\ Enters(r)
    <2>1. /\ <<"row", d>> # Revival /\ <<"row", d>> # Boot /\ <<"row", d>> # <<"room", r.dev>>
          /\ <<"room", d>> # Revival /\ <<"room", d>> # Boot /\ <<"room", d>> # <<"row", r.dev>>
          /\ <<"row", d>> = <<"row", r.dev>> <=> r.dev = d
          /\ <<"room", d>> = <<"room", r.dev>> <=> r.dev = d
      BY <1>2
    <2> QED
      BY <1>3, <1>5, <2>1
  <1> QED
    BY <1>6, <1>7, <1>8

\* Rows get joined, rooms booted and entered by requests that may do so, and by nothing else.
RowsBy(c) ==
    \A d \in Devices : rows'[c][d] = "joined" =>
        rows[c][d] = "joined" \/ \E p \in Procs : Touches(p, c) /\ req[p].dev = d /\ Joins(req[p])
RoomBy(c) ==
    /\ room'[c].up => room[c].up \/ \E p \in Procs : Touches(p, c) /\ Boots(req[p])
    /\ \A d \in Devices :
          /\ d \in room'[c].members => \/ d \in room[c].members
                                      \/ \E p \in Procs : Touches(p, c) /\ req[p].dev = d /\ Enters(req[p])
          /\ d \in room'[c].endpoints => \/ d \in room[c].endpoints
                                        \/ \E p \in Procs : Touches(p, c) /\ req[p].dev = d /\ Enters(req[p])
Newcomers == \A c \in Calls : RowsBy(c) /\ RoomBy(c)

\* Every step keeps out whoever no request takes in.
LEMMA NewcomerStep == TypeOK /\ [Next]_vars => Newcomers
  <1> SUFFICES ASSUME TypeOK, [Next]_vars PROVE Newcomers
    OBVIOUS
  <1> USE DEF TypeOK, At, Touches, Newcomers, RowsBy, RoomBy, callRow
  <1>1. ASSUME UNCHANGED <<rows, room>> PROVE Newcomers
    BY <1>1
  <1>2. ASSUME NEW p \in Procs, NEW c \in Calls,
               LookLoad(p, c) \/ AcceptLoad(p, c) \/ DeclineLoad(p, c) \/ EndLoad(p, c)
        PROVE  Newcomers
    BY <1>1, <1>2 DEF LookLoad, AcceptLoad, DeclineLoad, EndLoad
  <1>3. ASSUME NEW p \in Procs, NEW c \in Calls, NEW d \in Devices,
               \/ StartFindsLive(p, c, d) \/ JoinLoad(p, c, d)
               \/ LeaveLoad(p, c, d) \/ ProvisionLoad(p, c, d)
        PROVE  Newcomers
    BY <1>1, <1>3 DEF StartFindsLive, JoinLoad, LeaveLoad, ProvisionLoad
  <1>4. ASSUME NEW p \in Procs, NEW d \in Devices, StartFindsNone(p, d)
        PROVE  Newcomers
    BY <1>1, <1>4 DEF StartFindsNone
  <1>5. ASSUME NEW p \in Procs, NEW c \in Calls, StartInsert(p, c)
        PROVE  Newcomers
    BY <1>1, <1>5 DEF StartInsert
  <1>6. ASSUME NEW p \in Procs,
                  AcceptWrite(p) \/ DeclineWrite(p) \/ JoinRow(p) \/ LeaveRow(p)
               \/ EndCount(p) \/ EndWrite(p) \/ RequestFails(p)
        PROVE  Newcomers
    BY <1>1, <1>6
       DEF AcceptWrite, DeclineWrite, JoinRow, LeaveRow, EndCount, EndWrite, RequestFails
  <1>7. ASSUME NEW p \in Procs,
               MaybeEnsureRoom(p) \/ AcceptRoom(p) \/ JoinRoom(p) \/ ProvisionRoom(p)
        PROVE  Newcomers
    <2>1. UNCHANGED <<rows, room>> \/ (EnsureRoom(req[p].call) /\ Boots(req[p]) /\ UNCHANGED rows)
      BY <1>7 DEF MaybeEnsureRoom, AcceptRoom, JoinRoom, ProvisionRoom, Boots
    <2>2. ASSUME EnsureRoom(req[p].call), Boots(req[p]), UNCHANGED rows PROVE Newcomers
      BY <2>2 DEF EnsureRoom
    <2> QED
      BY <1>1, <2>1, <2>2
  <1>8. ASSUME NEW p \in Procs, JoinEndpoint(p) \/ ProvisionEndpoint(p)
        PROVE  Newcomers
    <2>1. Enters(req[p]) /\ UNCHANGED rows
          /\ (UNCHANGED room \/ AddEndpoint(req[p].call, req[p].dev))
      BY <1>8 DEF JoinEndpoint, ProvisionEndpoint, Enters
    <2>2. ASSUME NEW k \in Calls, room' # room
          PROVE  /\ room'[k].up = room[k].up /\ room'[k].members = room[k].members
                 /\ room'[k].endpoints # room[k].endpoints =>
                       k = req[p].call /\ room'[k].endpoints = room[k].endpoints \cup {req[p].dev}
      <3>1. room' = [room EXCEPT ![req[p].call].endpoints = @ \cup {req[p].dev}]
        BY <2>1, <2>2 DEF AddEndpoint
      <3> QED
        BY <3>1 DEF Room
    <2> QED
      BY <2>1, <2>2
  <1>9. ASSUME NEW p \in Procs, JoinMember(p)
        PROVE  Newcomers
    <2>1. Enters(req[p]) /\ UNCHANGED rows
      BY <1>9 DEF JoinMember, Enters
    <2>2. ASSUME NEW k \in Calls, room' # room
          PROVE  /\ room'[k].up = room[k].up /\ room'[k].endpoints = room[k].endpoints
                 /\ room'[k].members # room[k].members =>
                       k = req[p].call /\ room'[k].members = room[k].members \cup {req[p].dev}
      <3>1. room' = [room EXCEPT ![req[p].call].members = @ \cup {req[p].dev}]
        BY <1>9, <2>2 DEF JoinMember
      <3> QED
        BY <3>1 DEF Room
    <2>3. CASE room' = room
      BY <2>1, <2>3
    <2>4. ASSUME room' # room, NEW k \in Calls PROVE RowsBy(k) /\ RoomBy(k)
      BY <2>1, <2>2, <2>4
    <2> QED
      BY <2>3, <2>4
  <1>10. ASSUME NEW p \in Procs, LeaveMember(p) \/ LeaveEndpoint(p)
         PROVE  Newcomers
    <2>1. \/ room' = room
          \/ room' = [room EXCEPT ![req[p].call].members = @ \ {req[p].dev}]
          \/ room' = [room EXCEPT ![req[p].call].endpoints = @ \ {req[p].dev}]
      BY <1>10 DEF LeaveMember, LeaveEndpoint
    <2>2. ASSUME NEW k \in Calls
          PROVE  /\ room'[k].up = room[k].up
                 /\ room'[k].members \subseteq room[k].members
                 /\ room'[k].endpoints \subseteq room[k].endpoints
      <3>1. CASE room' = room
        BY <3>1
      <3>2. CASE room' = [room EXCEPT ![req[p].call].members = @ \ {req[p].dev}]
        BY <3>2 DEF Room
      <3>3. CASE room' = [room EXCEPT ![req[p].call].endpoints = @ \ {req[p].dev}]
        BY <3>3 DEF Room
      <3> QED
        BY <2>1, <3>1, <3>2, <3>3
    <2>3. UNCHANGED rows
      BY <1>10 DEF LeaveMember, LeaveEndpoint
    <2> QED
      BY <2>2, <2>3
  <1>11. ASSUME NEW p \in Procs, EndRoom(p)
         PROVE  Newcomers
    BY <1>11 DEF EndRoom, NoRoom
  <1>12. ASSUME NEW p \in Procs, JoinUpsert(p)
         PROVE  Newcomers
    <2>1. Joins(req[p])
      BY <1>12 DEF JoinUpsert, Joins
    <2>2. UNCHANGED room /\ \A k \in Calls, d \in Devices :
             k # req[p].call \/ d # req[p].dev => rows'[k][d] = rows[k][d]
      BY <1>12 DEF JoinUpsert
    <2> QED
      BY <2>1, <2>2
  <1>13. ASSUME NEW p \in Procs, LeaveWrite(p) \/ EndRows(p)
         PROVE  Newcomers
    <2>1. UNCHANGED room
      BY <1>13 DEF LeaveWrite, EndRows
    <2>2. ASSUME NEW k \in Calls PROVE RowsBy(k)
      <3>1. CASE LeaveWrite(p)
        BY <3>1 DEF LeaveWrite, Written
      <3>2. CASE EndRows(p)
        BY <3>2 DEF EndRows, AllLeft
      <3> QED
        BY <1>13, <3>1, <3>2
    <2> QED
      BY <2>1, <2>2
  <1>14. ASSUME NEW c \in Calls, RoomCrash(c)
         PROVE  Newcomers
    BY <1>14 DEF RoomCrash, Room
  <1>15. ASSUME NEW c \in Calls,
                \/ RingTimeoutLoad(c) \/ RingTimeoutWrite(c) \/ AgeCall(c)
                \/ RingTimeoutFails(c) \/ \E d \in Devices : AgeRow(c, d)
         PROVE  Newcomers
    BY <1>1, <1>15 DEF RingTimeoutLoad, RingTimeoutWrite, AgeCall, RingTimeoutFails, AgeRow
  <1>16. CASE CleanRows \/ MarkLeft
    <2>1. UNCHANGED room
      BY <1>16 DEF CleanRows, MarkLeft
    <2>2. ASSUME NEW k \in Calls PROVE RowsBy(k)
      BY <1>16 DEF CleanRows, MarkLeft, AllLeft
    <2> QED
      BY <2>1, <2>2
  <1>17. CASE SelectRinging \/ SelectAbandoned \/ EndRinging \/ EndAbandoned \/ CleanupFails
            \/ UNCHANGED vars
    BY <1>1, <1>17
       DEF SelectRinging, SelectAbandoned, EndRinging, EndAbandoned, CleanupFails, vars
  <1>18. CASE ServerRestart
    BY <1>18 DEF ServerRestart, NoRoom
  <1> QED
    BY <1>2, <1>3, <1>4, <1>5, <1>6, <1>7, <1>8, <1>9, <1>10, <1>11, <1>12, <1>13, <1>14,
       <1>15, <1>16, <1>17, <1>18
       DEF Next, Arrive, Continue, RingTimeout, Cleanup, Fault

\* A call that no admitted request holds takes nobody in.
NoNewcomer(c) == \A p \in Procs : Touches(p, c) => req[p].at \notin Admitted

\* Neither the room nor the joined rows of such a call grow in a step.
LEMMA ShrinkStep == ASSUME TypeOK, TypeOK', [Next]_vars, NEW c \in Calls, NoNewcomer(c),
                           ~Accepting(c)
                    PROVE  RoomShrinks(c) /\ RowsShrink(c)
  <1>1. \A p \in Procs : Touches(p, c) => ~Boots(req[p]) /\ ~Joins(req[p]) /\ ~Enters(req[p])
    BY DEF NoNewcomer, Accepting, Admitted, Boots, Joins, Enters, At
  <1>2. RowsBy(c) /\ RoomBy(c)
    BY NewcomerStep DEF Newcomers
  <1>3. room'[c].members \subseteq Devices /\ room'[c].endpoints \subseteq Devices
    BY DEF TypeOK, Room
  <1> QED
    BY <1>1, <1>2, <1>3 DEF RowsBy, RoomBy, RowsShrink, RoomShrinks

\* Nothing brings an ended call back that only late requests hold.
LEMMA LateStep == IInv /\ [Next]_vars => \A c \in Calls : Late(c) => StaysOver(c)
  <1> SUFFICES ASSUME IInv, [Next]_vars, NEW c \in Calls, Late(c) PROVE StaysOver(c)
    OBVIOUS
  <1>1. ~Accepting(c)
    BY DEF IInv, AnswersFollowRinging, Late, Accepting
  <1>2. RoomShrinks(c) /\ RowsShrink(c)
    <2>1. NoNewcomer(c)
      BY DEF IInv, AdmittedAlive, Late, NoNewcomer
    <2> QED
      BY <1>1, <2>1, ShrinkStep, TypeStep DEF IInv
  <1>3. status'[c] = "ended"
    BY <1>1, StatusStep DEF StatusMoves, Late
  <1> QED
    BY <1>2, <1>3 DEF StaysOver, RoomShrinks, RowsShrink

\* Late requests cannot revive an ended call, boot its room or get into it.
THEOREM LateRequestsAreRefused == Spec => LateRequestsRefused
  <1>1. IInv /\ [Next]_vars => [\A c \in Calls : Late(c) => StaysOver(c)]_vars
    BY LateStep
  <1> QED
    BY <1>1, Inductive, PTL DEF Spec, LateRequestsRefused
-----------------------------------------------------------------------------
(* What a hang-up leaves behind.                                           *)

\* A request goes on with less and less that it may do, or is taken up anew and has read
\* the call as it is; it gets past a commit of end_call by that commit only.
Onward(r, s) ==
    /\ s.call = r.call /\ s.seen = r.seen /\ s.dev = r.dev
    /\ s.at = "accept_write" => r.at = "accept_write"
    /\ Boots(s) => Boots(r)
    /\ Joins(s) => Joins(r)
    /\ Enters(s) => Enters(r)
    /\ s.at \in Ending => r.at \in Ending
Anew(q) == status' = status /\ req'[q].seen = status[req'[q].call]
ReadKept(q) == req'[q].call \in Calls => Anew(q) \/ Onward(req[q], req'[q])
EndKept(q) ==
    /\ req'[q].at = "end_rows" => req'[q] = req[q] \/ EndWrite(q)
    /\ req'[q].at = "end_room" => req'[q] = req[q] \/ EndRows(q)
\* Only the last step of end_call tells the chat that the call is over.
HungUpKept(c) ==
    HungUp(c)' => HungUp(c) \/ \E p \in Procs : EndRoom(p) /\ req[p].call = c
HangupKept == (\A q \in Procs : ReadKept(q) /\ EndKept(q)) /\ (\A c \in Calls : HungUpKept(c))

\* Every step keeps what requests read, and end_call takes its steps in order.
LEMMA HangupMoves == TypeOK /\ [Next]_vars => HangupKept
  <1> SUFFICES ASSUME TypeOK, [Next]_vars PROVE HangupKept
    OBVIOUS
  <1> USE DEF TypeOK, HangupKept, ReadKept, EndKept, HungUpKept, HungUp, At, callRow
  <1>0. \A r : Onward(r, r)
    BY DEF Onward
  <1>1. ASSUME NEW p \in Procs, NEW c \in Calls, NEW d, NEW step, Load(p, c, d, step),
               status' = status, timeline' = timeline, step \notin {"end_rows", "end_room"}
        PROVE  HangupKept
    BY <1>0, <1>1 DEF Load, Idle, Anew
  <1>2. ASSUME NEW p \in Procs, Done(p), timeline' = timeline
        PROVE  HangupKept
    BY <1>0, <1>2, NoCallAssumption DEF Done, Idle
  <1>3. ASSUME NEW p \in Procs, NEW step, Goto(p, step) \/ ReadRow(p, step),
               Onward(req[p], req'[p]),
               timeline' = timeline, step \notin {"end_rows", "end_room"}
        PROVE  HangupKept
    BY <1>0, <1>3 DEF Goto, ReadRow, Request
  <1>4. CASE UNCHANGED <<req, timeline>>
    BY <1>0, <1>4
  <1>5. ASSUME NEW p \in Procs, NEW c \in Calls,
               LookLoad(p, c) \/ AcceptLoad(p, c) \/ DeclineLoad(p, c) \/ EndLoad(p, c)
        PROVE  HangupKept
    BY <1>5, <1>1 DEF LookLoad, AcceptLoad, DeclineLoad, EndLoad
  <1>6. ASSUME NEW p \in Procs, NEW c \in Calls, NEW d \in Devices,
               \/ StartFindsLive(p, c, d) \/ JoinLoad(p, c, d)
               \/ LeaveLoad(p, c, d) \/ ProvisionLoad(p, c, d)
        PROVE  HangupKept
    BY <1>6, <1>1 DEF StartFindsLive, JoinLoad, LeaveLoad, ProvisionLoad
  <1>7. ASSUME NEW p \in Procs, NEW d \in Devices, StartFindsNone(p, d)
        PROVE  HangupKept
    BY <1>0, <1>7
       DEF StartFindsNone, Request, Onward, Boots, Joins, Enters, Ending
  <1>8. ASSUME NEW p \in Procs, NEW c \in Calls, StartInsert(p, c)
        PROVE  HangupKept
    BY <1>8, <1>2 DEF StartInsert
  <1>9. ASSUME NEW p \in Procs, EndCount(p)
        PROVE  HangupKept
    <2>1. Onward(req[p], req'[p]) /\ req'[p].at = "end_write"
      BY <1>9 DEF EndCount, Request, Onward, Boots, Joins, Enters, Ending
    <2> QED
      BY <1>0, <1>9, <2>1 DEF EndCount
  <1>10. ASSUME NEW p \in Procs, EndWrite(p) \/ EndRows(p)
         PROVE  HangupKept
    <2>1. Onward(req[p], req'[p])
      BY <1>10 DEF EndWrite, EndRows, Goto, Request, Onward, Boots, Joins, Enters, Ending
    <2> QED
      BY <1>0, <1>10, <2>1 DEF EndWrite, EndRows, Goto, Request
  <1>11. ASSUME NEW p \in Procs, EndRoom(p)
         PROVE  HangupKept
    BY <1>0, <1>11, NoCallAssumption DEF EndRoom, Done, Idle, Note
  <1>12. ASSUME NEW p \in Procs, AcceptRoom(p)
         PROVE  HangupKept
    BY <1>0, <1>12, NoCallAssumption DEF AcceptRoom, Done, Idle, Note
  <1>13. ASSUME NEW p \in Procs, DeclineWrite(p)
         PROVE  HangupKept
    <2>1. req'[p].call \notin Calls /\ req'[p].at = "idle"
          /\ \A q \in Procs \ {p} : req'[q] = req[q]
      BY <1>13, NoCallAssumption DEF DeclineWrite, Done, Idle
    <2>2. \A c \in Calls : HungUpKept(c)
      BY <1>13 DEF DeclineWrite, Note
    <2> QED
      BY <1>0, <2>1, <2>2
  <1>14. ASSUME NEW p \in Procs,
                MaybeEnsureRoom(p) \/ ProvisionEndpoint(p) \/ JoinMember(p) \/ LeaveMember(p)
                \/ RequestFails(p)
         PROVE  HangupKept
    BY <1>14, <1>2
       DEF MaybeEnsureRoom, ProvisionEndpoint, JoinMember, LeaveMember, RequestFails
  <1>15. ASSUME NEW p \in Procs, AcceptWrite(p) \/ JoinRoom(p) \/ ProvisionRoom(p)
         PROVE  HangupKept
    <2>1. timeline' = timeline
      BY <1>15 DEF AcceptWrite, JoinRoom, ProvisionRoom
    <2>2. \/ At(p, "accept_write") /\ Goto(p, "accept_room")
          \/ At(p, "join_room") /\ Goto(p, "join_row")
          \/ At(p, "provision_room") /\ Goto(p, "provision_endpoint")
      BY <1>15 DEF AcceptWrite, JoinRoom, ProvisionRoom
    <2>3. Onward(req[p], req'[p])
      BY <2>2 DEF Goto, Request, Onward, Boots, Joins, Enters, Ending
    <2>4. ASSUME NEW step \in {"accept_room", "join_row", "provision_endpoint"}, Goto(p, step)
          PROVE  HangupKept
      BY <2>1, <2>3, <2>4, <1>3
    <2> QED
      BY <2>2, <2>4
  <1>16. ASSUME NEW p \in Procs, JoinRow(p) \/ LeaveRow(p)
         PROVE  HangupKept
    <2>1. timeline' = timeline
      BY <1>16 DEF JoinRow, LeaveRow
    <2>2. \/ Done(p)
          \/ At(p, "join_row") /\ ReadRow(p, "join_upsert")
          \/ At(p, "leave_row") /\ ReadRow(p, "leave_write")
      BY <1>16 DEF JoinRow, LeaveRow
    <2>3. ASSUME ~Done(p) PROVE Onward(req[p], req'[p])
      BY <2>2, <2>3 DEF ReadRow, Request, Onward, Boots, Joins, Enters, Ending
    <2> QED
      BY <2>1, <2>2, <2>3, <1>2, <1>3
  <1>17. ASSUME NEW p \in Procs,
                JoinUpsert(p) \/ JoinEndpoint(p) \/ LeaveWrite(p) \/ LeaveEndpoint(p)
         PROVE  HangupKept
    <2>1. timeline' = timeline
      BY <1>17 DEF JoinUpsert, JoinEndpoint, LeaveWrite, LeaveEndpoint
    <2>2. \/ Done(p)
          \/ At(p, "join_upsert") /\ Goto(p, "join_endpoint")
          \/ At(p, "join_endpoint") /\ Goto(p, "join_member")
          \/ At(p, "leave_write") /\ Goto(p, "leave_endpoint")
          \/ At(p, "leave_endpoint") /\ Goto(p, "leave_member")
      BY <1>17 DEF JoinUpsert, JoinEndpoint, LeaveWrite, LeaveEndpoint
    <2>3. ASSUME ~Done(p) PROVE Onward(req[p], req'[p])
      BY <2>2, <2>3 DEF Goto, Request, Onward, Boots, Joins, Enters, Ending
    <2>4. ASSUME NEW step \in {"join_endpoint", "join_member", "leave_endpoint", "leave_member"},
                 Goto(p, step), ~Done(p)
          PROVE  HangupKept
      BY <2>1, <2>3, <2>4, <1>3
    <2>5. CASE Done(p)
      BY <2>1, <2>5, <1>2
    <2> QED
      BY <2>2, <2>4, <2>5
  <1>18. ASSUME NEW c \in Calls, RingTimeoutWrite(c)
         PROVE  HangupKept
    BY <1>0, <1>18 DEF RingTimeoutWrite, Note
  <1>19. ASSUME NEW c \in Calls,
                \/ RingTimeoutLoad(c) \/ RingTimeoutFails(c) \/ AgeCall(c) \/ RoomCrash(c)
                \/ \E d \in Devices : AgeRow(c, d)
         PROVE  HangupKept
    BY <1>19, <1>4 DEF RingTimeoutLoad, RingTimeoutFails, AgeCall, RoomCrash, AgeRow
  <1>20. CASE \/ CleanRows \/ SelectRinging \/ SelectAbandoned \/ MarkLeft
              \/ EndRinging \/ EndAbandoned \/ CleanupFails \/ UNCHANGED vars
    BY <1>20, <1>4 DEF CleanRows, SelectRinging, SelectAbandoned, MarkLeft, EndRinging,
                       EndAbandoned, CleanupFails, vars
  <1>21. CASE ServerRestart
    BY <1>21, NoCallAssumption DEF ServerRestart, Idle
  <1> QED
    BY <1>5, <1>6, <1>7, <1>8, <1>9, <1>10, <1>11, <1>12, <1>13, <1>14, <1>15, <1>16,
       <1>17, <1>18, <1>19, <1>20, <1>21
       DEF Next, Arrive, Continue, RingTimeout, Cleanup, Fault

\* A request that goes on may do no more than before.
LEMMA RiskKept == ASSUME NEW r, NEW s, Onward(r, s) PROVE Risk(s) \subseteq Risk(r)
  BY DEF Onward, Risk

\* A request that was not admitted to the call may do nothing to it.
LEMMA RefusedIsHarmless == ASSUME NEW r, r.at \notin Admitted, r.at # "accept_write"
                           PROVE  Risk(r) = {}
  <1>1. ~Boots(r) /\ ~Joins(r) /\ ~Enters(r)
    BY DEF Admitted, Boots, Joins, Enters
  <1> QED
    BY <1>1 DEF Risk

\* While a call is being hung up, and after it was, whatever a request may do to it is on
\* record.
LEMMA OnRecord == ASSUME HangupInv, NEW c \in Calls, NEW x, May(c, x),
                         HungUp(c) \/ \E p \in Procs : HangsUp(p, c)
                  PROVE  x \in overlap[c]
  <1>1. PICK q \in Procs : req[q].call = c /\ x \in Risk(req[q])
    BY DEF May, Touches
  <1>2. ASSUME NEW p \in Procs, HangsUp(p, c) PROVE p # q
    <2>1. Risk(req[p]) = {}
      BY <1>2 DEF HangsUp, Ending, Risk, Boots, Joins, Enters
    <2> QED
      BY <1>1, <2>1
  <1> QED
    BY <1>1, <1>2 DEF HangupInv, OverlapsRecorded

\* The record grows, and takes in what the next state shows.
LEMMA RecordGrows == ASSUME OverlapOK, HangupNext
                     PROVE  /\ OverlapOK'
                            /\ \A c \in Calls : /\ overlap[c] \subseteq overlap'[c]
                                                /\ Overlapping(c)' \subseteq overlap'[c]
  <1>1. \A r : Risk(r) \subseteq Risks
    BY RiskOf
  <1>2. \A c \in Calls : Overlapping(c)' \subseteq Risks
    BY <1>1 DEF Overlapping
  <1>3. \A c \in Calls : overlap'[c] = Recorded(overlap[c], Overlapping(c)')
    BY DEF HangupNext
  <1>4. Revival \in Risks
    BY DEF Risks
  <1> QED
    BY <1>2, <1>3, <1>4 DEF HangupNext, OverlapOK, Recorded

\* Whatever a call that is being hung up or was hung up gets, the record has announced.
LEMMA Announced ==
    ASSUME IInv, HangupInv, [Next]_vars, NEW c \in Calls,
           HungUp(c) \/ \E p \in Procs : HangsUp(p, c)
    PROVE  /\ status[c] = "ended" /\ Revival \notin overlap[c] => status'[c] = "ended"
           /\ \A d \in Joined(c)' : d \in Joined(c) \/ <<"row", d>> \in overlap[c]
           /\ room'[c].up => room[c].up \/ Boot \in overlap[c]
           /\ \A d \in (room[c].members \cup room[c].endpoints)' :
                 \/ d \in room[c].members \cup room[c].endpoints
                 \/ <<"room", d>> \in overlap[c]
  <1>1. \A x : May(c, x) => x \in overlap[c]
    BY OnRecord
  <1>2. TypeOK /\ TypeOK'
    BY TypeStep DEF IInv
  <1>3. RowsBy(c) /\ RoomBy(c)
    BY <1>2, NewcomerStep DEF Newcomers
  <1>4. Revival \notin overlap[c] => ~Accepting(c)
    BY <1>1, RiskOf DEF Accepting, May, At, Touches
  <1>5. StatusMoves(c)
    BY StatusStep
  <1>6. ASSUME NEW d \in Devices, NEW p \in Procs, Touches(p, c), req[p].dev = d
        PROVE  /\ Joins(req[p]) => <<"row", d>> \in overlap[c]
               /\ Enters(req[p]) => <<"room", d>> \in overlap[c]
    BY <1>1, <1>6, RiskOf DEF May
  <1>7. ASSUME NEW p \in Procs, Touches(p, c), Boots(req[p]) PROVE Boot \in overlap[c]
    BY <1>1, <1>7, RiskOf DEF May
  <1>8. status[c] = "ended" /\ Revival \notin overlap[c] => status'[c] = "ended"
    BY <1>4, <1>5 DEF StatusMoves
  <1>9. \A d \in Joined(c)' : d \in Joined(c) \/ <<"row", d>> \in overlap[c]
    BY <1>3, <1>6 DEF Joined, RowsBy
  <1>10. room'[c].up => room[c].up \/ Boot \in overlap[c]
    BY <1>3, <1>7 DEF RoomBy
  <1>11. room'[c].members \subseteq Devices /\ room'[c].endpoints \subseteq Devices
    BY <1>2 DEF TypeOK, Room
  <1>12. \A d \in (room[c].members \cup room[c].endpoints)' :
             d \in room[c].members \cup room[c].endpoints \/ <<"room", d>> \in overlap[c]
    BY <1>3, <1>6, <1>11 DEF RoomBy
  <1> QED
    BY <1>8, <1>9, <1>10, <1>12

\* Every step keeps HangupInv.
LEMMA HangupStep == IInv /\ HangupInv /\ [HangupNext]_hangupVars => HangupInv'
  <1> SUFFICES ASSUME IInv, HangupInv, HangupNext PROVE HangupInv'
    <2>1. ASSUME HangupInv, UNCHANGED hangupVars PROVE HangupInv'
      BY <2>1
         DEF hangupVars, vars, callRow, HangupInv, OverlapOK, OverlapsRecorded, EndsInOrder,
             HangupTearsDown, HungUp, HangsUp, Joined, At
    <2> QED
      BY <2>1
  <1>1. [Next]_vars /\ TypeOK /\ IInv'
    BY IInvStep DEF HangupNext, IInv
  <1>2. OverlapOK /\ OverlapsRecorded /\ EndsInOrder /\ HangupTearsDown
    BY DEF HangupInv
  <1>3. OverlapOK' /\ \A c \in Calls : /\ overlap[c] \subseteq overlap'[c]
                                      /\ Overlapping(c)' \subseteq overlap'[c]
    BY <1>2, RecordGrows
  <1>4. (\A q \in Procs : ReadKept(q) /\ EndKept(q)) /\ (\A c \in Calls : HungUpKept(c))
    BY <1>1, HangupMoves DEF HangupKept
  <1>5. OverlapsRecorded'
    <2> SUFFICES ASSUME NEW c \in Calls, NEW q \in Procs, req'[q].call = c,
                        HungUp(c)' \/ \E p \in Procs \ {q} : HangsUp(p, c)'
                 PROVE  Risk(req'[q]) \subseteq overlap'[c]
      BY DEF OverlapsRecorded, HangsUp
    <2>1. CASE \E p \in Procs \ {q} : HangsUp(p, c)'
      BY <1>3, <2>1 DEF Overlapping, HangsUp
    <2>2. CASE HungUp(c)
      <3>1. CASE Onward(req[q], req'[q])
        <4>1. Risk(req[q]) \subseteq overlap[c]
          BY <1>2, <2>2, <3>1 DEF OverlapsRecorded, Onward
        <4> QED
          BY <1>3, <3>1, <4>1, RiskKept
      <3>2. CASE Anew(q)
        <4>1. CASE Revival \in overlap'[c]
          BY <1>3, <4>1, RiskOf DEF OverlapOK
        <4>2. CASE Revival \notin overlap'[c]
          <5>1. req'[q].seen = "ended"
            BY <1>2, <1>3, <2>2, <3>2, <4>2 DEF Anew, HangupTearsDown
          <5>2. req'[q].at \notin Admitted /\ req'[q].at # "accept_write"
            BY <1>1, <5>1 DEF IInv, AdmittedAlive, AnswersFollowRinging, At
          <5> QED
            BY <5>2, RefusedIsHarmless
        <4> QED
          BY <4>1, <4>2
      <3> QED
        BY <1>4, <3>1, <3>2 DEF ReadKept
    <2>3. ASSUME NEW p \in Procs, EndRoom(p), req[p].call = c
          PROVE  Risk(req'[q]) \subseteq overlap'[c]
      <3>1. q # p /\ req'[q] = req[q]
        BY <1>1, <2>3, NoCallAssumption DEF EndRoom, Done, Idle, TypeOK
      <3>2. HangsUp(p, c)
        BY <2>3 DEF EndRoom, At, HangsUp, Ending
      <3>3. Risk(req[q]) \subseteq overlap[c]
        BY <1>2, <3>1, <3>2 DEF OverlapsRecorded
      <3> QED
        BY <1>3, <3>1, <3>3
    <2> QED
      BY <1>4, <2>1, <2>2, <2>3 DEF HungUpKept
  <1>6. EndsInOrder'
    <2> SUFFICES ASSUME NEW c \in Calls, NEW p \in Procs, HangsUp(p, c)'
                 PROVE  /\ \/ req'[p].seen = "ended"
                           \/ req'[p].at \in {"end_rows", "end_room"}
                           => Revival \in overlap'[c] \/ status'[c] = "ended"
                        /\ req'[p].at = "end_room" =>
                              \A d \in Joined(c)' : <<"row", d>> \in overlap'[c]
      BY DEF EndsInOrder, At
    <2>1. CASE req'[p] = req[p]
      <3>1. HangsUp(p, c)
        BY <2>1 DEF HangsUp
      <3> QED
        BY <1>1, <1>2, <1>3, <2>1, <3>1, Announced DEF EndsInOrder, At
    <2>2. CASE EndWrite(p)
      <3>1. HangsUp(p, c) /\ req'[p].at = "end_rows"
        BY <1>1, <2>2 DEF EndWrite, Goto, At, HangsUp, Ending, TypeOK, Request
      <3>2. req[p].seen = "ended" => Revival \in overlap'[c] \/ status[c] = "ended"
        BY <1>2, <1>3, <3>1 DEF EndsInOrder
      <3>3. status'[c] = IF req[p].seen = "ended" THEN status[c] ELSE "ended"
        BY <1>1, <2>2, <3>1 DEF EndWrite, Written, TypeOK, HangsUp
      <3> QED
        BY <3>1, <3>2, <3>3
    <2>3. CASE EndRows(p)
      <3>1. HangsUp(p, c) /\ status' = status
        BY <1>1, <2>3 DEF EndRows, Goto, At, HangsUp, Ending, TypeOK, Request, callRow
      <3>2. Revival \in overlap'[c] \/ status'[c] = "ended"
        BY <1>2, <1>3, <2>3, <3>1 DEF EndsInOrder, EndRows
      <3>3. rows'[c] = AllLeft(rows[c])
        BY <1>1, <2>3, <3>1 DEF EndRows, TypeOK, HangsUp
      <3>4. Joined(c)' = {}
        BY <1>1, <3>3 DEF AllLeft, TypeOK, Joined
      <3> QED
        BY <3>2, <3>4
    <2>4. CASE /\ req'[p].at \notin {"end_rows", "end_room"}
               /\ Onward(req[p], req'[p])
      <3>1. HangsUp(p, c)
        BY <2>4 DEF HangsUp, Onward
      <3> QED
        BY <1>1, <1>2, <1>3, <2>4, <3>1, Announced DEF EndsInOrder, Onward
    <2>5. CASE /\ req'[p].at \notin {"end_rows", "end_room"}
               /\ Anew(p)
      BY <2>5 DEF Anew, HangsUp
    <2> QED
      BY <1>4, <2>1, <2>2, <2>3, <2>4, <2>5 DEF ReadKept, EndKept, HangsUp
  <1>7. HangupTearsDown'
    <2> SUFFICES ASSUME NEW c \in Calls, HungUp(c)'
                 PROVE  /\ Revival \notin overlap'[c] => status'[c] = "ended"
                        /\ \A d \in Joined(c)' : <<"row", d>> \in overlap'[c]
                        /\ room'[c].up => Boot \in overlap'[c]
                        /\ \A d \in (room[c].members \cup room[c].endpoints)' :
                              <<"room", d>> \in overlap'[c]
      BY DEF HangupTearsDown
    <2>1. CASE HungUp(c)
      BY <1>1, <1>2, <1>3, <2>1, Announced DEF HangupTearsDown
    <2>2. ASSUME NEW p \in Procs, EndRoom(p), req[p].call = c
          PROVE  /\ Revival \notin overlap'[c] => status'[c] = "ended"
                 /\ \A d \in Joined(c)' : <<"row", d>> \in overlap'[c]
                 /\ room'[c] = NoRoom
      <3>1. HangsUp(p, c) /\ At(p, "end_room")
        BY <2>2 DEF EndRoom, At, HangsUp, Ending
      <3>2. status' = status /\ Joined(c)' = Joined(c) /\ room'[c] = NoRoom
        BY <1>1, <2>2 DEF EndRoom, TypeOK, callRow, Joined
      <3> QED
        BY <1>2, <1>3, <3>1, <3>2 DEF EndsInOrder
    <2> QED
      BY <1>4, <2>1, <2>2 DEF HungUpKept, NoRoom
  <1> QED
    BY <1>3, <1>5, <1>6, <1>7 DEF HangupInv

\* With any number of requests at a time: a call that was hung up stays over but for what
\* requests that ran beside the hang-up were admitted to do, whatever later requests, the
\* ring timer, the cleanup job and faults do.
THEOREM HangupsAreFinal == HangupSpec => []HangupTearsDown
  <1>1. HangupInit => HangupInv
    BY NoCallAssumption
       DEF HangupInit, Init, HangupInv, OverlapOK, OverlapsRecorded, EndsInOrder,
           HangupTearsDown, HungUp, HangsUp, Idle, Ending
  <1>2. IInv /\ HangupInv /\ [HangupNext]_hangupVars => HangupInv'
    BY HangupStep
  <1>3. HangupInv => HangupTearsDown
    BY DEF HangupInv
  <1>4. HangupInit => Init
    BY DEF HangupInit
  <1>5. [HangupNext]_hangupVars => [Next]_vars
    BY DEF HangupNext, hangupVars, vars
  <1>6. HangupSpec => Spec
    BY <1>4, <1>5, PTL DEF HangupSpec, Spec
  <1> QED
    BY <1>1, <1>2, <1>3, <1>6, Inductive, PTL DEF HangupSpec
=============================================================================
