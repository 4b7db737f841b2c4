CONSTANTS
    Calls = {c1}
    Devices = {a, b}
    Procs = {p1, p2}
    NoCall = NoCall
    NoDevice = NoDevice
    Ops = {"start", "accept", "decline", "join", "leave", "end"}
    Background = {}
    MaxFaults = 0
SPECIFICATION HangupSpec
SYMMETRY RaceSymmetry
INVARIANTS
    RoomMembersHaveRows
    CompletedWasAnswered
    HangupTearsDown
PROPERTIES
    LateRequestsRefused
    LifecycleSpec
