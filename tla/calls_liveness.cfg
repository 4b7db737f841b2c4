CONSTANTS
    Calls = {c1}
    Devices = {a}
    Procs = {p1}
    NoCall = NoCall
    NoDevice = NoDevice
    Ops = {"start", "accept", "join", "leave", "end", "look", "provision"}
    Background = {"cleanup", "crash"}
    MaxFaults = 1
SPECIFICATION HangupFairSpec
INVARIANTS
    EndedHasReason
    HangupTearsDown
PROPERTIES
    EveryCallEnds
