CONSTANTS
    d1 = d1
    d2 = d2
    m1 = m1
    m2 = m2
    Deliveries = {d1, d2}
    Messages = {m1}
    Payload <- SamePayload
    Known = {m1}
    Handlers = {h1, h2}
    NoDelivery = NoDelivery
    Outcomes = {}
    PeerMoves = {"active"}
    Faults = {"loss", "raise", "receiver"}
    MaxErrors = 3
    MaxFaults = 2
SPECIFICATION FairSpec
CHECK_DEADLOCK FALSE
INVARIANTS JobsAgree
PROPERTIES ExactlyOnceSpec EventuallyDelivered DeliveredIsFinal
