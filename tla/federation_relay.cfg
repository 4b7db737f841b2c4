CONSTANTS
    d1 = d1
    d2 = d2
    m1 = m1
    m2 = m2
    Deliveries = {d1, d2}
    Messages = {m1, m2}
    Payload <- OwnPayload
    Known = {m1}
    Handlers = {h1, h2}
    NoDelivery = NoDelivery
    Outcomes = {"failed"}
    PeerMoves = {"disabled", "active"}
    Faults = {"loss", "raise", "sender", "receiver"}
    MaxErrors = 1
    MaxFaults = 1
SPECIFICATION Spec
SYMMETRY HandlerSymmetry
CHECK_DEADLOCK FALSE
INVARIANTS DeliveredIsHeld
PROPERTIES OperatorDecides
