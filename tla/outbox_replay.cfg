CONSTANTS
    Messages = {m1, m2}
    Ticks = {t1, t2}
    NoMessage = NoMessage
    Moves = {"open", "refuse", "bar"}
    MaxFaults = 2
SPECIFICATION FairSpec
INVARIANTS KeptUntilStored RefusedStaysAway
PROPERTIES ExactlyOnceSpec NoRevival EventuallyStored
