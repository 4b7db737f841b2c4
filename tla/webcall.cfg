CONSTANTS
    Calls = {1}
    A = A
    Chats = {A, B}
 B = B
    ChatOf <- OneCall
    Boots = {1, 2}
    None = None
    MaxPushes = 1
    MaxMoves = 1
    MaxFaults = 1
SPECIFICATION FairSpec
CHECK_DEADLOCK FALSE
INVARIANTS StatusIsTrue EndingHasHandler
PROPERTIES Converges
