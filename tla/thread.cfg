CONSTANTS
    A = A
    B = B
    Chats = {A, B}
    First = A
    Theirs = {1, 3}
    Mine = {2}
    ChatOf <- Homes
    PageSize = 1
    None = None
    Most = 2
SPECIFICATION FairSpec
CHECK_DEADLOCK FALSE
INVARIANTS ReadsItsRevision
PROPERTIES StaysShown TextStays Converges
