CONSTANTS
    D1 = D1
    D2 = D2
    D3 = D3
    Dev = {D1, D2, D3}
    Boss = D1
    Slots = {1, 2}
    MaxKeys = 2
    Most = 1
SPECIFICATION FairSpec
CHECK_DEADLOCK FALSE
INVARIANTS EncryptedIsKeyed ServedHaveKey
PROPERTIES KeysAgree
