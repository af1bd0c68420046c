CONSTANTS
    Threads = {t1, t2}
    NoThread = NoThread
    Keys = {5, 6, 11}
    WordBits = 6
    NLock = 2
    HT_INIT_KEY_LEN = 1
    Members = {1, 2, 3, 4}
    Clients = {"serial", "shared"}
SPECIFICATION Spec
INVARIANTS LookupMissesOnlyByRace FoundMemberStays SlotInTable NoDeadlock
CHECK_DEADLOCK FALSE
