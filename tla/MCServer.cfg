CONSTANTS
    k1 = k1
    k2 = k2
    i1 = i1
    None = None
    Slot = {s1}
    ApiKey = {k1, k2}
    Legacy = {i1}
    Job = {full_parsing}
    Requests <- MCRequests
    StartsWith <- MCStartsWith
    Environments <- MCEnvironments
SPECIFICATION FairSpec
INVARIANTS
    OnlyCheckedRequestsAct
    NoPictureIsLost
    OrdinaryEndAnswersAll
PROPERTIES
    NoJobBeginsInShutdown
    ShutdownEnds
