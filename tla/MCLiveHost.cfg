SPECIFICATION FairHostSpec
CONSTANTS
    EntryFile = 1
    Files = 2
    History <- MCHistory
    RetryPolls = 2
    MaxRequests = 1
INVARIANT LiveIsTrue
PROPERTIES
    SavesAnswered
    HookHears
