\* Command lines, scripts and terminal sessions: what is executed.  The program
\* may stop for good once it has been started MaxStarts times.
SPECIFICATION Spec
CHECK_DEADLOCK FALSE
CONSTANTS
    MaxKeyed = 4
    MaxStarts = 2
    Token <- MCToken
    ArgumentLists <- MCArgumentLists
    Files <- MCFiles
    Keyed <- MCKeyed
    Pasted <- MCPasted
    Unparsed <- MCUnparsed
    Broken <- MCBroken
    OldHistories <- MCOldHistories
INVARIANTS
    RunsOnceInOrder
    StatementsRunWhenComplete
    ExitTells
PROPERTIES
    HistoryReplays
