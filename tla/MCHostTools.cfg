CONSTANTS
    json__MAX_DEPTH = 20
    Goal = "all"
    StackLimit = 6
    Document <- MCDocument
    Job <- MCJob

SPECIFICATION HostSpec

\* The build ends.
CHECK_DEADLOCK FALSE

INVARIANTS
    TasksAsWritten
    RunsInOrder
    LayoutFits
    FreshVolumeMounts
    PartitionsKept
