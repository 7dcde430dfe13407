\* Two callers share the queue of unsaved rows; no two calls on one name at a
\* time.
SPECIFICATION FilesSpec
CONSTANTS
    Names = {a, b}
    Archived = {a, b}
    Threads = {t1, t2}
    MaxContent = 1
    OneAtATime = TRUE
    LooksUp = TRUE
    MaxQueue = 2
CONSTRAINT QueueBound
INVARIANTS
    SettledView
    RenameAtomic
PROPERTIES
    CommitKeepsView
CHECK_DEADLOCK FALSE
