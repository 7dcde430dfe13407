\* Requests on two names, with live commits between and inside them.
SPECIFICATION FuseSpec
CONSTANTS
    Names <- MCNames
    Archived <- OneMember
    MaxFile = 2
    MaxIno = 3
    MaxHandles = 1
    MaxRefs = 2
    MaxCommits = 2
INVARIANTS
    NodeidKeepsFile
    CountsAgree
    CachedMembersFit
PROPERTIES
    HandlesKeepFile
CHECK_DEADLOCK FALSE
