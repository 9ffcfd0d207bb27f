SPECIFICATION MCSpec
CONSTANTS
    Uris = {a, b}
    Names = {n, m}
    Threads = {s, t}
    MaxWrites = 2
    Texts = {x, y}
    Absent = Absent
    MaxVersion = 2
    MaxScans = 2
    MaxSaves = 1
    Budget = 1
    MaxDocumentBytes = 3
    MaxOpenDocuments = 2
    MaxRetainedBytes = 5
    Startup = Startup
    MaxChanges = 2
CONSTRAINT MCBound
SYMMETRY MCSymmetry
INVARIANTS
    MergedCoherent
    ChangesQueued
    
    OpenShowBuffer
    RetainedExact
    StreamsPaired
    
    EditsFitTheText
    NothingForgotten
    SkipsAreSound
    RuleErrorsShown
    ParsedAsStamped
PROPERTIES
    SnapshotKept
CHECK_DEADLOCK FALSE
