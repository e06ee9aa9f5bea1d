SPECIFICATION Spec
CONSTANTS
    MaxEntries = 3
    MaxFileBytes = 2
    MaxTotalBytes = 3
    MaxFiles = 3
    MaxTokens = 14
    HeaderTokens = 2
    MinBudget = 4
    Notice = 5
    NameOrder <- MCNameOrder
    CommonNames = {"id"}
    MaxReferences = 2
    MaxReferenceChars = 3
    MaxContextItems = 2
    MaxContextChars = 4
    Jobs <- MCJobs
INVARIANTS
    DiskWithinLimits
    WorkspaceFreed
    ScanTellsWhatItLeft
    ChunksCoverTheFile
    PromptsFilled
