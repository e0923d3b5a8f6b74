SPECIFICATION Spec
CONSTANTS
    Projects <- MCProjects
    MaxFaults = 1
    DiffContext = 1
    EmptyFile <- Lost
    RewriteFile <- Rewrite
    StripMsg <- stripDanglingMsg
    RewriteTemplate <- RewriteBufGen
    StreamTypeOf <- lookup
    StreamTypeName <- generatedStreamName
    EntriesOf <- Entries
    IsConnectEntry <- IsConnect
    IsV2Entry <- EntryIsV2
INVARIANTS
    LeftIsReported
    RerunIsQuiet
    ImportsResolve
    ReportIsTrue
    MeaningKept
    TemplateIsMigrated
    DiffIsFaithful
    StepsSuffice
PROPERTY
    EditsAreInScope
