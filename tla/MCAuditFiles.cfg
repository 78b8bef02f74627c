\* Two audits, two runs (of an audit or of a sync), two generations of scripts,
\* one archived copy, one command that dies.
CONSTANTS
    MaxAudits = 2
    MaxRuns = 2
    MaxVersions = 2
    MaxCopies = 1
    MaxKills = 1
SPECIFICATION Spec
INVARIANTS
    TypeOK
    OneGenerationPerVersion
    ReportSurvives
    FinalizedIsArchived
PROPERTIES
    HistoryGrows
CHECK_DEADLOCK FALSE
