SPECIFICATION Spec
CONSTANTS
    sql1 = sql1
    sql2 = sql2
    login = login
    config = config
    m1 = m1
    note = note
    word = word
    Blank = Blank
    Keys <- TheKeys
    Instances <- Servers
    InstanceOf <- Places
    UnmatchedKeys = {login}
    SheetOf <- Sheets
    Matches <- Lookalikes
    KeyedRows = {config}
    Manuals = {m1}
    ManualIds = {Blank, word}
    Notes = {note}
    Outcomes <- PassFail
    MaxRuns = 3
    MaxEdits = 1
PROPERTIES
    SheetKeepsEverything
CHECK_DEADLOCK FALSE
