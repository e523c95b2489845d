CONSTANTS
    Scripts <- MCScripts
    Programs <- MCPrograms
    Interactive <- MCInteractive
    Segments <- MCSegments
    InputFiles <- MCInputFiles
    Slashed = {"./run"}
    Dirs = {"/", "/d"}
    MAXARGS = 4
    NOFILE = 5
    NProc = 5
    Spelling <- MCSpelling
    Lines <- MCLines
    Names = {"f", "g", "none/h"}
    Unwritable = {"none/h"}
    Files <- MCFiles
    MAX_LINES = 3
    MAX_COLS = 6
    IntBits = 6
    MaxBytes = 14
    MaxTyped = 6
SPECIFICATION SessionSpec
CHECK_DEADLOCK FALSE
INVARIANTS OutputIsMeaning ForegroundFirst ParserKeepsLine ListIsProgram CleanIsSaved
PROPERTIES AllEnd
