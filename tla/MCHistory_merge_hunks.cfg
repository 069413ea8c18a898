SPECIFICATION Spec
CONSTANTS
    main = main  note = note
    Name = {main, note}
    Line = {"p", "q", "r"}
    Texts <- Some
    Gone = Gone
    Conflict = Conflict
    Branch = {"trunk", "side"}
    Histories <- RootsAndLong
    MaxVersions = 4
    MaxCommits = 2
    MaxMarks = 4
    Limit = 0
CHECK_DEADLOCK FALSE
INVARIANT HunksReplace
