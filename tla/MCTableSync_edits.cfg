SPECIFICATION FairSpec
CONSTANTS
    x = x  y = y
    Key = {x, y}
    MaxValue = 1
    MaxTime = 2
    Starts <- OneSide
    Conflicts = {"mtime-wins", "self-write", "owner-write"}
    Modes <- BothModes
    User = "user"
    Peer = "peer"
    MaxRounds = 5
    MaxWrites = 2
    MaxFailures = 1
INVARIANTS DoneAgrees NewestSurvives
PROPERTIES OwnerDeletes EventuallyAgree
