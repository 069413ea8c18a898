SPECIFICATION FairSpec
CONSTANTS
    x = x  y = y
    Name = {x, y}
    MaxHash = 2
    MaxTime = 2
    InitRows <- Apart
    Grants = {TRUE, FALSE}
    MaxSend = 1
    MaxRounds = 8
    ArtifactRounds = 1
    EditedNames = {x}
    MaxWrites = 2
    MaxFailures = 2
INVARIANTS DoneAgrees NewestSurvives
PROPERTY EventuallyAgree
