SPECIFICATION FairSpec
CONSTANTS
    Artifact <- MCArtifact
    Deck <- MCDeck
    Worlds <- MCWorlds
    Local <- MCLocal
    Id <- MCId
    TagName <- MCTagName
    MaxTime = 3
    MaxPhantoms = 1
    MaxCrashes = 1
    MaxRebuilds = 1
CHECK_DEADLOCK FALSE
INVARIANTS
    LinkedIsComplete
    HistoryRight
    TagsAsRebuilt
    NewestShown
PROPERTY EventuallyLinked
