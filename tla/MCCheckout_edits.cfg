SPECIFICATION Spec
CONSTANTS
    fileA = fileA  fileB = fileB
    Name = {fileA, fileB}
    Content = {"empty", "1", "2", "3", "new", "merged"}
    Empty = "empty"
    Merged = "merged"
    Gone = "gone"
    NoName = none  none = none
    NoQueue = NoQueue
    Edits = {"empty", "new"}
    Branch = {"trunk", "side"}
    Histories <- Starts
    MaxSteps = 4
    MaxFaults = 1
CHECK_DEADLOCK FALSE
INVARIANT CheckoutConsistent
PROPERTIES CommitRecordsDisk NoForkUnlessWarned EditsKept SavedComesBack UpdateReaches
