SPECIFICATION Spec
CONSTANTS
    a = a  b = b  c = c  k = k  m = m
    Artifact = {a, b, c, k}
    NoArtifact = NoArtifact
    Members <- NoClusters
    MaxRid = 4
    ClusterThreshold = 1
    ClusterMaxSize = 2
    Wanted = {}
    Shunnable = {b, c}
    Privatable = {c}
    DeltaSources = {"full"}
    ImportUuid <- ChainUuid
    ImportSrc <- ChainSrc
INVARIANTS TypeOK BlobIntegrity DeltaBaseIntact PrivacyFollowsArtifact AckedIsReadable
PROPERTY ImplementsArtifactStore
CHECK_DEADLOCK FALSE
