SPECIFICATION Spec
CONSTANTS
    a = a  b = b  c = c  k = k  m = m
    Artifact = {a, b, c, k, m}
    NoArtifact = NoArtifact
    Members <- TwoClusters
    MaxRid = 5
    ClusterThreshold = 2
    ClusterMaxSize = 2
    Wanted = {m}
    Shunnable = {}
    Privatable = {a}
    DeltaSources = {}
    ImportUuid <- NoRows
    ImportSrc <- NoRows
INVARIANTS PhantomTableExact EveryArtifactAnnounceable
CHECK_DEADLOCK FALSE
