SPECIFICATION FairSpec
CONSTANTS
    a = a  b = b  c = c  d = d  e = e  f = f  g = g
    Artifact = {a, b, c, d, e, f, g}
    NoArtifact = NoArtifact
    Hubs <- ThreeHubs
    MaxRounds = 6
    MaxFailures = 2
INVARIANTS CloneComplete CloneConverges PrivateNotCloned
PROPERTY EventuallyCloned
CHECK_DEADLOCK FALSE
