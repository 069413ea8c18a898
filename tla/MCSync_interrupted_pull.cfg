SPECIFICATION FairSpec
CONSTANTS
    a = a  b = b  c = c  d = d  e = e  f = f  k = k
    Artifact = {a, b, c, d, e, f, k}
    Worlds <- InterruptedPull
    MaxSend = 1
    MaxRounds = 12
PROPERTY EventuallyAgree
