SPECIFICATION FairSpec
CONSTANTS
    a = a  b = b  c = c  d = d  e = e  f = f  k = k
    Artifact = {a, b, c, d, e, f, k}
    Worlds <- CommitsAndSecrets
    MaxSend = 1
    MaxRounds = 20
INVARIANTS DoneMeansAgree NeverExceeds NoSpuriousSend PrivateConfined
PROPERTY EventuallyAgree
