SPECIFICATION HFairSpec
CONSTANTS
    s1 = s1  s2 = s2  s3 = s3
    i1 = i1  i2 = i2
    Sockets = {s1, s2, s3}
    Instances = {i1, i2}
    Home <- TwoHomes
    Hasty = {s1, s3}
    Weathers <- Seasons
INVARIANTS TypeOK NoGhosts  
PROPERTIES GhostsExpire
