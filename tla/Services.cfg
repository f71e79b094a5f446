CONSTANTS
    Gpus = {"g1", "g2"}
    Offers = {"o1", "o2", "o3", "o4"}
    OfferMiner <- MCOfferMiner
    OfferGpus <- MCOfferGpus
    NoOffer = NoOffer
    Sessions = {"s1", "s2", "s3"}
    MinerKeys = {"m1", "m2"}
    NoSession = NoSession
    NoKey = NoKey
    Outputs = {"a", "b"}
    Finishes = {"f1", "f2"}
    Puts = {"p1", "p2"}
    Completes = {"c1", "c2"}
    PutOutput <- MCPutOutput
    Hotkeys = {"h1", "h2", "h3"}
    ColdkeyOf <- MCColdkeyOf
    Uids = {0, 1}
    Worths = {0, 1}
    NoUid = NoUid
SPECIFICATION ServicesSpec
INVARIANTS ServicesTypeOK VerifiedAsProven HandOversBounded MapFollowsSessions
           CompleteMeansStored WeightsFair
CHECK_DEADLOCK FALSE
