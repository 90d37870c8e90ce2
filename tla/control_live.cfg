CONSTANTS
    LastKey = 0
    MaxOut = 2
    MaxIn = 2
    Orderly = TRUE
SPECIFICATION FairSpec
PROPERTIES
    UpIsReliable
    DownIsReliable
    UpArrives
    DownArrives
