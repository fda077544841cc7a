SPECIFICATION FairSpec
CONSTANTS
    Client = "client"
    Server = "server"
    Mss = 2
    SeqSize = 64
    WndSize = 16
    Iss <- MCIss
    MboxSize = 2
    MaxRtx = 2
    Plans <- LatePlans
PROPERTIES
    EndArrives
\* Both ends are closed and everything is read.
CHECK_DEADLOCK FALSE
