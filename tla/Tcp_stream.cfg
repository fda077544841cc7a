\* Two segments of two bytes in flight, a mailbox of two.
SPECIFICATION FairSpec
CONSTANTS
    Client = "client"
    Server = "server"
    Mss = 2
    SeqSize = 64
    WndSize = 16
    Iss <- MCIss
    MboxSize = 2
    MaxRtx = 2
    Plans <- MCPlans
INVARIANTS
    StreamIntact
    SenderKeeps
    WindowAccounts
    NothingWaits
PROPERTIES
    WrittenArrives
    PcbReturns
\* Both ends are closed and everything is read.
CHECK_DEADLOCK FALSE
