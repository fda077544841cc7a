\* Small instances of each service.
SPECIFICATION servicesSpec
CONSTANTS
\* The tick has eight values, three rounds of them.
    MaxDelay = 7
    MaxTicks = 26
    MaxSilence = 8
    Nobody = "nobody"
    MutexTasks = {"a", "b", "c"}
    Mutexes = {"m", "n"}
    MutexUses <- MutexKinds
    MaxNotified = 2
    GroupTasks = {"a", "b", "c"}
    Bits = {"a", "b", "c"}
    GroupUses <- GroupKinds
    MaxRounds = 3
    StreamUses <- StreamKinds
    Values = 2
\* The polling task sleeps for longer than the LED is left alone.
    Toggle = 2
    Period = 4
    Delay = 2
    SizeMax = 31
\* A size that the alignment does not divide.
    HeapSize = 18
    Align = 4
\* Room for four of the smallest areas.
    MEM_SIZE = 24
    MEM_ALIGNMENT = 2
    SIZEOF_STRUCT_MEM = 2
    MIN_SIZE = 4
\* Times that wrap at 16; a pool of three, as many as ask for one.  tcpip_thread may be
\* kept for longer than its cyclic timer takes.
    Round = 16
    TimerPool = 3
    TcpInterval = 1
    ArpInterval = 2
    UserTimers = 1
    Delays = {3}
    Slow = 3
\* A table of two for three hosts; ages at which an entry is asked for from its host, from
\* everybody, and is too old.
    ARP_TABLE_SIZE = 2
    Hosts = {"a", "b", "c"}
    Macs = {"m", "n"}
    Gateway = "c"
    MaxAge = 5
    MaxPending = 2
    Unicast = 2
    Broadcast = 3
INVARIANTS
    ServicesTypeOK
    WaitsExact
    Inheritance
    NotificationsSeen
    Rendezvous
    IsPipe
    BlocksApart
    HeapSound
    TimersOnTime
    RightAddress
    PbufsSound
PROPERTIES
    WaitEnds
    TimeIsKept
