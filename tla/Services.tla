------------------------------ MODULE Services ------------------------------
(***************************************************************************)
(* The modules of the kernel's and the stack's services, side by side in   *)
(* one state: one of them is drawn and only that one moves.  TimeOut is    *)
(* extended, the others are instances.  All but the packet buffers have    *)
(* parameters, so that theorems are about every value of them.             *)
(***************************************************************************)
EXTENDS TimeOut

CONSTANTS
    Nobody,
    MutexTasks, Mutexes, MutexUses,
    MaxNotified,
    GroupTasks, Bits, GroupUses, MaxRounds,
    StreamUses, Values,
    Toggle, Period, Delay,
    SizeMax, HeapSize, Align,
    MEM_SIZE, MEM_ALIGNMENT, SIZEOF_STRUCT_MEM, MIN_SIZE,
    Round, TimerPool, TcpInterval, ArpInterval, UserTimers, Delays, Slow,
    ARP_TABLE_SIZE, Hosts, Macs, Gateway, MaxAge, MaxPending, Unicast, Broadcast

VARIABLES
    part,       \* the module that was drawn
    mutex, xMutexHolder, mutexWaiting, uxMutexesHeld, uxPriority, uxBasePriority, value,
    mutexCall,
    ulNotifiedValue, ucNotifyState, list, pending, holder, notifyPc, notifyCall, suspended,
    group, uxEventBits, groupPc, groupCall, item, entered, left,
    stream, buffer, xHead, xTail, waitingToSend, waitingToReceive, notified, streamPc,
    size, seen, new, next, pipe,
    tick, first, ticks, second, start, sleeping, looked, led, sinceToggle, sinceDelay,
    ucHeap, xNextFreeByte, blocks,
    ram, lfree, memBlocks, trim,
    now, next_timeout, tcpip_tcp_timer_active, tcp_pcbs, thread, sleeptime, checked, awake,
    early,
    arp_table, etharp_cached_entry, sent, heard,
    pbuf, held, pbuf_free_ooseq_pending, callbacks, pbufCall

mutexVars == <<mutex, xMutexHolder, mutexWaiting, uxMutexesHeld, uxPriority,
               uxBasePriority, value, mutexCall>>
notificationVars == <<ulNotifiedValue, ucNotifyState, list, pending, holder, notifyPc,
                      notifyCall, suspended>>
groupVars == <<group, uxEventBits, groupPc, groupCall, item, entered, left>>
streamVars == <<stream, buffer, xHead, xTail, waitingToSend, waitingToReceive, notified,
                streamPc, size, seen, new, next, pipe>>
applicationVars == <<tick, first, ticks, second, start, sleeping, looked, led,
                     sinceToggle, sinceDelay>>
heapVars == <<ucHeap, xNextFreeByte, blocks>>
memVars == <<ram, lfree, memBlocks, trim>>
timersVars == <<now, next_timeout, tcpip_tcp_timer_active, tcp_pcbs, thread, sleeptime,
                checked, awake, early>>
arpVars == <<arp_table, etharp_cached_entry, sent, heard>>
pbufVars == <<pbuf, held, pbuf_free_ooseq_pending, callbacks, pbufCall>>

(* ---- the parts ---- *)

Mutex == INSTANCE Mutex WITH
    Tasks <- MutexTasks, Uses <- MutexUses,
    use <- mutex, waiting <- mutexWaiting, call <- mutexCall

Notification == INSTANCE Notification WITH
    MaxValue <- MaxNotified, pc <- notifyPc, call <- notifyCall

EventGroup == INSTANCE EventGroup WITH
    Tasks <- GroupTasks, Uses <- GroupUses,
    use <- group, pc <- groupPc, call <- groupCall

StreamBuffer == INSTANCE StreamBuffer WITH
    Uses <- StreamUses, use <- stream, pc <- streamPc

\* The tasks of main.c, on the same tick.
Application == INSTANCE Application WITH Round <- MaxDelay + 1

Heap == INSTANCE Heap1

Mem == INSTANCE Mem WITH blocks <- memBlocks

Timers == INSTANCE SysTimeouts WITH Pool <- TimerPool

Arp == INSTANCE Arp WITH Size <- ARP_TABLE_SIZE

(* ---- packet buffers: two of the pool and one of the heap in one thread, and two that ----
   ---- threads and the packets that came out of order share                        ---- *)

Packets == INSTANCE Pbuf WITH
    Pool <- {1, 2}, Ram <- {3}, BufSize <- 2, Threads <- {"tcpip"}, Tcpip <- "tcpip",
    Pcbs <- {}, Lengths <- {2}, Layers <- {1}, MaxLen <- 3, call <- pbufCall

Sharing == INSTANCE Pbuf WITH
    Pool <- {1, 2}, Ram <- {}, BufSize <- 2, Threads <- {"tcpip", "app"},
    Tcpip <- "tcpip", Pcbs <- {"pcb"}, Lengths <- {2}, Layers <- {1}, MaxLen <- 3,
    call <- pbufCall

ASSUME ServicesAssumption ==
    /\ Mutex!MutexAssumption
    /\ Notification!NotificationAssumption /\ EventGroup!GroupAssumption
    /\ StreamBuffer!StreamAssumption /\ Application!ApplicationAssumption
    /\ Heap!HeapAssumption /\ Mem!MemAssumption /\ Timers!TimeoutsAssumption
    /\ Arp!ArpAssumption /\ Packets!PbufAssumption /\ Sharing!PbufAssumption

(* ---- one of them moves ---- *)

servicesVars == <<part, vars, mutexVars, notificationVars, groupVars, streamVars,
                  applicationVars, heapVars, memVars, timersVars, arpVars,
                  pbufVars>>

Parts == {"timeout", "mutex", "notification", "group", "stream", "application", "heap",
          "mem", "timers", "arp", "packets", "sharing"}

servicesInit ==
    /\ part \in Parts
    /\ Init /\ Mutex!Init /\ Notification!Init /\ EventGroup!Init /\ StreamBuffer!Init
    /\ Application!Init /\ Heap!Init /\ Mem!Init /\ Timers!Init /\ Arp!Init
    /\ IF part = "sharing" THEN Sharing!Init ELSE Packets!Init
    /\ part # "mutex" => mutex = CHOOSE use \in MutexUses : TRUE
    /\ part # "group" => group = CHOOSE use \in GroupUses : TRUE
    /\ part # "stream" => stream = CHOOSE use \in StreamUses : TRUE
    /\ part # "application" => tick = 0
    /\ part # "heap" => ucHeap = 0

Move(p, moves) ==
    /\ part = p /\ UNCHANGED part
    /\ moves
    /\ p # "timeout" => UNCHANGED vars
    /\ p # "mutex" => UNCHANGED mutexVars
    /\ p # "notification" => UNCHANGED notificationVars
    /\ p # "group" => UNCHANGED groupVars
    /\ p # "stream" => UNCHANGED streamVars
    /\ p # "application" => UNCHANGED applicationVars
    /\ p # "heap" => UNCHANGED heapVars
    /\ p # "mem" => UNCHANGED memVars
    /\ p # "timers" => UNCHANGED timersVars
    /\ p # "arp" => UNCHANGED arpVars
    /\ p \notin {"packets", "sharing"} => UNCHANGED pbufVars

servicesNext ==
    \/ Move("timeout", Next)
    \/ Move("mutex", Mutex!Next)
    \/ Move("notification", Notification!Next)
    \/ Move("group", EventGroup!Next)
    \/ Move("stream", StreamBuffer!Next)
    \/ Move("application", Application!Next)
    \/ Move("heap", Heap!Next)
    \/ Move("mem", Mem!Next)
    \/ Move("timers", Timers!Next)
    \/ Move("arp", Arp!Next)
    \/ Move("packets", Packets!Next)
    \/ Move("sharing", Sharing!Next)

servicesSpec ==
    /\ servicesInit /\ [][servicesNext]_servicesVars
    /\ Notification!Fairness /\ Application!Fairness

(* ---- what is checked of each ---- *)

\* The type invariants of all of them.
ServicesTypeOK ==
    /\ TypeOK
    /\ Mutex!TypeOK /\ Notification!TypeOK /\ EventGroup!TypeOK /\ StreamBuffer!TypeOK
    /\ Application!TypeOK /\ Heap!TypeOK /\ Mem!TypeOK /\ Timers!TypeOK /\ Arp!TypeOK
    /\ IF part = "sharing" THEN Sharing!TypeOK ELSE Packets!TypeOK

\* Mutexes: the holder is as urgent as those that wait, and no longer than they do.
Inheritance == Mutex!Inheritance

\* Notifications are not lost, and suspensions not ended by them.
NotificationsSeen == Notification!NotificationsSeen

\* A wait for a notification ends.
WaitEnds == Notification!WaitEnds

\* Nobody leaves a rendezvous before everybody has come, or misses the bits it waits for.
Rendezvous == EventGroup!Rendezvous

\* A ring that neither side locks is a pipe.
IsPipe == StreamBuffer!IsPipe

\* The delays of the driver are never cut short, and the LED goes on being toggled, no
\* sooner than the program says.
TimeIsKept == Application!TimeIsKept

\* Blocks of the heap do not overlap and do not reach past it.
BlocksApart == Heap!BlocksApart

\* The areas of lwIP's heap follow each other without a gap, no two free ones side by
\* side, and callers have what they asked for.
HeapSound == Mem!HeapSound

\* The timers of lwIP are called in order, not early and not much too late.
TimersOnTime == Timers!TimersOnTime

\* A packet goes to the address its host has told.
RightAddress == Arp!RightAddress

\* Packets are shared, chained, cut and freed without losing count, bytes or lengths.
PbufsSound == IF part = "sharing" THEN Sharing!PbufsSound ELSE Packets!PbufsSound

=============================================================================
