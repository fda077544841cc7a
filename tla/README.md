# telnet-server in TLA+

The repository is the firmware of a PIC32MZ board with an ENC624J600 Ethernet
controller: a driver for the controller, an application of two tasks, FreeRTOS
underneath, and lwIP, configured by `lwipopts.h` but not yet started by anything
in `main.c`.  This directory holds TLA+ modules translated from that source, TLC
configurations that model-check them on small instances, and proofs that TLAPS
checks for every instance.

All paths below are relative to the repository.  `driver.c` is
`src/src/enc624j600/enc624j600_driver.c`; `tasks.c`, `queue.c` and the like are
in `src/FreeRTOS/`, `tcp.c`, `tcp_in.c` and `tcp_out.c` in `src/lwIP/core/`,
`api_msg.c` and `api_lib.c` in `src/lwIP/api/`.

## 1. The system

### Components

| Component | State | Operations | Status |
|---|---|---|---|
| receive path of the driver | the hardware's ring, `ERXHEAD`, `ERXTAIL`, `ERXRDPT`, `PKTCNT`; the driver's `next_receive_frame_pointer` | `enc624j600_receive` | modelled, proved |
| transmit path of the driver | the transmit area, `EGPWRPT`, `ETXST`, `ETXLEN`, `TXRTS`, `ETXSTAT`, `ETXWIRE`; the driver's `duplex_mode` | `enc624j600_transmit` | modelled, proved |
| bringing the controller up | `EUDAST`, `ESTAT`, `MACON2`, `MABBIPG`, `ERXFCON`, `RXEN`, the PHY's registers behind the MII interface | `enc624j600_init`, `reset`, `configure_receive_filter`, `mac_init`, `phy_init`, `read_phy_sfr`, `write_phy_sfr` | modelled, proved |
| SPI register access | none of its own | the `read_`, `write_` and `bit_field_` functions | each is the step of the action that calls it |
| kernel: tick, delays, scheduling | tick count, two delayed lists, suspended and pending-ready lists, ready lists, pended ticks and yields | `xTaskIncrementTick`, `vTaskDelay`, `vTaskPlaceOnEventList`, `xTaskRemoveFromEventList`, `vTaskSuspendAll`, `xTaskResumeAll`, `vTaskSwitchContext` | partly modelled, proved |
| kernel: queues and semaphores | messages in a ring, two event lists, two lock counts | `xQueueGenericSend`, `xQueueReceive`, `xQueuePeek`, their forms for interrupts, `xQueueGenericReset` | partly modelled, proved |
| kernel: mutexes | holder, waiting tasks, priorities, base priorities, mutexes held | taking and giving, inheritance, `vTaskPrioritySet` | modelled, proved |
| kernel: timeouts of blocking calls | `TimeOut_t`, `xNumOfOverflows` | `vTaskInternalSetTimeOutState`, `xTaskCheckForTimeOut` | modelled, proved |
| kernel: notifications, suspended tasks | value and state of a notification, the list a task is on | `ulTaskGenericNotifyTake`, `xTaskGenericNotifyWait`, `xTaskGenericNotify`, `vTaskSuspend`, `vTaskResume`, ... | modelled, proved |
| kernel: event groups | bits, waiting tasks with what they wait for | `xEventGroupSetBits`, `xEventGroupWaitBits`, `xEventGroupSync`, `xEventGroupClearBits` | modelled, proved |
| kernel: stream and message buffers | head, tail, ring, one waiting task on each side | `xStreamBufferSend`, `xStreamBufferReceive` | partly modelled, proved |
| kernel: heap_1 | `xNextFreeByte` | `pvPortMalloc` | modelled, proved |
| application (`main.c`) | the ticks each task remembers, the LED | `my_first_task`, `my_second_task`, `enc624j600_hal_delay` | partly modelled, proved |
| lwIP TCP | one control block at each end, its queues `unsent`, `unacked`, `ooseq`, `refused_data`, and the mailbox above it | `tcp_input`, `tcp_output`, `tcp_write`, `tcp_recved`, `tcp_close`, `tcp_connect`, the timers, `recv_tcp` | partly modelled |
| lwIP timers and `tcpip_thread` | the list `next_timeout`, whether the TCP timer runs, the core lock | `sys_timeout`, `sys_untimeout`, `sys_check_timeouts`, `tcp_timer_needed`, the loop of `tcpip_thread` | partly modelled, proved |
| lwIP API | the messages of one connection | what one TCP connection uses of it | partly modelled |
| lwIP ARP | the table, one packet that waits for each entry, the entry used last | `etharp_output`, `etharp_query`, `etharp_input`, `etharp_tmr`, `etharp_cleanup_netif` | modelled, proved |
| lwIP heap (`mem.c`) | headers linked through the heap, `lfree` | `mem_malloc`, `mem_free`, `mem_trim` | modelled, proved |
| lwIP packet buffers and their pool (`pbuf.c`, `memp.c`) | pbufs with `next`, `tot_len` and `ref`, the free ones of the pool, `pbuf_free_ooseq_pending` | `pbuf_alloc`, `pbuf_free`, `pbuf_ref`, `pbuf_cat`, `pbuf_chain`, `pbuf_dechain`, `pbuf_realloc`, `pbuf_add_header`, `pbuf_remove_header`, `pbuf_free_header`, `pbuf_clone`, `pbuf_coalesce` | partly modelled, one part proved |
| lwIP system layer (`sys_arch.c`) | handles of queues and semaphores | `sys_mbox_*`, `sys_sem_*` | not modelled: its mailboxes are `Queue`'s |
| rest of lwIP (IP, UDP, DHCP, DNS, PPP) | | | not modelled |
| software timers, co-routines | | | not modelled: configured out |
| `lwIP_enc624j600_netif.c` | | | not modelled: the whole file is a comment |
| Harmony configuration | | | not modelled: generated, pure I/O |

### How they interact

The application's second task calls `enc624j600_init` and then, for ever,
`enc624j600_receive` and `vTaskDelay`.  The driver reaches the controller only
through SPI transactions (a register or a run of bytes between chip select and
chip deselect) and waits by polling or with `enc624j600_hal_delay`, which reads
the kernel's tick.  The controller shares its SRAM and its counters with the
driver without any lock: it stores frames, counts them, sends and resets
whenever it does.  The kernel's tick interrupt, the interrupts that make events
happen and the software interrupt that switches tasks share the kernel's lists
with the running task; suspending the scheduler, and not masking interrupts,
is what protects most of them; stream buffers do without.  Blocking calls share
one pattern: look, mark the time, suspend the scheduler, look again, wait; an
interrupt may come between any two of these.  lwIP runs in a single thread that
takes segments, API messages and timeouts from a mailbox, which is a FreeRTOS
queue behind `sys_arch.c`; while it sleeps on that mailbox the core lock is free,
and other threads call into the stack, start timers among other things, which
does not wake it; the thread that uses a connection reads what came from
another mailbox, which has room for two items.

### What is hard, and what makes each component correct

* *Receive.*  A call is eight transactions, and frames arrive between any two.
  The driver keeps its place in the hardware's chain of frames in a variable of
  its own, overwrites it before it reads the frame, gives the bytes back before
  it uncounts the frame.  Correct means that nothing unread is overwritten, that
  every stored frame is delivered once, whole and in order, that the counter
  counts what is pending, and that between calls pointer, chain and `ERXTAIL`
  agree.
* *Transmit.*  `EGPWRPT` runs round the area and is never set back; registers
  that describe the last transmission are read as if they described this one or
  the medium.  Correct means that what goes out is what was asked for, that the
  area does not change under a transmission, that an answer tells what happened,
  that calls return and refusals end.
* *Bring-up.*  Three resets of the chip's own timing, MII operations that start
  late, read-modify-write over a slow interface, a link that comes and goes
  while the duplex mode is copied to three places.  Correct means that the
  configuration is complete, not wiped, and agrees on the duplex mode.
* *Kernel.*  Wake times wrap; a cached next-unblock time is refreshed in some
  places only; events and timeouts race; ticks and events while the scheduler
  is suspended are made up for later; ready lists rotate while tasks enter and
  leave.  Correct means that a task wakes at the tick it asked for or at its
  event, that the highest priority runs, and that equals take turns.
* *Queues.*  Interrupts that come while the queue is locked only count, and the
  task that unlocks wakes for them; tasks that were woken may find the queue as
  full or as empty as before.  Correct means that all this is a mailbox whose
  operations are atomic, and that no task sleeps on what it could have.
* *Mutexes.*  Priority is inherited, passed on, and given back on a release or
  when a wait times out, while other mutexes are held and priorities are set.
* *Notifications, event groups, stream buffers.*  A notification comes between a
  look and the wait; the waiter is suspended and resumed meanwhile; the bits of
  a rendezvous are cleared before everyone has seen them; a ring is read and
  written with no lock.
* *TCP.*  Segments are lost and overtake each other, timers race late
  acknowledgements, numbers wrap; a closed window must be found to have opened;
  what the mailbox has no room for waits in the control block.  Correct means
  that the reader gets exactly what was written, in the end all of it, that the
  sender keeps what may still be asked for, that no window leaks, and that both
  control blocks return.

* *lwIP's timers and ARP.*  A list is sorted by a clock that wraps; a thread that
  sleeps does not learn of timers that others start; handlers start and stop
  timers while the list is worked through.  Entries of the ARP table are taken
  from one host for another while a packet waits in them and while another
  module remembers their index.
* *lwIP's heap.*  Areas are cut in two and joined again, in any order, through
  links that lie in the heap itself, and the search starts at a place that three
  functions move; shrinking a block looks at it before it locks the heap.
* *lwIP's packet buffers.*  Threads share chains, and parts of chains, by counts
  alone; freeing one and allocating one are several steps each; every pbuf holds
  the length of what is behind it.  Correct means that counts are the number of
  pointers, that nothing is lost or freed twice, that every owner sees its bytes
  and lengths, and that an empty pool is told to `tcpip_thread` once.

`PROJECT.json` lists each of these hazards at its line, with the properties that
would catch it going wrong.

## 2. The modules

```
EncRing ----+-- EncReceive ---- EncReceive_proofs      MCEncReceive, MCEncReceiveFair
            |        |  implements
            |     RxFifo
            +-- EncTransmit --+
                EncInit ------+- MCEncDriver -- EncDriver_proofs
Kernel  -- implements --> Sleepers                     MCKernel
   +----------- Kernel_proofs --+
Queue   -- implements --> Mailbox                      MCQueue
   +----------- Queue_proofs ---+
Mem     ------- Mem_proofs -----+- Lemmas
                    |           |
TimeOut --- Services +-- Services_proofs               MCServices
             |      +--- Buffers_proofs
             +-- instances of Mutex (also in MCMutex), Notification, EventGroup,
                 StreamBuffer, Application, Heap1, Mem, SysTimeouts, Arp, Pbuf
Tcp                                                    MCTcp
```

`MCEncDriver` and `Services` put several modules that do not interact side by
side in one state and draw the one that moves, so that one run explores each, and
a theorem about one of them is one about all together.  `Services` has the
parameters of its parts as CONSTANTS, and what they assume of them is
`ServicesAssumption`; only `Pbuf` has small values there, and the theorem about
it, in `Buffers_proofs`, parameters of its own.  `MCServices` is the instance that
TLC explores.

One convention holds everywhere: where the code makes a choice that could
easily have been made wrongly, the step is an instance of a small operator with
a parameter (`SetTail(address)`, `Poll(done)`), and beside the code's instance
(`WriteERXTAIL`, `PollTXRTS`) stands a wrong one, its name the right one's name
followed by what is wrong with it (`WriteERXTAIL_Missing`).  With the wrong one
in place of the right one TLC finds the property it is listed with violated:
each property can fail, and fails for a bug one could write.

### EncRing

Addresses of a cyclic buffer `RingStart .. RingEnd`: `Wrap`, `Dist`, spans that
overlap.  `Uint16Minus` is subtraction as the driver's `uint16_t` does it.  The
receive ring is an instance of it and so is the transmit area.

### EncReceive

| Specification | Code |
|---|---|
| `CallWithNull`, `CheckPKTCNT` | the test of the arguments and of `ESTAT.PKTCNT`, driver.c:1243-1256 |
| `WriteERXRDPT` | `write_buffer_pointer(ERXRDPT, next_receive_frame_pointer)`, 1258 |
| `ReadNextPointer` | the two bytes that become `next_receive_frame_pointer`, 1260-1267 |
| `ReadRSV`, `ReadHeader`, `ReadData` | status vector, addresses and type, payload, 1269-1291 |
| `WriteERXTAIL`, `DecrementPKTCNT` | bytes and frame given back, 1293-1299 |
| `Arrive(len)` | the hardware stores a frame (external) |

The bytes of a frame are abstracted to the frame's index in `frames`, the
history of what the hardware stored.  `intact` is the set of frames none of
whose bytes was overwritten; a read at an address where no intact frame starts
gets an arbitrary member of `GarbageNext` or `GarbageLen`.  `delivered` lists
what the caller was given, 0 where that is not one whole frame.  `escaped`
remembers that `ERXTAIL` was outside of the ring, which the code makes happen
(see the findings); what the safety properties promise ends there, and the
run `receive_tail` shows that this is reached.

`RxFifo` is what reception promises without addresses: a byte budget of all
but two of the ring's bytes, frames accepted while they fit, delivered once in
order, their bytes back in the budget only after delivery.  `ImplementsFifo`
states that `EncReceive` implements it.

Assumed of the hardware: a frame is stored at an even address behind the
address of the next one and the status vector; a frame is dropped when storing
it would pass `ERXTAIL`, which is compared for equality, or when `PKTCNT` is at
its maximum; pointers that are incremented wrap at the end of the ring.

### EncTransmit

| Specification | Code |
|---|---|
| `CallWithNull`, `Call` | the test of the arguments and of the length, driver.c:1157-1170 |
| `CheckFlowControl` | `FCOP` in full, `ETXSTAT.DEFER` in half duplex, 1172-1184 |
| `ReadEGPWRPT`, `WriteDestination`, `WriteType`, `WriteData` | 1186-1195 |
| `WriteETXST`, `WriteETXLEN`, `SetTXRTS`, `PollTXRTS` | 1197-1209 |
| `CheckErrors` | `ETXWIRE` in full, the error bits of `ETXSTAT` in half duplex, 1211-1232 |
| `Defer`, `Transmitted`, `Aborted` | the hardware (external) |
| `PeerStarts`, `PeerStops` | pause frames, or use of the medium (external) |

The bytes of the area are `sram`, the spans the three writes left that nothing
has overwritten since.  `FrameAt` is the frame whose three spans lie where
`ETXST` and `ETXLEN` point, if there is one.  Assumed of the hardware:
`EGPWRPT` and the reading of a frame wrap at the end of the area, and
`ETXSTAT` and `ETXWIRE` are rewritten at the end of a transmission and at no
other time.  A caller whose frame was refused asks for the same one again.

### EncInit

| Specification | Code |
|---|---|
| `WriteSentinel`, `ReadSentinel`, `PollCLKRDY`, `SetETHRST`, `AwaitReset` | `reset`, driver.c:922-963 |
| `WriteBuffers`, `WriteFilters`, `WriteMAC` | 1055-1084, `configure_receive_filter`, `mac_init` |
| `BeginRead`, `WaitForMII`, `EndRead` | `read_phy_sfr`, 681-696 |
| `BeginWrite`, `EndWrite`, `Modified` | `bit_field_*_phy_sfr` and `write_phy_sfr`, 698-727, as `phy_init` calls them |
| `TestPHSTAT1` | the loops on `ANDONE` and `LLSTAT`, 1112-1120 |
| `EnableRX`, `DisableRX`, `ReadPHYDPX`, `WriteMACON2`, `WriteMABBIPG` | 1109-1140 |
| `PowerOnResetEnds`, `ClockStarts`, `ResetTakesEffect` | the chip (external) |
| `MIIStarts`, `MIIReads`, `MIIWrites`, `Negotiate`, `LinkUp`, `LinkDown` | PHY and link (external) |

Registers are sets of the bits that are set; those that are written once and
read by nothing the driver does are one member of `written` per group.  The
reset value of a register the driver modifies bit by bit is not in the source:
all bits clear and all bits set are both explored.  Assumed: `EUDAST` does not
read as 0x1234 by chance while the chip boots, the MII interface has become
busy by the end of the delay of 30, and `LLSTAT` reads as clear once after each
loss of the link.

### Kernel and Sleepers

| Specification | Code |
|---|---|
| `Insert`, `InsertByPriority`, `InsertEnd`, `NextEntry`, `ListRemove` | `list.c` and the macros of `include/list.h` |
| `IncrementTick`, `SwitchRequired`, `TickInterrupt` | `xTaskIncrementTick`, tasks.c:4725; `vPortIncrementTick`, `portable/port.c`:286 |
| `Event` | `xTaskRemoveFromEventList`, tasks.c:5394, from an interrupt or the running task |
| `SwitchContext` | the software interrupt and `vTaskSwitchContext`, tasks.c:5109 |
| `BeginDelay`, `AddToDelayed`, `YieldAsleep` | `vTaskDelay`, tasks.c:2458, and `prvAddCurrentTaskToDelayedList`, 8579 |
| `PlaceOnEventList` | `vTaskPlaceOnEventList`, tasks.c:5296 |
| `vTaskSuspendAll`, `xTaskResumeAll`, `UnwindTick`, `LeaveResumeAll` | tasks.c:3837 and 4011 |

Delayed lists are sequences of items in the order of their wake times; a ready
list is a sequence that begins at `pxIndex` and holds the end marker, so that
"next", "insert before the index" and "remove the item the index is at" are
what the code does with pointers (`Among`, `Others` and `OfPriority` pick the items
of a list by what they hold).  Priorities are below `configMAX_PRIORITIES`.  `uxTopReadyPriority` is the set of its bits,
`switch` the pending software interrupt.  `pc` is what a task is in the middle
of; the tick interrupt, events and the switch come between any two of its steps
except in the critical section of `xTaskResumeAll`.  `TickType_t` counts
modulo `MaxDelay + 1`.

`vTaskDelay(portMAX_DELAY)` sleeps that many ticks; a wait with that timeout
puts the task on the suspended list, where only the event finds it.
`xNumOfOverflows` is left to `TimeOut`, the only reader.

`Sleepers` is what delays and waits promise without a tick count or a list:
each sleeping task has a number of ticks to go, a tick takes one off, an event
wakes a waiting task of the highest priority.  `ImplementsSleepers` states that
`Kernel` implements it; `ToGo` is the mapping from wake times to ticks to go.

### Queue and Mailbox

| Specification | Code |
|---|---|
| `prvCopyDataToQueue`, `prvCopyDataFromQueue` | queue.c:2393 and 2476: to the back, to the front, overwriting |
| `Send`, `Receive`, `Peek` | one turn of the loops of `xQueueGenericSend`, `xQueueReceive`, `xQueuePeek`, with whom they wake |
| `PrepareToWait`, `Wait`, the steps between them | `vTaskSuspendAll`, `prvLockQueue`, the look at the queue, `vTaskPlaceOnEventList`, `prvUnlockQueue`, `xTaskResumeAll` |
| `xQueueGenericSendFromISR`, `xQueueReceiveFromISR` | the forms for interrupts, which only count while the queue is locked |
| `TimePasses` | the timeout of a blocked task |

A step is a critical section, or a part of a call made with the scheduler
suspended; interrupts come between any two.  Which ready task runs is left open,
so that every schedule of the kernel is among those explored.  `Mailbox` is a
bounded first-in first-out buffer with atomic operations; `ImplementsMailbox`
states that `Queue` implements it.  A semaphore is a queue whose items are alike.
`xQueueReset` wakes one sender only, by the source; the others go on with the
next receive.

### Mutex

Taking, giving, waiting with and without a timeout and `vTaskPrioritySet`, for
any number of tasks and mutexes, one inside another: `xTaskPriorityInherit`,
`xTaskPriorityDisinherit`, `vTaskPriorityDisinheritAfterTimeout`.  The most
urgent ready task runs.  The item value by which a task is sorted on an event list
is a variable of its own, since the code does not always keep it with the
priority.  `MutexAssumption` says what a use is: a finite set of mutexes, which of
them are taken inside which, and the priorities that are set.  `Inheritance` is stated where nothing makes it wrong: the finding
`mutex_order` says where it is.

### TimeOut

`vTaskInternalSetTimeOutState` and `xTaskCheckForTimeOut` on a tick that wraps,
compared with time that does not.  `NeverEarly`: no wait is reported over too
early.  `RemainingExact`: as long as somebody looks once a round of the tick the
time left is exact.  `WaitsExact` is the two of them.

### Notification, EventGroup, StreamBuffer

`Notification` is one task that waits (`ulTaskGenericNotifyTake` or
`xTaskGenericNotifyWait`), and another one and interrupts that notify, suspend
and resume it; waiting for ever and being suspended put a task on the same list.
`EventGroup` is any number of tasks that set, clear, wait and meet.
`StreamBuffer` is one writer and one reader; accesses to what the other side
writes are steps of their own (`Sees`, `Write`, `PublishHead`, `Read`,
`PublishTail`).  A reader that was woken at exactly the trigger level is given
what is there; one with a shorter read is not made to wait.

### Application and Heap1

`Application` has the busy loop of `my_first_task` (`Look`, `Restart`), the
driver's delays in `my_second_task` (`BeginDelay`, `enc624j600_hal_delay`) and
its sleep, on a tick that wraps.  main.c:122 speaks of two seconds; the code
toggles every 500 ms, and `enc624j600_hal_delay` waits milliseconds where its
declaration says microseconds.  `Heap1` is `pvPortMalloc` with an array at any
address and sizes that wrap.  With the sizes in this repository two of its
precautions are redundant: 8192 is a multiple of the alignment, so that the
reduction of `configADJUSTED_HEAP_SIZE` is only needed for the address, and a
size whose rounding wraps would be refused later anyway.

### Tcp

| Specification | Code |
|---|---|
| `Output`, `OutputAll`, `OutputSegment`, `StartPersist` | `tcp_output`, tcp_out.c:1240, with Nagle, both windows and the persist timer |
| `WriteData`, `SendFin`, `EnqueueFlags`, `SplitUnsent` | `tcp_write`, 392; `tcp_send_fin`, 1004; `tcp_enqueue_flags`, 1035; `tcp_split_unsent_seg`, 829 |
| `RexmitRto`, `Rexmit`, `RexmitFast`, `ZeroWindowProbe` | tcp_out.c:1634, 1727, 1786, 2185 |
| `ReceiveAck`, `NewAck`, `DupAck` | the acknowledgement in `tcp_receive`, tcp_in.c:1162-1345 |
| `TrimFront`, `InOrder`, `Drain`, `Queue`, `OosInsert` | the data in `tcp_receive`, 1379-1893 |
| `Process`, `ProcessSynSent`, `ProcessSynRcvd`, `ProcessRst`, `AfterReceive` | `tcp_process`, 790 |
| `TcpInput`, `Input`, `Finish`, `ListenInput`, `TimeWaitInput` | `tcp_input`, 118; `tcp_listen_input`, 629; `tcp_timewait_input`, 741 |
| `UpdateAnnWnd`, `Recved`, `ProcessRefused`, `Close`, `Abort`, `Connect` | tcp.c:934, 972, 1543, 347, 565, 1071 |
| `RtoExpires`, `PersistExpires`, `GiveUp`, `StateExpires`, `OoseqExpires` | `tcp_slowtmr`, tcp.c:1196 |
| `FastTimer` | `tcp_fasttmr`, 1483 |
| `RecvEvent`, `ClosedEvent`, `Write`, `Read` | `recv_tcp`, `lwip_netconn_do_writemore`, `netconn_recv_data_tcp` |
| `Deliver`, `Lose` | the network (external) |

A client that has called `tcp_connect` writes the bytes 1, 2, ... and closes; a
server accepts, reads to the end and closes.  A control block is a record
`pcb[e]`; an operator takes it and returns it changed, as the C functions do,
and `out` collects the segments it sent.  One action is one turn of
`tcpip_thread`.  `taken` is the history of what went into the mailbox, `inbox`
the lengths of what is still there.

`wire` is a set: segments overtake each other, and two copies of one segment
that are exactly alike count as one.  As in `lwipopts.h`, window and send buffer
are two segments, hence `ssthresh` never leaves `TCP_WND` and the congestion
window only matters below it.  Left out: allocations that fail, keepalive, the
estimate of the round trip (a timer may expire when nothing is in flight, and
`plan.early` times before), closing that is tried again for want of memory,
urgent data, options.  The `tcp_output` at every other turn of the slow timer is
left out because `NothingWaits` shows that it has nothing to do.  FINs that
cross (the state CLOSING), and data that come behind the server's FIN and are
answered with a RST, happen in the plan whose server closes when it likes.

Noted and not a property: when Nagle's algorithm holds a segment back,
`tcp_output` leaves its loop (tcp_out.c:1347-1349) without the empty
acknowledgement it would have sent with no data at all, so that an immediate
acknowledgement waits for the fast timer.

Nor is it a property that a RST answers data which reach an end that has closed
("to notify the remote host that not all data has been processed", tcp_in.c:488).
When the FIN overtook the data, the segment with the data also moves the pcb to
TIME_WAIT, and `tcp_abandon` (tcp.c:581-583) frees such a pcb without a RST
(`Abort`): the remote host gets one only when it retransmits.

### SysTimeouts

| Specification | Code |
|---|---|
| `sys_timeout`, `sys_timeout_abs`, `sys_untimeout` | `timeouts.c`:290, 181 and 317, with the pool of timers |
| `RegisterPcb`, `tcpip_tcp_timer` | `tcp_timer_needed` and the timer that starts itself again, 143-176 |
| `NextCyclic`, `lwip_cyclic_timer` | 232, with the timer of ARP as the cyclic one |
| `Fetch`, `FetchNothing`, `Wake`, `LockAfterTimeout` | `tcpip_mbox_fetch`, api/tcpip.c:93, with the core lock given back and taken again |
| `CallHandler`, `CheckEnds` | the loop of `sys_check_timeouts`, 352 |
| `tcpip_thread_handle_msg`, `OtherThread` | what messages, and other threads under the core lock, do to the timers |

`TimeoutsAssumption` asks for intervals of at least a millisecond which, with what
a timer can be late, are less than half a round of the clock, so that times can be
compared, and for a pool with a place for each timer; `opt.h` has both.  Each timer
carries, as history, the milliseconds until it is due by a clock that
does not wrap.  `TimersOnTime` compares: the list is in the order of time, no
handler is called early, and none is later than the longest sleep.  The last
bound is not 0, by the source: a thread that starts a timer while `tcpip_thread`
sleeps does not shorten the sleep, and a timer can be late by as much as the
thread would have slept for the one that was first.

### Arp

One action is one call of `etharp_output` (and `etharp_query` in it),
`etharp_input`, `etharp_tmr` or `etharp_cleanup_netif`; `Recycled` is the choice
of `etharp_find_entry`.  `sent` is what the call gave to `ethernet_output`, and
`heard` the history of what each host with an entry said last.  `RightAddress`
relates the two.  An entry that is freed is cleared completely because
`lwipopts.h` defines `LWIP_DEBUG`.  Noted where a comment and the code differ,
and not properties: `ARP_MAXPENDING` is 5, where etharp.c:72-77 speaks of 10
seconds; and `etharp_tmr` sends the requests of pending entries again
(etharp.c:225-228), which the comment at etharp.c:982-984 says it does not.

### Mem

lwIP's own heap, as `lwipopts.h` configures it: no `malloc` of the C library, no
pools, nothing freed from interrupts.

| Specification | Code |
|---|---|
| `ram` | the `struct mem` at each address that is one now, `ram_end` included |
| `Fits`, `Taken`, `FreeFrom` | the search of `mem_malloc`, the cut of what it finds, and the next `lfree`, mem.c:857-935 |
| `mem_free`, `plug_holes`, `plug_holes_lfree`, `mem_link_valid` | mem.c:604, 461 and 538 |
| `BeginTrim`, `mem_trim` | `mem_trim` up to where it takes `mem_mutex` (mem.c:738), and from there on |

`blocks` is history: what callers asked for.  They free and trim what they were
given, and one at a time trims.  `HeapSound` is what `mem_sanity` would assert
if it were compiled in, with what callers rely on: areas follow each other
without a gap and are linked both ways, no two free ones are neighbours, `lfree`
is the first free one, and no block is smaller than what was asked for.

Noted and not a property: the assertion in the second branch of `mem_trim`
(mem.c:777), that the block is not the last one, is false whenever the last
block is shrunk far enough, since `ram_end` counts as used.  `lwipopts.h`
disables assertions, and the branch does the right thing for that block too.

### Pbuf

The packet buffers of lwIP and the pool of `memp.c` that most of them come from.

| Specification | Code |
|---|---|
| `pbuf` | the allocated pbufs: `next`, `tot_len`, `ref`, the room in front of `payload`, the `len` bytes from there on; the rest of `Pool` is what `memp_malloc` can return |
| `call` | where a thread is in the loops of `pbuf_alloc` and `pbuf_free`: each turn is a step, because the pool and `ref` are protected a turn at a time |
| `Begin`, `AllocPool`, `NoneLeft` | `pbuf_alloc` of a `PBUF_POOL` chain, pbuf.c:240-275, with the `pbuf_take` of its caller at the end |
| `pbuf_pool_is_empty`, `tcpip_try_callback`, `Unset`, `pbuf_free_ooseq` | the request to give up what came out of order, pbuf.c:104-174 |
| `pbuf_free`, `Decrement`, `Dispose` | `pbuf_free`, pbuf.c:729-801: take one off `ref`; give the pbuf back and go on to the next |
| `AllocRam`, `pbuf_ref`, `pbuf_cat`, `pbuf_chain`, `pbuf_dechain`, `pbuf_realloc`, `pbuf_add_header`, `pbuf_remove_header`, `pbuf_free_header`, `pbuf_clone`, `pbuf_coalesce` | the functions of these names, and `pbuf_alloc` of a `PBUF_RAM` |
| `Give` | a packet goes through a mailbox, or onto a control block's `ooseq` and off it |

`held` is history: which packets each thread and each control block refers to,
and the bytes it put there.  Threads obey the comments of `pbuf.c`: they change
what they alone refer to, and give up the reference that `pbuf_cat` takes over.
`PbufsSound` is what pbuf.h:193-199 and 213-217 say of `tot_len` and `ref`, for
every state between two steps of any thread, with the bytes each owner sees, and
the one request for each time `pbuf_free_ooseq_pending` is set.

Noted and not a property: threads of the model do not chain an empty packet
behind another.  `pbuf_copy_partial_pbuf` takes a pbuf with as many bytes as all
of the rest for the last of its packet and refuses the chain if another follows
(pbuf.c:1033-1042), even an empty one, and before it has copied it; `pbuf_clone`
then returns a copy that is not complete, since assertions are disabled.

## 3. The runs

| Run | Instance | Shows |
|---|---|---|
| `receive_short` | a ring of 224 bytes, stored frames of 72, 76 and 80 bytes, six frames, a counter of eight bits and one that saturates at 2 | reception loses, repeats, reorders and miscounts nothing, its pointers agree, it implements `RxFifo`, and every stored frame is delivered |
| `receive_tail` | the ring of `enc624j600_init`, frames of 1024 bytes | *violation*: `ERXTAIL` leaves the ring |
| `driver` | `enc624j600_init` with a link that is lost twice; calls of `enc624j600_transmit` in the area it sets up: three frames of 7, 8, 45, 1500 or 1501 bytes, seven of 1500 bytes, both modes | the configuration is complete, is not wiped, agrees on the duplex mode and is reached; what goes out is what was asked for, `SUCCEEDED` is answered for exactly the frames that went out, calls return |
| `transmit_refused` | half duplex, one deferral | *violation*: every later call is refused |
| `kernel_time` | tasks of priorities 1, 2, 2 and the idle task; a tick that wraps after 4; delays of 1 and `portMAX_DELAY` | tasks wake when they asked to or at their event, lists agree, the highest priority runs, equals take turns, `xTaskResumeAll` makes up for what happened meanwhile |
| `queue_uses` | four uses of a queue of one or two slots: one task and interrupts everywhere in the ring; two tasks with timeouts; three readers; three writers | it is a mailbox, no wake-up is lost, sends return |
| `mutex_order` | four tasks, two mutexes, one inside the other | *violation*: after a timeout the holder is given too low a priority |
| `services` | timeouts on a tick of eight values, three rounds of it; three tasks and two mutexes; one waiter with notifications up to 2; three tasks in an event group, three calls each; a stream buffer of 3 and a message buffer of 5; the tasks of `main.c`; a heap of 18 bytes, aligned to 4; one of lwIP with 24 bytes, headers of 2 and areas of at least 4; lwIP's timers on a clock of 16 values; an ARP table of two for three hosts; three pbufs of one thread, and two that two threads and a control block share | waits are exact, priority is inherited, notifications are seen, nobody misses a rendezvous, a ring is a pipe, delays are kept, blocks do not overlap, areas stay linked and joined, timers are on time, packets go to the right address, packet buffers are counted and intact |
| `tcp_stream` | four plans: three bytes and a lost segment; two bytes and an early timer; five bytes, more than the window, and a lost segment; a server that closes first | the stream is intact and complete, the sender keeps what it must, windows do not leak, nothing that could be sent waits, control blocks return |
| `tcp_split` | five bytes and the FIN at once | *violation*: the FIN is in front of the last bytes |
| `tcp_eof` | three bytes, a FIN that finds the mailbox full | *violation*: the reader waits for the end for ever |
| `tcp_window` | as many bytes as the window, and the FIN | *violation*: the window goes below 0 |

### Bounds, and why they are enough

* *The short ring.*  72 + 76 + 76 bytes are the ring exactly, so that a frame
  can end at its last byte, and other orders of sizes end on either side of it.
  Of three frames that would fill the ring the third is refused for want of the
  two reserved bytes, and three smaller ones fit: the ring is full, empty and
  wrapped in all alignments within six frames.  71 bytes is an odd length.
  Nothing in the code depends on the size of the ring; the proofs cover every
  size.
* *`MaxFrames`* in the receive runs bounds arrivals only; the driver can always
  be called.  In `driver` it bounds the frames asked for: five of the longest fit
  in the area, the sixth wraps, and the seventh lies over the first ones; three
  mixed ones pass every branch twice.
* *`PktMax`* is 255 where it must not matter and 2 where saturation must.
* *`MaxPauses`, `MaxFlaps`* are 2: one during a call or phase and one after it.
* *`MaxDelay`* is 3: wake times before, at and after the wrap exist for
  every tick count, and a task can sleep across the whole cycle.  *`MaxPended`*
  is 2, so that a wrap can happen in the middle of the ticks
  that are made up for.  *`MaxNested`* is 1: the program suspends the
  scheduler itself, besides the calls that block.
* *Queues* of one and two slots: full, empty and in between, with an end of the
  ring that is crossed; with three tasks one can be woken, one wait and one come
  new.
* *`MaxTicks`, `MaxSilence`* let three rounds of the tick pass, and a whole round
  between two looks.  *`MaxRounds`* lets each task of an event group make three
  calls: a fast one can be in its third when a slow one leaves the first.
  *`MaxValue`* is 2: a count that is taken once and not empty.  The stream
  buffer's trigger level of 2 is above a read of 1 and the message of 4 bytes
  with its length does not fit in 5.
* *The heap's* 18 bytes are not a multiple of the alignment, and 31, the largest
  `size_t`, makes sums wrap.
* *lwIP's heap.*  24 bytes hold four of the smallest areas: one between two free
  ones, beside a fourth that is used.  Every size up to 31, the largest
  `mem_size_t`, is asked for: none, odd ones, ones that fit with and without a
  rest to cut off, and one whose rounding wraps.
* *lwIP's timers.*  A clock of 16 with intervals of 1, 2 and 3 wraps again and
  again while timers are in the list; `Slow`, the time a message or a handler
  takes, is 3, so that the cyclic timer can miss its next time.  The pool has as
  many places as there are timers, as in `opt.h`; `UserTimers` is 1: one timer
  of a callback between the TCP and the ARP timer, in every order.
* *ARP.*  Three hosts for two entries: one always has to be taken from another
  host.  An entry gets too old at 5 and is asked for again at 2 and 3, a pending
  one is dropped at 2, so that every age of the code occurs.
* *Packet buffers.*  A pbuf of the pool holds two bytes and one beside a header:
  a packet of two takes two pbufs.  One thread chains and cuts what three pbufs
  hold, three bytes at most; two threads and a control block share two, so that
  the pool is empty again and again, also in the middle of a chain.
* *TCP.*  Two bytes are a segment and four the window, as two segments are in
  `lwipopts.h`, so that a segment can be full, half full and split; five bytes
  close the window.  The client's numbers wrap in the handshake.  Sequence
  numbers count modulo 64 and windows modulo 16, with the proportions the
  comparisons need.  `MaxRtx` is 2: it is reached, and the connection given up.
* `CHECK_DEADLOCK FALSE` stands where a model does stop: callers run out of
  frames, `enc624j600_init` returns, a connection is closed.  Reception, the
  kernel, queues and services never stop.

### Fairness, and why the code justifies it

* `EncReceive`: weak fairness of the driver's steps, since the task that calls
  it has the highest priority and calls in an endless loop.  None of arrivals.
* `EncTransmit`: weak fairness of the steps of a call, of the caller trying
  again, of the hardware ending a transmission it started, and of the peer
  ending its pause.  `EveryCallReturns` rests on the third: the loop on `TXRTS`
  at driver.c:1207 has no limit of its own.
* `EncInit`: weak fairness of the driver, of the chip's resets, of MII
  operations, of negotiation and of the link, as with a cable plugged in: the
  loops at driver.c:1112-1120 have no limit either.  The losses of the link are
  finitely many.
* `Kernel`: strong fairness of the tick, whose interrupt flag stays set until it
  is taken, however often interrupts are disabled in between; weak fairness of
  the software interrupt, which nothing else takes back; strong fairness of the
  running task's work in the kernel, which interrupts only delay, and of ending
  a suspension of the scheduler.  None of events, and none of what the program
  does of its own accord.
* `Queue`: strong fairness of each task in the middle of a call and of its
  timeout: time slices and ticks come again and again but are held back while
  the scheduler is suspended.  None of new calls and of interrupts.
* `Notification`: strong fairness of the waiter and of its timeout, weak fairness
  of ending a suspension of the scheduler.  `Application`: weak fairness of the
  tick and of each task's steps, which are only enabled when the task runs.
* `MCEncDriver` and `Services` demand this of the module that was drawn; the
  others have no fair step enabled.
* `Tcp`: segments that are neither lost nor overtaken for ever arrive, timers
  that are due expire, the reader reads, and both ends close when they are done:
  weak fairness of each, its enabling condition written out.  None of writing
  and none of loss, which is bounded.

### Findings

* `receive_tail`: `next_receive_frame_pointer - 2U` at driver.c:1294 is not
  wrapped into the ring.  When a frame ends exactly at the end of the ring the
  next one starts at 0x2000 and `ERXTAIL` becomes 0x1FFE, outside of the
  ring 0x2000..0x5FFF; the comment at driver.c:1239 says that it "must be two
  bytes behind the next frame", which is 0x5FFE.  As long as it is outside,
  `ERXHEAD` can never meet it and the hardware's full check is off.
* `transmit_refused`: in half duplex a call is refused with
  `ENC_FLOW_CONTROL_ACTIVE` when `ETXSTAT.DEFER` is set, which describes the last
  transmission.  After one that had to wait, every call is refused before it
  transmits, so that `DEFER` never changes again; the header calls the
  condition "temporary".
* `mutex_order`: after a timeout queue.c:1854 gives the holder of a mutex the
  priority of the first waiting task, "the next highest priority task that is
  waiting" (queue.c:1848-1852).  A task that waits for one mutex while it holds
  another can inherit, or lose what it inherited, while it is on that list, and
  tasks.c:6660 and 6889 change the value it is sorted by without moving it: the
  first task is not the most urgent one.
* `tcp_split`: tcp_out.c:938 means to take the FIN from the first part of a
  segment that is split, but `TCPH_SET_FLAG` can only set flags.  The reader is
  told of the end of the stream before the last bytes, which are then lost.
* `tcp_eof`: recv_tcp (api_msg.c:334) refuses whatever the mailbox has no room
  for, "it is presented to us later again from tcp_fasttmr"; that is done for
  data, not for the end of the stream when it comes by itself.  The reader waits
  for ever.
* `tcp_window`: a segment that is first in `ooseq` is not cut to the window; with
  a FIN behind data that fills the window exactly the assertion at tcp_in.c:1585
  is false, and as `lwipopts.h` disables assertions the window wraps below 0 and
  is announced as 65535.

The last three are in code this program contains and configures but does not
start yet.

## 4. The proofs

`EncReceive_proofs` proves, for every ring, every set of frame lengths that
fit, every width of the packet counter and any number of frames:

| Theorem | Says |
|---|---|
| `Typed` | `Spec => []TypeOK`, which no run checks; with it, `PKTCNT` is never counted below 0 |
| `NothingUnreadIsLost` | `Spec => []UnreadIntact` |
| `DeliveredInOrder` | `Spec => []InOrder` |
| `CountedExactly` | `Spec => []PendingCounted` |
| `Agreement` | `Spec => []PointersAgree` |
| `InStep` | `Spec => []DriverInStep`, the three before at once |
| `Implementation` | `Spec => ImplementsFifo` |

Assumptions: `ReceiveAssumption` of `EncReceive` (the ring does not start at
address 0 or 1, a stored frame fits in it, lengths and garbage are 16 bits
wide) and `RingAssumption` of `EncRing`.  TLC evaluates both in the receive
runs.

The type invariant is not inductive alone: `PKTCNT` stays a natural number only
because a call that is past its first test has a frame to finish, which is
`PendingWhileReading`.  The rest follows from

    IInv == TypeInv /\ StartsDistinct /\ (escaped \/ Sound)

where `Sound` is the conjunction of these parts, each of which the step of
another one needs:

* `InUse`: the bytes in use begin two after `ERXTAIL`, where the oldest frame
  held (delivered or not, its bytes not given back) starts, end at `ERXHEAD`,
  and are at most all but two of the ring;
* `Laid`: each frame held lies in them, and is intact;
* `Chained`: each frame held begins where the one before it says it does, and
  the last one says where `ERXHEAD` is;
* `OnTrack`: at each of the eight transactions, what the driver holds (its
  pointer, `ERXRDPT`, the frame it is reading) is what that place in the code
  needs;
* the delivered frames are 1, 2, 3, ... and the counter counts the rest.

`escaped` is necessary in it: once `ERXTAIL` is outside of the ring the
hardware may overwrite anything, and none of the parts survives.
`StartsDistinct`, that no two intact frames begin at the same address, does
survive, and makes what the driver reads at an address one frame.  The step has
one lemma per action; the arithmetic of the ring (`DistAdvance`, `DistRebase`,
`SpansApart`, `FitsInRest`) is in lemmas of its own, as the rest is in terms of
distances.  `Implementation` uses `IInv` and shows that every step of
`EncReceive` is one of `RxFifo` or none.

`EncDriver_proofs` proves of `EncTransmit`, for every area that holds the longest
frame, any lengths of 16 bits, both duplex modes, any number of frames and
pauses; and of `EncInit` (`BootSpec` is it without its fairness), for any number
of lost links:

| Theorem | Says |
|---|---|
| `WireIsSound` | `Spec => []WireIntegrity` |
| `AnswersAreHonest` | `Spec => []SuccessIsHonest` |
| `ConfigurationIsSafe` | `Spec /\ BootSpec => []ConfigurationSurvives` |
| `DuplexIsAgreed` | `BootSpec => []DuplexAgrees` |
| `NothingIsDisturbed` | `BootSpec => NothingDisturbed` |

`TransmitAssumption` asks for an area of at least 1508 bytes, which the one of
the driver is; the lemma `RunsAreInstances` says that what the run explores,
under its loads, are behaviours of both.  `WireIntegrity` speaks of frames that
went out; the invariant `TransmitInv` of how they got there: no two spans of the
area begin at the same byte and none is of a frame to come (`SpansSound`), the
write pointer has followed the parts of the frame (`PointerFollows`), which lie
where it was (`PartsInPlace`, where it matters that a frame is not longer than
the area), the registers say so (`RegistersSet`), and the frame is out after its
transmission exactly if the status is that of success (`OutcomeKnown`).
`BootInv` says of each place in `enc624j600_init` what has been written and not
been taken away (`RegistersKnown`, `PhyKnown`), that the value of `EUDAST` tells
which resets are over (`ResetKnown`), what the MII interface is doing for
whom (`MIIKnown`), and that the duplex mode does not move under the driver's feet
unless the link was lost (`DuplexKnown`).

`Queue_proofs` proves of `Queue`, for any finite set of tasks, any priorities,
items, lengths and uses:

| Theorem | Says |
|---|---|
| `ListsSound` | `Spec => []ListsAgree` |
| `QueueIsMailbox` | `Spec => ImplementsMailbox` |
| `NobodyOverslept` | `Spec => []NoWakeUpLost` |

`QueueAssumption` is all it assumes: there is no item or task called `Nothing`,
and `xQueueOverwrite` is for queues of one item, which the code asserts.  The
invariant `QueueInv` adds to the types who may be where: the task that suspended
the scheduler is the one in the blocking part of its call, and how far the queue
is locked tells how far that is (`HolderKnown`); a task that sleeps has started
the clock, and time is left (`CallsKnown`); a list holds the tasks whose calls it
is for (`ListsKnown`); the writing position is as far from the reading position
as there are items (`RingKnown`), from which each copy is a step of the mailbox.

`NoWakeUpLost` counts tasks, and only while nobody suspends the scheduler.  What
is inductive holds always: `WakeUpsKnown` says that, while tasks wait on a list
for `n` items or places, the tasks on their way, those to be made ready when the
scheduler goes on among them, and the wake-ups that `prvUnlockQueue` still owes
are `n` or more together, or the lock has reached its limit and stands for more
than all of them (`Serves`); and that what came after a task found the queue full
or empty, and before it is on the list, has been counted in the lock
(`CallersKnown`).  That the limit, `uxTaskGetNumberOfTasks`, is enough is part of
the proof: no list holds that many.  Three steps a test would not show are why
the parts are needed: an interrupt between the look and `PlaceOnEventList`, one
after it, and a task that peeks, which must pass the item on.

`Kernel_proofs` proves of `Kernel`, for any tasks and priorities, any width of the
tick, any delays, and any depth of suspending the scheduler:

| Theorem | Says |
|---|---|
| `ListsSound` | `Spec => []ListsAgree` |
| `HighestPriorityRuns` | `Spec => []HighestRuns` |
| `ResumeAllYields` | `Spec => ResumeYields` |
| `KernelIsSleepers` | `Spec => ImplementsSleepers` |

`KernelAssumption`: the idle task is created last and has the lowest priority, and
delays are not longer than `portMAX_DELAY`.  `KernelInv` says of time that the wake
times of this round are ahead and those of the next one behind the tick count,
and that none is before `xNextTaskUnblockTime` (`TimeKnown`); of lists that each
is sorted and has no task twice (`SleepersKnown`, `WaitersKnown`), and that the
ready lists have exactly those that are on no other (`ReadyKnown`); of the
calls, where the scheduler is suspended and when the task that runs may be asleep
(`CallsKnown`); that the idle task never sleeps (`IdleAwake`), without which
`vTaskSwitchContext` would find nobody; and that no ready task is more urgent
unless a switch is to come (`UrgencyKnown`).  `ResumeAllYields` includes the
assertion of `taskSWITCH_DELAYED_LISTS`: a wrap finds the list empty because its
wake times are past.  `KernelIsSleepers` maps wake times to ticks to go: a task
whose tick has come while the scheduler was suspended has none to go, and
`xTaskResumeAll` makes up for the pended ticks one at a time.

`Mem_proofs` proves of `Mem`, for every size of the heap, of a header and of the
smallest area, every alignment and every width of `mem_size_t`, and any order of
calls:

| Theorem | Says |
|---|---|
| `Typed` | `MemAssumption => (Spec => []TypeOK)` |
| `Sound` | `MemAssumption => (Spec => []HeapSound)` |

`MemAssumption` says that sizes are multiples of the alignment and that the heap
holds one of the smallest areas.  TLC evaluates it as part of
`ServicesAssumption`.  `HeapSound` is not inductive: the invariant is

    IInv == Linked(ram) /\ Separated(ram) /\ LfreeLowest /\ BlocksHeld /\ TrimHolds

`Linked` adds to it that each header's `prev` is a header whose `next` leads
back, which `plug_holes` relies on and which follows from `HeapSound` only along
the whole list; `TrimHolds` says that the
size `mem_trim` read before it locked the heap is still the size, because a used
block is only changed by its owner.  The argument is in lemmas about headers as
functions, free of states: `SplitAreas` and `JoinAreas`, that cutting and joining
keep `Linked` and leave the other areas alone, and `PlugHoles`, that joining on
both sides restores `Separated` and does not move `lfree` above a free area.  The
remainders, like those about parts of sequences, are in `Lemmas`.

`Services_proofs` proves of `Services` what follows, for every value of its
constants; all it assumes is `ServicesAssumption`, which TLC evaluates, for its
instance, in `services`, and `TimeOutAssumption` and `SilenceAssumption` of `TimeOut`:

| Theorem | Says |
|---|---|
| `EachAlone` | `servicesSpec` implies the specification of each part |
| `Typed`, `Exact` | `Spec => []TypeOK` and `Spec => []WaitsExact`, of `TimeOut` |
| `DelaysAreKept` | `servicesSpec => Application!DelayIsLongEnough /\ Application!ToggleIsSpaced` |
| `PrioritiesAreInherited` | `servicesSpec => []Inheritance` |
| `BlocksStayApart` | `servicesSpec => []BlocksApart` |
| `HeapStaysSound` | `servicesSpec => []HeapSound` |
| `NotificationsAreSeen` | `servicesSpec => []NotificationsSeen` |
| `RendezvousIsKept` | `servicesSpec => []Rendezvous` |
| `TimersKeepTime` | `servicesSpec => []TimersOnTime` |
| `AddressesAreRight` | `servicesSpec => []RightAddress` |

The first lets each of the others be about one part only; its proof is that a step of
one part leaves the variables of the others alone.

* *Time calls wait* (`IInv`).  Any width of the tick, any number of ticks.
  `SilenceAssumption`, that a task that waits looks at least once a round of the
  tick, is needed: one that looks later cannot tell how many rounds there were.  The
  invariant relates the tick and `xNumOfOverflows` to the time that does not wrap, and
  what the `TimeOut_t` remembers to the moment it was set.
* *The application's delays* (`ApplicationInv`).  Any width of the tick and any delays.
  While a task waits, what it computes from two values of the tick, modulo its width, is
  no more than what has passed: the wrap can make a wait longer, when a task that was kept
  from looking misses a round, and never shorter.
* *Mutexes* (`MutexInv`).  Any tasks, priorities, finite sets of mutexes and ways to use
  them.  `uxMutexesHeld` counts the mutexes a task holds (`HoldersKnown`), without which
  the tests of that counter in tasks.c would give a priority back too early or never; a
  list has the tasks that wait for its mutex, each once (`WaitersKnown`).  That the
  holder is urgent enough needs more, and holds only where nobody waits for a mutex
  while he holds another and no priority is set (`FlatInv`): then a task holds one
  mutex at most, the value it is sorted by is its priority, so that the first of a list
  is the most urgent one (`UrgentFirst`), and, between the release of a mutex and its
  being taken, a task as urgent as all that wait is on its way to it (`TakerUrgent`).
  The finding `mutex_order` shows that `UrgentFirst` fails without that condition.
* *heap_1* (`HeapInv`).  Any size, alignment, address and width of `size_t`.  All blocks
  lie in the used part of the aligned array, which ends at a multiple of the alignment;
  without it a new block could overlap an older one.  What `pvPortMalloc` adds to a
  size, and that a size whose rounding wraps is taken for nothing, is the lemma
  `RoundedUp`.  lwIP's heap is an instance of `Mem_proofs`.
* *Notifications* (`NotifyInv`).  Any bound of the value.  From its second look on the
  task is marked as waiting, and has the scheduler suspended until it has blocked:
  whoever notifies it readies it, or leaves it to the end of the suspension.
* *Event groups* (`GroupInv`, `MeetInv`).  Any tasks, bits and calls.  Where tasks only
  meet, the bits that are set are those of the tasks that wait, and how often each has
  met the others is the same number for all (`Met`), however many rounds one of them
  begins before another has left the last.
* *lwIP's timers* (`TimersInv`).  Any width of the clock, intervals, delays, number of
  timers and time the thread may be kept.  A timer's time is that of the clock and what
  is left of it, modulo the round (`TimerKnown`); what is left of any two differs by
  less than half a round, by which the code's comparison is the one of the times that
  do not wrap (`Compared`, which rests on the lemmas about remainders in `Lemmas`).
  The lower bound is `Floor`: how late a timer can be depends on what the thread is
  doing, and it sleeps no longer than the ARP timer takes, which is always in the list
  and first at the latest.  The counts of `PoolKnown` leave room in the pool whenever
  a timer is started, so that none is dropped.
* *ARP* (`ArpInv`).  Any table, hosts, addresses and ages.  An entry that is stable has
  what its host said last (`EntryOk`); no host has two (`Single`); and so the index
  etharp.c remembers may be stale, since it is compared before it is used.

`Buffers_proofs` proves of the stream and message buffers, for any length, trigger
level, sizes of reads and sends, and number of bytes of a length, and of the packet
buffers, for any threads, pools, sizes and control blocks:

| Theorem | Says |
|---|---|
| `RingIsAPipe` | `servicesSpec => []IsPipe` |
| `ReclaimsOnce` | `PbufAssumption => (Spec => []ReclaimOnce)`, of `Pbuf` |

`StreamAssumption` asks for a ring of at least two bytes, a trigger level of at least 1
and, of messages, a length in front.  Head and tail are written by one side each and read
by the other at any time.  `RingInv`: what lies between them is what was sent and not
taken, byte by byte; `WriterInv` and `ReaderInv`: what a side has seen is still true, or
was too little, when it acts on it, and what it has written or read lies beyond the head
or behind the tail it publishes; `FramesInv`: the pipe is cut into whole messages, at
places that the amount a reader saw respects; `WakeInv`: a side that waits is registered
and, if there is something for it, the other is about to notify it.

`ReclaimOnce` is the part of `PbufsSound` about the empty pool: the flag is set exactly
while one thread is about to post the request or has failed to, or the request waits for
`tcpip_thread`.  `ReclaimInv` adds where the calls can be.  All that is assumed is that
there are finitely many threads and that `tcpip_thread` is one of them.  It holds because
the flag is read and set in one step, and cleared by whoever failed to post or by the
thread that answers; a thread that cleared it at another time would find another's.

The invariants of `EncDriver_proofs`, `Queue_proofs`, `Kernel_proofs`,
`Services_proofs` and `Buffers_proofs` were checked with TLC, on the instances of the
runs, before they were proved.

### What is only model-checked

* every liveness property (`EveryFrameDelivered`, `EveryCallReturns`,
  `InitReturns`, `EqualsTakeTurns`, `SendsReturn`, `NobodySleepsOn`, `WaitEnds`,
  `WrittenArrives`, `PcbReturns`, and of `TimeIsKept` the part `GoesOnToggling`):
  the prover does not reach liveness under fairness;
* `Tcp`: its queues are processed by recursive operators, which the prover's
  arithmetic backend does not support, and its properties rest on what those compute
  for every queue, which takes induction over data.  The findings show that they do not
  hold for every pattern of writes and closing, only for those of the run;
* of `PbufsSound` the parts `Counted` and `Intact`: chains, and lengths and bytes along
  them, are defined by recursion, and that a step keeps them, or that the last of a chain
  is where another is linked, takes induction over data too;
* `ServicesTypeOK`, of which the invariants above contain the parts that other
  properties need.

## 5. What is not modelled, and why

* The bytes of SPI transactions and of frames, opcodes, the bank a register
  is in: the properties do not tell them apart.
* `phy_restart_auto_negotiation_process`, which has no caller.
* A link that is negotiated again after `enc624j600_init`: no operation of the
  driver reacts to it.
* Of `tasks.c`: creating and deleting tasks while the scheduler runs, more than
  one core, tickless idle and what else `FreeRTOSConfig.h` switches off.  Of
  `queue.c`: queue sets and the registry, configured out.  Of
  `stream_buffer.c`: resets, and the forms for interrupts, which take the same
  steps.
* `sys_arch.c`: its mailboxes and semaphores are `Queue`'s.  `sys_sem_free` and
  `sys_mbox_free` (sys_arch.c:302-312) end in `vPortFree`, which heap_1 answers
  with an assertion: a netconn cannot be freed on this heap.  No state of the
  program reaches it, since nothing starts lwIP.
* Of `timeouts.c`: `sys_restart_timeouts`, which has no caller.  Of `etharp.c`:
  static entries, queues of more than one packet and conflict detection, which
  `lwipopts.h` configures out.
* Of `mem.c`: the checks for overflow and of the list (`MEM_OVERFLOW_CHECK`,
  `MEM_SANITY_CHECK`), the variants with pools, with the C library and with
  freeing from interrupts, which `lwipopts.h` configures out, and callers that
  free what they were not given.
* Of `pbuf.c`: `PBUF_REF` and `PBUF_ROM`, what is configured out
  (`pbuf_split_64k`, custom pbufs, checksums), and the functions that only read
  or write bytes.  Of `memp.c`: the pools of other structures, and the checks.
* lwIP besides timers, its heap, packet buffers, ARP and one TCP connection: IP,
  ICMP, UDP, DHCP, DNS, PPP, IPv6, the socket layer (`LWIP_SOCKET`
  is not used by anything), and of TCP what section 2 lists.
* Harmony's start-up and peripheral code: pure I/O.

## 6. Plan

Done: the modules of section 2, with the proofs of section 4.  What could follow:

1. Of lwIP, what is configured and keeps state: `udp.c`, and `PBUF_REF`.
2. Of `Pbuf`, a proof that `ref` is the number of pointers, from an invariant that says of
   every pbuf, and not by recursion, where its chain goes on.

## 7. Running it

    tlc -config EncReceive_short.cfg MCEncReceiveFair
    tlc -config Tcp_stream.cfg MCTcp
    tlapm EncReceive_proofs.tla
    tlapm Services_proofs.tla

`PROJECT.json` names module and configuration of every run, the source lines
behind every definition, the wrong variants with the properties they violate,
the hazards and the findings.
