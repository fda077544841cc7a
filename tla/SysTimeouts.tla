---------------------------- MODULE SysTimeouts ----------------------------
(***************************************************************************)
(* timeouts.c and the loop of tcpip_thread: timers of the lwIP stack in a  *)
(* list sorted by a clock that wraps.  tcpip_thread sleeps on its mailbox  *)
(* until the first is due; while it sleeps, the core lock is free and      *)
(* other threads start timers, which does not wake it.                     *)
(*                                                                         *)
(* With ARP, which starts its timer at once and for good, the list is      *)
(* never empty when the thread looks: it never sleeps without a limit.     *)
(***************************************************************************)
EXTENDS Integers, FiniteSets, SequencesExt

CONSTANTS
    Round,          \* the values of sys_now(), a u32_t in milliseconds
    Pool,           \* MEMP_NUM_SYS_TIMEOUT
    TcpInterval,    \* TCP_TMR_INTERVAL
    ArpInterval,    \* ARP_TMR_INTERVAL
    UserTimers,     \* bound: timers that callbacks have at a time
    Delays,         \* bound: what they ask for
    Slow            \* bound: how long tcpip_thread is kept from sleeping again

LWIP_MAX_TIMEOUT == Round \div 2 - 1

\* What sys_timeout asserts of its argument, which is a millisecond at least; times that
\* are near enough to each other to be compared; and a pool that callbacks cannot empty.
TimeoutsAssumption ==
    /\ Round \in Nat /\ Slow \in Nat /\ Pool \in Nat /\ UserTimers \in Nat
    /\ \A d \in Delays \union {TcpInterval, ArpInterval} :
         /\ d \in Nat \ {0} /\ 4 * d <= Round
         /\ d + ArpInterval + Slow <= LWIP_MAX_TIMEOUT + 1
    /\ UserTimers + 2 <= Pool

VARIABLES
    now,                        \* sys_now()
    next_timeout,               \* the list
    tcpip_tcp_timer_active,
    tcp_pcbs,                   \* some control block is active or in TIME-WAIT
    thread,                     \* where tcpip_thread is
    sleeptime,                  \* what is left of its wait for a message
    checked,                    \* now, of sys_check_timeouts
    awake,                      \* history: how long it has not been waiting
    early                       \* history: how early the last handler was called

vars == <<now, next_timeout, tcpip_tcp_timer_active, tcp_pcbs, thread, sleeptime, checked,
          awake, early>>

\* "left" is history: the milliseconds until it is due, by a clock that does not wrap.
Timeout(time, h, left) == [time |-> time % Round, h |-> h, left |-> left]

TIME_LESS_THAN_Unwrapped(t, compare_to) == t < compare_to

TIME_LESS_THAN(t, compare_to) == (t - compare_to) % Round > LWIP_MAX_TIMEOUT

\* Behind those that are due at the same time.  Without a place in the pool, no timer.
sys_timeout_abs(list, timeout) ==
    LET later == {i \in DOMAIN list : TIME_LESS_THAN(timeout.time, list[i].time)}
        place == CHOOSE i \in 1 .. Len(list) + 1 :
                     /\ i \in later \/ i = Len(list) + 1
                     /\ \A j \in later : i <= j
    IN  IF Len(list) >= Pool THEN list ELSE InsertAt(list, place, timeout)

sys_timeout(list, msecs, h) == sys_timeout_abs(list, Timeout(now + msecs, h, msecs))

\* The first one with that handler, if there is one.
sys_untimeout(list, h) ==
    LET those == {i \in DOMAIN list : list[i].h = h}
        place == CHOOSE i \in those : \A j \in those : i <= j
    IN  IF those = {} THEN list ELSE RemoveAt(list, place)

Init ==
    /\ now = 0
    /\ next_timeout = <<Timeout(now + ArpInterval, "arp", ArpInterval)>>
    /\ tcpip_tcp_timer_active = FALSE /\ tcp_pcbs = FALSE
    /\ thread = "fetch" /\ sleeptime = 0 /\ checked = 0
    /\ awake = 0 /\ early = 0

(* ---- what is done under the core lock, by the thread or by others ---- *)

\* tcp_timer_needed, called by TCP_REG.
RegisterPcb ==
    /\ tcp_pcbs' = TRUE
    /\ tcpip_tcp_timer_active' = TRUE
    /\ next_timeout' = IF tcpip_tcp_timer_active THEN next_timeout
                       ELSE sys_timeout(next_timeout, TcpInterval, "tcp")

\* The last control block goes; the timer finds out when it is called.
RemovePcbs ==
    /\ tcp_pcbs /\ tcp_pcbs' = FALSE
    /\ UNCHANGED <<next_timeout, tcpip_tcp_timer_active>>

TimersOf(h) == {i \in DOMAIN next_timeout : next_timeout[i].h = h}

UserMay == Cardinality(TimersOf("user")) < UserTimers

SetTimer ==
    /\ UserMay
    /\ \E d \in Delays : next_timeout' = sys_timeout(next_timeout, d, "user")
    /\ UNCHANGED <<tcpip_tcp_timer_active, tcp_pcbs>>

CancelTimer ==
    /\ next_timeout' = sys_untimeout(next_timeout, "user")
    /\ UNCHANGED <<tcpip_tcp_timer_active, tcp_pcbs>>

Work == RegisterPcb \/ RemovePcbs \/ SetTimer \/ CancelTimer

\* The lock is free from when the thread waits until it goes on.
LockFree == thread \in {"asleep", "message", "timeout"}

OtherThread == LockFree /\ Work /\ UNCHANGED <<now, thread, sleeptime, checked, awake, early>>

(* ---- tcpip_thread ---- *)

\* sys_timeouts_sleeptime: 0 if the first timer is due.
Due == next_timeout[1].time = now \/ TIME_LESS_THAN(next_timeout[1].time, now)

Fetch ==
    /\ thread = "fetch" /\ ~Due
    /\ sleeptime' = (next_timeout[1].time - now) % Round
    /\ thread' = "asleep" /\ awake' = 0
    /\ UNCHANGED <<now, next_timeout, tcpip_tcp_timer_active, tcp_pcbs, checked, early>>

FetchNothing ==
    /\ thread = "fetch" /\ Due
    /\ thread' = "check" /\ checked' = now
    /\ UNCHANGED <<now, next_timeout, tcpip_tcp_timer_active, tcp_pcbs, sleeptime, awake, early>>

\* sys_arch_mbox_fetch returns; the lock is still to be taken.
Wake ==
    /\ thread = "asleep"
    /\ thread' = "message" \/ (sleeptime = 0 /\ thread' = "timeout")
    /\ sleeptime' = 0
    /\ UNCHANGED <<now, next_timeout, tcpip_tcp_timer_active, tcp_pcbs, checked, awake, early>>

LockAfterTimeout ==
    /\ thread = "timeout"
    /\ thread' = "check" /\ checked' = now
    /\ UNCHANGED <<now, next_timeout, tcpip_tcp_timer_active, tcp_pcbs, sleeptime, awake, early>>

tcpip_thread_handle_msg ==
    /\ thread = "message" /\ thread' = "fetch"
    /\ Work
    /\ UNCHANGED <<now, sleeptime, checked, awake, early>>

Rest == Tail(next_timeout)

\* tcp_tmr may end the last connection.
tcpip_tcp_timer ==
    /\ tcp_pcbs' \in {FALSE, tcp_pcbs}
    /\ tcpip_tcp_timer_active' = tcp_pcbs'
    /\ next_timeout' = IF tcp_pcbs' THEN sys_timeout(Rest, TcpInterval, "tcp") ELSE Rest

\* From when it was due to the next time, unless that is over too.
NextCyclic(timeout) ==
    IF TIME_LESS_THAN((timeout.time + ArpInterval) % Round, now)
      THEN Timeout(now + ArpInterval, "arp", ArpInterval)
      ELSE Timeout(timeout.time + ArpInterval, "arp", timeout.left + ArpInterval)

lwip_cyclic_timer ==
    /\ next_timeout' = sys_timeout_abs(Rest, NextCyclic(next_timeout[1]))
    /\ UNCHANGED <<tcpip_tcp_timer_active, tcp_pcbs>>

\* A callback may set a timer again.
UserHandler ==
    /\ next_timeout' \in {Rest} \union {sys_timeout(Rest, d, "user") : d \in Delays}
    /\ UNCHANGED <<tcpip_tcp_timer_active, tcp_pcbs>>

Expired == next_timeout # << >> /\ ~TIME_LESS_THAN(checked, next_timeout[1].time)

\* One round of the loop of sys_check_timeouts, the handler included.
CallHandler ==
    /\ thread = "check" /\ Expired
    /\ early' = next_timeout[1].left
    /\ CASE next_timeout[1].h = "tcp"  -> tcpip_tcp_timer
         [] next_timeout[1].h = "arp"  -> lwip_cyclic_timer
         [] next_timeout[1].h = "user" -> UserHandler
    /\ UNCHANGED <<now, thread, sleeptime, checked, awake>>

CheckEnds ==
    /\ thread = "check" /\ ~Expired
    /\ thread' = "fetch" /\ checked' = 0 /\ early' = 0
    /\ UNCHANGED <<now, next_timeout, tcpip_tcp_timer_active, tcp_pcbs, sleeptime, awake>>

\* The wait for a message ends when its time is over.
Tick ==
    /\ now' = (now + 1) % Round
    /\ next_timeout' = [i \in DOMAIN next_timeout |-> [next_timeout[i] EXCEPT !.left = @ - 1]]
    /\ IF thread = "asleep"
         THEN sleeptime > 0 /\ sleeptime' = sleeptime - 1 /\ UNCHANGED awake
         ELSE awake < Slow /\ awake' = awake + 1 /\ UNCHANGED sleeptime
    /\ UNCHANGED <<tcpip_tcp_timer_active, tcp_pcbs, thread, checked, early>>

Next ==
    \/ Fetch \/ FetchNothing \/ Wake \/ LockAfterTimeout \/ tcpip_thread_handle_msg
    \/ CallHandler \/ CheckEnds \/ OtherThread \/ Tick

Spec == Init /\ [][Next]_vars

(* ---- properties ---- *)

\* Type invariant.
TypeOK ==
    /\ now \in 0 .. Round - 1
    /\ next_timeout \in Seq([time : 0 .. Round - 1, h : {"arp", "tcp", "user"}, left : Int])
    /\ Len(next_timeout) <= Pool
    /\ tcpip_tcp_timer_active \in BOOLEAN /\ tcp_pcbs \in BOOLEAN
    /\ thread \in {"fetch", "asleep", "message", "timeout", "check"}
    /\ sleeptime \in 0 .. LWIP_MAX_TIMEOUT /\ checked \in 0 .. Round - 1
    /\ awake \in 0 .. Slow /\ early \in Int

\* A timer waits too long by what the thread slept when it was started, and was slow.
Latest == ArpInterval - 1 + Slow

\* However the clock wraps and whoever starts timers while tcpip_thread sleeps: the list
\* is in the order of time, no handler is called early, none is overdue by more than the
\* longest sleep; there is always one ARP timer, and one TCP timer while there is a
\* connection.
TimersOnTime ==
    /\ \A i, j \in DOMAIN next_timeout : i < j => next_timeout[i].left <= next_timeout[j].left
    /\ \A i \in DOMAIN next_timeout : next_timeout[i].left >= -Latest
    /\ early <= 0
    /\ Cardinality(TimersOf("arp")) = 1
    /\ Cardinality(TimersOf("tcp")) = (IF tcpip_tcp_timer_active THEN 1 ELSE 0)
    /\ tcp_pcbs => tcpip_tcp_timer_active

=============================================================================
