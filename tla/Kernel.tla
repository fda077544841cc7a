------------------------------- MODULE Kernel -------------------------------
(***************************************************************************)
(* The part of FreeRTOS' tasks.c every other part stands on: the tick, the *)
(* lists of delayed tasks, the ready lists and the choice of the task that *)
(* runs, on one core with preemption and time slicing, as FreeRTOSConfig.h *)
(* has them.                                                               *)
(*                                                                         *)
(* The tick interrupt, other interrupts that make an event happen, and the *)
(* software interrupt that switches tasks come between any two steps of    *)
(* the running task except in a critical section.  A TickType_t counts     *)
(* from 0 to MaxDelay (portMAX_DELAY) and then from 0 again.               *)
(***************************************************************************)
EXTENDS Integers, SequencesExt

CONSTANTS
    Created,    \* the tasks, in the order of their creation
    Idle,       \* the last of them: the idle task
    configMAX_PRIORITIES,
    Priority,   \* uxPriority of each
    End,        \* xListEnd, the marker in every ready list
    MaxDelay,   \* portMAX_DELAY
    Delays,     \* the delays and timeouts tasks ask for
    MaxPended,  \* bound of the exploration: ticks while suspended
    MaxNested   \* bound of the exploration: nested calls of vTaskSuspendAll

Tasks == ToSet(Created)

Priorities == {Priority[t] : t \in Tasks}

ASSUME KernelAssumption ==
    /\ Created \in Seq(Tasks) /\ IsInjective(Created)
    /\ Created # << >> /\ Last(Created) = Idle
    /\ configMAX_PRIORITIES \in Nat
    /\ Priority \in [Tasks -> 0 .. configMAX_PRIORITIES - 1]
    /\ \A t \in Tasks : Priority[Idle] <= Priority[t]
    /\ End \notin Tasks
    /\ MaxDelay \in Nat \ {0}
    /\ Delays \subseteq 1 .. MaxDelay
    /\ MaxPended \in Nat /\ MaxNested \in Nat

VARIABLES
    xTickCount,
    delayed,                \* pxDelayedTaskList: items [owner, value] ...
    overflow,               \* pxOverflowDelayedTaskList: ... by value
    xNextTaskUnblockTime,
    suspended,              \* xSuspendedTaskList
    events,                 \* the list of tasks waiting for an event
    xPendingReadyList,
    ready,                  \* pxReadyTasksLists, each beginning at pxIndex
    uxTopReadyPriority,     \* the set of its bits
    uxSchedulerSuspended,
    xPendedTicks,
    xYieldPending,          \* xYieldPendings[0]
    switch,                 \* the software interrupt that switches is pending
    pxCurrentTCB,
    pc                      \* what each task is doing in the kernel

time    == <<xTickCount, delayed, overflow, xNextTaskUnblockTime>>
blocked == <<suspended, events, xPendingReadyList>>
readied == <<ready, uxTopReadyPriority>>
pending == <<uxSchedulerSuspended, xPendedTicks, xYieldPending, switch>>
vars    == <<time, blocked, readied, pending, pxCurrentTCB, pc>>

-----------------------------------------------------------------------------
(* list.c *)

\* How many items at the front of a list have a value of at most v: where the
\* loops of vListInsert and xTaskIncrementTick stop.
Leading(list, v) ==
    CHOOSE n \in 0 .. Len(list) :
      /\ \A i \in 1 .. n : list[i].value <= v
      /\ n < Len(list) => list[n + 1].value > v

\* vListInsert: behind the items with the same value.
Insert(list, item) == InsertAt(list, Leading(list, item.value) + 1, item)

\* vListInsert into an event list: by descending priority.
InsertByPriority(list, t) ==
    LET lower == SelectInSeq(list, LAMBDA u : Priority[u] < Priority[t])
    IN  IF lower = 0 THEN Append(list, t) ELSE InsertAt(list, lower, t)

InsertEnd_First(list, ts) == <<Head(list)>> \o ts \o Tail(list)

\* listINSERT_END: just before pxIndex, the last that is reached from there.
InsertEnd(list, ts) == list \o ts

\* listGET_OWNER_OF_NEXT_ENTRY moves pxIndex on, and over the end marker.
Next1(list) == Append(Tail(list), Head(list))

NextEntry(list) == IF Head(Next1(list)) = End THEN Next1(Next1(list))
                                              ELSE Next1(list)

\* uxListRemove: pxIndex moves back when it is at the item that goes.
ListRemove(list, t) ==
    IF Head(list) = t THEN <<Last(list)>> \o Front(Tail(list))
                      ELSE RemoveFirst(list, t)

Owners(list) == [i \in DOMAIN list |-> list[i].owner]

\* What is at these positions of a list, in order.
Among(list, positions) ==
    LET nth(k) == CHOOSE i \in positions :
                    Cardinality({j \in positions : j <= i}) = k
    IN  [k \in 1 .. Cardinality(positions) |-> list[nth(k)]]

\* A list without the tasks ts, or with those of one priority only.
Others(list, ts) == Among(list, {i \in DOMAIN list : list[i] \notin ts})

OfPriority(list, p) == Among(list, {i \in DOMAIN list : Priority[list[i]] = p})

\* Removing the items of tasks from a list of delayed tasks.
Without(list, ts) == Among(list, {i \in DOMAIN list : list[i].owner \notin ts})

-----------------------------------------------------------------------------

\* vTaskStartScheduler: every task is ready, and of those with the highest
\* priority the last to be created runs first.
Init ==
    /\ xTickCount = 0
    /\ delayed = << >> /\ overflow = << >>
    /\ xNextTaskUnblockTime = MaxDelay
    /\ suspended = << >> /\ events = << >> /\ xPendingReadyList = << >>
    /\ ready = [p \in Priorities |-> <<End>> \o OfPriority(Created, p)]
    /\ uxTopReadyPriority = Priorities
    /\ uxSchedulerSuspended = 0 /\ xPendedTicks = 0
    /\ xYieldPending = FALSE /\ switch = FALSE
    /\ pxCurrentTCB = Last(ready[Max(Priorities)])
    /\ pc = [t \in Tasks |-> "run"]

\* In xTaskResumeAll interrupts are off.
Critical == pc[pxCurrentTCB] \in {"unwind", "unwind in delay"}

\* prvAddTaskToReadyList of each of the tasks ts, in order.
AddToReady(ts) ==
    /\ ready' = [p \in Priorities |-> InsertEnd(ready[p], OfPriority(ts, p))]
    /\ uxTopReadyPriority' = uxTopReadyPriority
                               \union {Priority[t] : t \in ToSet(ts)}

\* One of the tasks ts has a higher priority than the one that runs.
Preempts(ts) ==
    \E t \in ToSet(ts) : Priority[t] > Priority[pxCurrentTCB]

(* ---- xTaskIncrementTick ---- *)

UnblockTime(list) == IF list = << >> THEN MaxDelay ELSE Head(list).value

\* What the tick is about to be, the list that is the delayed list then
\* (taskSWITCH_DELAYED_LISTS), and when its first task is to be woken.
Now == (xTickCount + 1) % (MaxDelay + 1)

Current == IF Now = 0 THEN overflow ELSE delayed

NextUnblock_NotReset == xNextTaskUnblockTime

NextUnblock == IF Now = 0 THEN UnblockTime(overflow) ELSE xNextTaskUnblockTime

Expired == IF Now < NextUnblock THEN 0 ELSE Leading(Current, Now)

Woken == Owners(SubSeq(Current, 1, Expired))

IncrementTick ==
    /\ xTickCount' = Now
    /\ delayed' = SubSeq(Current, Expired + 1, Len(Current))
    /\ overflow' = IF Now = 0 THEN delayed ELSE overflow
    /\ xNextTaskUnblockTime' =
         IF Now < NextUnblock THEN NextUnblock ELSE UnblockTime(delayed')
    /\ events' = Others(events, ToSet(Woken))
    /\ AddToReady(Woken)
    /\ UNCHANGED <<suspended, xPendingReadyList>>

SwitchRequired_SlicesOnly ==
    Len(ready'[Priority[pxCurrentTCB]]) > 2 \/ xYieldPending

\* What xTaskIncrementTick returns: a woken task of higher priority, another
\* one of the same priority, or a yield held pending.
SwitchRequired ==
    \/ Preempts(Woken)
    \/ Len(ready'[Priority[pxCurrentTCB]]) > 2
    \/ xYieldPending

TickInterrupt ==
    /\ ~Critical
    /\ IF uxSchedulerSuspended = 0
         THEN /\ IncrementTick
              /\ switch' = (switch \/ SwitchRequired)
              /\ UNCHANGED xPendedTicks
         ELSE /\ xPendedTicks < MaxPended
              /\ xPendedTicks' = xPendedTicks + 1
              /\ UNCHANGED <<time, blocked, readied, switch>>
    /\ UNCHANGED <<uxSchedulerSuspended, xYieldPending, pxCurrentTCB, pc>>

(* ---- xTaskRemoveFromEventList ---- *)

RemoveState_Missing(ts) == UNCHANGED <<delayed, overflow, suspended>>

\* Taking tasks off the list of delayed or suspended tasks they are on.
RemoveState(ts) ==
    /\ delayed' = Without(delayed, ts)
    /\ overflow' = Without(overflow, ts)
    /\ suspended' = Others(suspended, ts)

\* An interrupt, or the running task, makes the event happen that the first
\* task of the event list waits for; the interrupt may leave the switch of
\* tasks to the next tick.
Event ==
    /\ ~Critical /\ events # << >>
    /\ LET t == Head(events)
       IN  /\ events' = Tail(events)
           /\ IF uxSchedulerSuspended = 0
                THEN /\ RemoveState({t})
                     /\ AddToReady(<<t>>)
                     /\ UNCHANGED xPendingReadyList
                ELSE /\ xPendingReadyList' = Append(xPendingReadyList, t)
                     /\ UNCHANGED <<delayed, overflow, suspended, readied>>
           /\ xYieldPending' = (xYieldPending \/ Preempts(<<t>>))
           /\ switch' \in {switch, switch \/ Preempts(<<t>>)}
    /\ UNCHANGED <<xTickCount, xNextTaskUnblockTime, uxSchedulerSuspended,
                   xPendedTicks, pxCurrentTCB, pc>>

(* ---- vTaskSwitchContext ---- *)

SwitchContext ==
    /\ switch /\ ~Critical
    /\ switch' = FALSE
    /\ IF uxSchedulerSuspended # 0
         THEN /\ xYieldPending' = TRUE
              /\ UNCHANGED <<ready, pxCurrentTCB>>
         ELSE LET top == Max(uxTopReadyPriority)
              IN  /\ xYieldPending' = FALSE
                  /\ ready' = [ready EXCEPT ![top] = NextEntry(@)]
                  /\ pxCurrentTCB' = Head(ready'[top])
    /\ UNCHANGED <<time, blocked, uxTopReadyPriority, uxSchedulerSuspended,
                   xPendedTicks, pc>>

(* ---- the running task ---- *)

Step(from, to) ==
    /\ ~switch
    /\ pc[pxCurrentTCB] = from
    /\ pc' = [pc EXCEPT ![pxCurrentTCB] = to]
    /\ UNCHANGED pxCurrentTCB

\* vTaskSuspendAll, of the program or of a call that is going to block.
SuspendAll(to) ==
    /\ Step("run", to)
    /\ uxSchedulerSuspended' = uxSchedulerSuspended + 1
    /\ UNCHANGED <<time, blocked, readied, xPendedTicks, xYieldPending, switch>>

vTaskSuspendAll ==
    /\ pxCurrentTCB # Idle
    /\ uxSchedulerSuspended < MaxNested
    /\ SuspendAll("run")

\* vTaskDelay and the functions of queue.c that wait; not the idle task, and
\* not while the scheduler is suspended (configASSERT in vTaskDelay).
BeginDelay ==
    /\ pxCurrentTCB # Idle
    /\ uxSchedulerSuspended = 0
    /\ SuspendAll("add")

\* The task leaves its ready list, the last one clearing the list's bit.
LeaveReady ==
    LET p == Priority[pxCurrentTCB]
        remaining == ListRemove(ready[p], pxCurrentTCB)
    IN  /\ ready' = [ready EXCEPT ![p] = remaining]
        /\ uxTopReadyPriority' = uxTopReadyPriority
                                   \ (IF Len(remaining) = 1 THEN {p} ELSE {})

WakeTime(n) == (xTickCount + n) % (MaxDelay + 1)

\* ... and sleeps for n ticks.
AddCurrentToDelayed(n) ==
    LET item == [owner |-> pxCurrentTCB, value |-> WakeTime(n)]
    IN  /\ LeaveReady
        /\ IF item.value < xTickCount
             THEN /\ overflow' = Insert(overflow, item)
                  /\ UNCHANGED <<delayed, xNextTaskUnblockTime>>
             ELSE /\ delayed' = Insert(delayed, item)
                  /\ xNextTaskUnblockTime' = Min({xNextTaskUnblockTime,
                                                  item.value})
                  /\ UNCHANGED overflow

\* prvAddCurrentTaskToDelayedList, from vTaskDelay.
AddToDelayed ==
    /\ Step("add", "resume")
    /\ \E n \in Delays : AddCurrentToDelayed(n)
    /\ UNCHANGED <<xTickCount, blocked, pending>>

\* vTaskPlaceOnEventList: the same, but portMAX_DELAY is no delay at all.
PlaceOnEventList ==
    /\ Step("add", "resume")
    /\ events' = InsertByPriority(events, pxCurrentTCB)
    /\ \/ \E n \in Delays \ {MaxDelay} : AddCurrentToDelayed(n)
          /\ UNCHANGED suspended
       \/ /\ LeaveReady
          /\ suspended' = Append(suspended, pxCurrentTCB)
          /\ UNCHANGED <<delayed, overflow, xNextTaskUnblockTime>>
    /\ UNCHANGED <<xTickCount, xPendingReadyList, pending>>

\* The software interrupt is raised: taskYIELD, or vTaskDelay(0) ...
RaiseSwitch(from) ==
    /\ Step(from, "run")
    /\ switch' = TRUE
    /\ UNCHANGED <<time, blocked, readied, uxSchedulerSuspended, xPendedTicks,
                   xYieldPending>>

Yield == RaiseSwitch("run")

\* ... and the end of a call that put the task to sleep.
YieldAsleep == RaiseSwitch("yield")

(* ---- xTaskResumeAll ---- *)

\* The last of the nested calls readies the tasks whose events happened and
\* goes on to the ticks, without letting an interrupt in.
ResumeAll(from, unwind) ==
    /\ uxSchedulerSuspended > 0
    /\ uxSchedulerSuspended' = uxSchedulerSuspended - 1
    /\ IF uxSchedulerSuspended > 1
         THEN /\ Step(from, "run")
              /\ UNCHANGED <<time, blocked, readied, xYieldPending>>
         ELSE /\ Step(from, unwind)
              /\ RemoveState(ToSet(xPendingReadyList))
              /\ AddToReady(xPendingReadyList)
              /\ xPendingReadyList' = << >>
              /\ xYieldPending' = (xYieldPending \/ Preempts(xPendingReadyList))
              /\ xNextTaskUnblockTime' =
                   IF xPendingReadyList = << >> THEN xNextTaskUnblockTime
                                                ELSE UnblockTime(delayed')
              /\ UNCHANGED <<xTickCount, events>>
    /\ UNCHANGED <<xPendedTicks, switch>>

xTaskResumeAll ==
    \/ ResumeAll("run", "unwind")
    \/ ResumeAll("resume", "unwind in delay")

\* One turn of the loop over the ticks that were held pending.
UnwindTick ==
    /\ Critical /\ xPendedTicks > 0
    /\ IncrementTick
    /\ xYieldPending' = (xYieldPending \/ SwitchRequired)
    /\ xPendedTicks' = xPendedTicks - 1
    /\ UNCHANGED <<uxSchedulerSuspended, switch, pxCurrentTCB, pc>>

\* Its end, and that of the critical section: with a yield pending it is made
\* here, else a call that put the task to sleep makes one.
LeaveResume(yield) ==
    /\ xPendedTicks = 0
    /\ \/ Step("unwind", "run")
       \/ Step("unwind in delay", IF yield THEN "run" ELSE "yield")
    /\ switch' = yield
    /\ UNCHANGED <<time, blocked, readied, uxSchedulerSuspended, xPendedTicks,
                   xYieldPending>>

LeaveResumeAll_NoYield == LeaveResume(FALSE)

LeaveResumeAll == LeaveResume(xYieldPending)

-----------------------------------------------------------------------------

\* What the program does of its own accord ...
Program ==
    \/ vTaskSuspendAll
    \/ BeginDelay
    \/ Yield

\* ... and what follows.
Work ==
    \/ AddToDelayed
    \/ PlaceOnEventList
    \/ YieldAsleep
    \/ xTaskResumeAll
    \/ UnwindTick
    \/ LeaveResumeAll

Next == Program \/ Work \/ TickInterrupt \/ Event \/ SwitchContext

Spec == Init /\ [][Next]_vars

\* The timer goes on ticking, and its interrupt is taken once it is enabled
\* again; so is the software interrupt; and the processor goes on with what it
\* is doing in the kernel, and resumes a scheduler it has suspended, whatever
\* interrupts it.
FairSpec ==
    /\ Spec
    /\ SF_vars(TickInterrupt)
    /\ WF_vars(SwitchContext)
    /\ SF_vars(Work)

-----------------------------------------------------------------------------

Items == [owner : Tasks, value : 0 .. MaxDelay]

TimeTypeOK ==
    /\ xTickCount \in 0 .. MaxDelay /\ xNextTaskUnblockTime \in 0 .. MaxDelay
    /\ xPendedTicks \in 0 .. MaxPended

ListsTypeOK ==
    /\ delayed \in Seq(Items) /\ overflow \in Seq(Items)
    /\ suspended \in Seq(Tasks) /\ events \in Seq(Tasks)
    /\ xPendingReadyList \in Seq(Tasks)
    /\ ready \in [Priorities -> Seq(Tasks \union {End})]
    /\ uxTopReadyPriority \subseteq Priorities

SchedulerTypeOK ==
    /\ uxSchedulerSuspended \in 0 .. Max({1, MaxNested})
    /\ xYieldPending \in BOOLEAN /\ switch \in BOOLEAN
    /\ pxCurrentTCB \in Tasks
    /\ pc \in [Tasks -> {"run", "add", "resume", "unwind", "unwind in delay",
                         "yield"}]

\* Every variable has its type.
TypeOK == TimeTypeOK /\ ListsTypeOK /\ SchedulerTypeOK

\* How often a task is on the lists of its state.
Listed(t) ==
    LET of(list) == Cardinality({i \in DOMAIN list : list[i] = t})
    IN  of(Owners(delayed)) + of(Owners(overflow)) + of(suspended)
          + of(ready[Priority[t]])

\* Every task is on exactly one of the lists of its state, a task whose event
\* happened waits for none, and the bits of uxTopReadyPriority are those of
\* the ready lists that are not empty.
ListsAgree ==
    /\ TypeOK
    /\ \A t \in Tasks : Listed(t) = 1
    /\ ToSet(xPendingReadyList) \intersect ToSet(events) = {}
    /\ uxTopReadyPriority = {p \in Priorities : Len(ready[p]) > 1}

NoneHigher == \A p \in uxTopReadyPriority : p <= Priority[pxCurrentTCB]

\* Unless a switch is pending, or an interrupt left one to the next tick, the
\* task that runs is ready and no ready task has a higher priority.
HighestRuns ==
    uxSchedulerSuspended = 0 /\ ~switch /\ ~xYieldPending
        /\ pc[pxCurrentTCB] = "run" =>
      pxCurrentTCB \in ToSet(ready[Priority[pxCurrentTCB]]) /\ NoneHigher

\* Whatever became ready while the scheduler was suspended, xTaskResumeAll
\* does not leave a task of lower priority running.
\* (And configASSERT in taskSWITCH_DELAYED_LISTS: "The delayed tasks list should be
\* empty when the lists are switched.")
ResumeYields ==
    [][/\ Critical /\ ~Critical' => switch' \/ NoneHigher'
       /\ xTickCount' < xTickCount => delayed = << >>]_vars

\* How many ticks from now a task is to be woken.
ToGo(t) ==
    LET at(list) == {item.value : item \in {i \in ToSet(list) : i.owner = t}}
    IN  IF t \in ToSet(xPendingReadyList) THEN 0
        ELSE IF t \in ToSet(suspended) THEN -1
        ELSE IF at(delayed) # {} THEN Max(at(delayed)) - xTickCount
        ELSE IF at(overflow) # {}
               THEN Max(at(overflow)) + MaxDelay + 1 - xTickCount
        ELSE 0

\* Whatever the tick count wraps to, however many ticks were held pending and
\* whichever of event and timeout comes first, tasks sleep as Sleepers says.
Sleep == INSTANCE Sleepers WITH
    remaining <- [t \in Tasks |-> ToGo(t)],
    waiting   <- ToSet(events)

ImplementsSleepers == Sleep!Spec

\* A ready task of the highest priority gets the processor, however many other
\* tasks of that priority come and go.
EqualsTakeTurns ==
    \A t \in Tasks :
      Priority[t] = Max(Priorities) =>
        (t \in ToSet(ready[Priority[t]]) ~> pxCurrentTCB = t)

=============================================================================
