------------------------------- MODULE Queue -------------------------------
(***************************************************************************)
(* FreeRTOS' queue.c: one queue, the tasks that block on it with and       *)
(* without a timeout, and the interrupts that use it.                      *)
(*                                                                         *)
(* A step is a critical section, or a call that the running task makes     *)
(* with the scheduler suspended.  Interrupts come between any two steps;   *)
(* other tasks do unless the scheduler is suspended.  Which of the ready   *)
(* tasks runs is left open, so that every order the kernel's priorities    *)
(* and time slices produce is among those explored.  Time is the step      *)
(* TimePasses: the time a task was prepared to wait is over.               *)
(***************************************************************************)
EXTENDS Integers, SequencesExt

CONSTANTS
    Tasks,
    Priority,   \* uxPriority of each
    Items,      \* what is queued
    Nothing,    \* no item, no task
    Uses        \* the ways a queue is used, of which one is drawn

\* A queue of some length, the tasks that use it, what interrupts do to it, the
\* positions tasks send to, the reads they make, how long they wait, and whether
\* one resets it.
Use == [length : Nat \ {0},
        callers : SUBSET Tasks,
        interrupts : SUBSET {"back", "front", "overwrite", "receive"},
        items : SUBSET Items,
        sends : SUBSET {"back", "front", "overwrite"},
        reads : SUBSET {"receive", "peek"},
        waits : SUBSET {"none", "finite", "forever"},
        resets : BOOLEAN]

ASSUME QueueAssumption ==
    /\ IsFiniteSet(Tasks)
    /\ Priority \in [Tasks -> Nat]
    /\ Nothing \notin Items \union Tasks
    /\ Uses \subseteq Use
    /\ \A u \in Uses : "overwrite" \in u.sends \union u.interrupts => u.length = 1

VARIABLES
    use,                    \* the way the queue is used
    storage,                \* the ring between pcHead and pcTail
    pcWriteTo, pcReadFrom,  \* its indices
    uxMessagesWaiting,
    cTxLock, cRxLock,
    xTasksWaitingToSend, xTasksWaitingToReceive,
    holder,                 \* the task that suspended the scheduler
    state,                  \* of each task: ready, pending (ready), blocked
    call,                   \* the call each makes: where it is, its arguments
    taken                   \* what was read last from the queue

ring   == <<storage, pcWriteTo, pcReadFrom, uxMessagesWaiting>>
locks  == <<cTxLock, cRxLock>>
lists  == <<xTasksWaitingToSend, xTasksWaitingToReceive>>
kernel == <<holder, state>>
vars   == <<use, ring, locks, lists, kernel, call, taken>>

Length == use.length

queueUNLOCKED == -1
queueLOCKED_UNMODIFIED == 0

\* uxTaskGetNumberOfTasks: these and the idle task.
NumberOfTasks == Cardinality(Tasks) + 1

NoCall == [pc |-> "idle", op |-> "none", item |-> Nothing, wait |-> "none"]

Init ==
    /\ use \in Uses
    /\ storage = [i \in 0 .. Length - 1 |-> Nothing]
    /\ pcWriteTo = 0
    /\ pcReadFrom = Length - 1
    /\ uxMessagesWaiting = 0
    /\ cTxLock = queueUNLOCKED /\ cRxLock = queueUNLOCKED
    /\ xTasksWaitingToSend = << >> /\ xTasksWaitingToReceive = << >>
    /\ holder = Nothing
    /\ state = [t \in Tasks |-> "ready"]
    /\ call = [t \in Tasks |-> NoCall]
    /\ taken = Nothing

(* ---- the ring ---- *)

Up(i)   == IF i + 1 >= Length THEN 0 ELSE i + 1
Down(i) == IF i - 1 < 0 THEN Length - 1 ELSE i - 1

CopyTo(i, position, count) ==
    /\ IF position = "back"
         THEN /\ storage' = [storage EXCEPT ![pcWriteTo] = i]
              /\ pcWriteTo' = Up(pcWriteTo)
              /\ UNCHANGED pcReadFrom
         ELSE /\ storage' = [storage EXCEPT ![pcReadFrom] = i]
              /\ pcReadFrom' = Down(pcReadFrom)
              /\ UNCHANGED pcWriteTo
    /\ uxMessagesWaiting' = count

\* An item that is overwritten was counted before.
prvCopyDataToQueue(i, position) ==
    CopyTo(i, position, IF position = "overwrite" /\ uxMessagesWaiting > 0
                          THEN uxMessagesWaiting
                          ELSE uxMessagesWaiting + 1)

CopyFrom(i) ==
    /\ taken' = storage[i]
    /\ pcReadFrom' = Up(pcReadFrom)
    /\ uxMessagesWaiting' = uxMessagesWaiting - 1
    /\ UNCHANGED <<storage, pcWriteTo>>

prvCopyDataFromQueue_BeforeAdvancing == CopyFrom(pcReadFrom)

prvCopyDataFromQueue == CopyFrom(Up(pcReadFrom))

(* ---- the lists of waiting tasks ---- *)

\* vListInsert by priority: behind those as urgent as t.
InsertByPriority(list, t) ==
    LET place == SelectInSeq(list, LAMBDA u : Priority[u] < Priority[t])
    IN  IF place = 0 THEN Append(list, t) ELSE InsertAt(list, place, t)

\* xTaskRemoveFromEventList for the first n tasks of a list: with the scheduler
\* suspended they go to xPendingReadyList.
Wake(list, n) ==
    LET woken == ToSet(SubSeq(list, 1, IF n < Len(list) THEN n ELSE Len(list)))
    IN  state' = [t \in Tasks |-> IF t \notin woken THEN state[t]
                                  ELSE IF holder = Nothing THEN "ready"
                                  ELSE "pending"]

WakeReceivers(n) ==
    /\ Wake(xTasksWaitingToReceive, n)
    /\ xTasksWaitingToReceive' =
         SubSeq(xTasksWaitingToReceive, n + 1, Len(xTasksWaitingToReceive))
    /\ UNCHANGED xTasksWaitingToSend

WakeSenders(n) ==
    /\ Wake(xTasksWaitingToSend, n)
    /\ xTasksWaitingToSend' =
         SubSeq(xTasksWaitingToSend, n + 1, Len(xTasksWaitingToSend))
    /\ UNCHANGED xTasksWaitingToReceive

(* ---- what tasks call ---- *)

Runs(t) == IF holder = Nothing THEN state[t] = "ready" ELSE holder = t

At(t, from, to) ==
    /\ Runs(t) /\ call[t].pc = from
    /\ call' = [call EXCEPT ![t] = IF to = "idle" THEN NoCall
                                  ELSE [@ EXCEPT !.pc = to]]

Sending(t) == call[t].op \in {"back", "front", "overwrite"}

HasRoom(position) == uxMessagesWaiting < Length \/ position = "overwrite"

Call(t, c, i, w) ==
    /\ Runs(t) /\ call[t].pc = "idle"
    /\ call' = [call EXCEPT ![t] = [pc |-> "try", op |-> c, item |-> i,
                                   wait |-> IF w = "finite" THEN "fresh" ELSE w]]
    /\ UNCHANGED <<ring, locks, lists, kernel, taken>>

\* The first critical section of xQueueGenericSend.
Send(t) ==
    /\ At(t, "try", "idle")
    /\ Sending(t) /\ HasRoom(call[t].op)
    /\ prvCopyDataToQueue(call[t].item, call[t].op)
    /\ WakeReceivers(1)
    /\ UNCHANGED <<locks, holder, taken>>

\* ... of xQueueReceive.
Receive(t) ==
    /\ At(t, "try", "idle")
    /\ call[t].op = "receive" /\ uxMessagesWaiting > 0
    /\ prvCopyDataFromQueue
    /\ WakeSenders(1)
    /\ UNCHANGED <<locks, holder>>

PeekWaking(t, n) ==
    /\ At(t, "try", "idle")
    /\ call[t].op = "peek" /\ uxMessagesWaiting > 0
    /\ taken' = storage[Up(pcReadFrom)]
    /\ WakeReceivers(n)
    /\ UNCHANGED <<ring, locks, holder>>

Peek_WakesNoOther(t) == PeekWaking(t, 0)

\* ... of xQueuePeek: the item stays, for the next task that waits for one.
Peek(t) == PeekWaking(t, 1)

Cannot(t) == IF Sending(t) THEN ~HasRoom(call[t].op) ELSE uxMessagesWaiting = 0

\* The same critical section when the queue is full, or empty.
GiveUp(t) ==
    /\ At(t, "try", "idle")
    /\ Cannot(t) /\ call[t].wait = "none"
    /\ UNCHANGED <<ring, locks, lists, kernel, taken>>

SetTimeOut(t, when) ==
    /\ Runs(t) /\ call[t].pc = "try"
    /\ Cannot(t) /\ call[t].wait # "none"
    /\ LET wait == IF call[t].wait \in when THEN "finite" ELSE call[t].wait
       IN  call' = [call EXCEPT ![t] = [@ EXCEPT !.pc = "suspend", !.wait = wait]]
    /\ UNCHANGED <<ring, locks, lists, kernel, taken>>

PrepareToWait_EveryTime(t) == SetTimeOut(t, {"fresh", "finite", "expired"})

PrepareToWait(t) == SetTimeOut(t, {"fresh"})

SuspendAll(t) ==
    /\ At(t, "suspend", "lock")
    /\ holder' = t
    /\ UNCHANGED <<ring, locks, lists, state, taken>>

LockQueue(t) ==
    /\ At(t, "lock", "check")
    /\ cRxLock' = IF cRxLock = queueUNLOCKED THEN queueLOCKED_UNMODIFIED ELSE cRxLock
    /\ cTxLock' = IF cTxLock = queueUNLOCKED THEN queueLOCKED_UNMODIFIED ELSE cTxLock
    /\ UNCHANGED <<ring, lists, kernel, taken>>

CheckForTimeOut(t) ==
    /\ At(t, "check", IF call[t].wait = "expired" THEN "unlockTx" ELSE "test")
    /\ UNCHANGED <<ring, locks, lists, kernel, taken>>

\* prvIsQueueFull or prvIsQueueEmpty.
Test(t) ==
    /\ At(t, "test", IF IF Sending(t) THEN uxMessagesWaiting = Length
                                      ELSE uxMessagesWaiting = 0
                       THEN "place" ELSE "unlockTx")
    /\ UNCHANGED <<ring, locks, lists, kernel, taken>>

PlaceOnEventList(t) ==
    /\ At(t, "place", "unlockTx")
    /\ state' = [state EXCEPT ![t] = "blocked"]
    /\ IF Sending(t)
         THEN /\ xTasksWaitingToSend' = InsertByPriority(xTasksWaitingToSend, t)
              /\ UNCHANGED xTasksWaitingToReceive
         ELSE /\ xTasksWaitingToReceive' =
                   InsertByPriority(xTasksWaitingToReceive, t)
              /\ UNCHANGED xTasksWaitingToSend
    /\ UNCHANGED <<ring, locks, holder, taken>>

UnlockTx(t, n) ==
    /\ At(t, "unlockTx", "unlockRx")
    /\ WakeReceivers(n)
    /\ cTxLock' = queueUNLOCKED
    /\ UNCHANGED <<ring, cRxLock, holder, taken>>

UnlockRx(t, n) ==
    /\ At(t, "unlockRx", "resume")
    /\ WakeSenders(n)
    /\ cRxLock' = queueUNLOCKED
    /\ UNCHANGED <<ring, cTxLock, holder, taken>>

\* Two critical sections: what interrupts added and took meanwhile is made up for.
prvUnlockQueue(t) == UnlockTx(t, cTxLock) \/ UnlockRx(t, cRxLock)

\* xTaskResumeAll; a send whose time is over returns at once, a read looks again.
ResumeAll(t) ==
    /\ At(t, "resume", IF call[t].wait # "expired" THEN "try"
                       ELSE IF Sending(t) THEN "idle" ELSE "last")
    /\ holder' = Nothing
    /\ state' = [u \in Tasks |-> IF state[u] = "pending" THEN "ready" ELSE state[u]]
    /\ UNCHANGED <<ring, locks, lists, taken>>

LookAgain(t) ==
    /\ At(t, "last", IF uxMessagesWaiting = 0 THEN "idle" ELSE "try")
    /\ UNCHANGED <<ring, locks, lists, kernel, taken>>

\* xQueueReset wakes one sender.
Reset(t) ==
    /\ use.resets
    /\ At(t, "idle", "idle")
    /\ uxMessagesWaiting' = 0
    /\ pcWriteTo' = 0 /\ pcReadFrom' = Length - 1
    /\ cRxLock' = queueUNLOCKED /\ cTxLock' = queueUNLOCKED
    /\ WakeSenders(1)
    /\ UNCHANGED <<storage, holder, taken>>

(* ---- interrupts ---- *)

Increment(lock) == IF lock < NumberOfTasks THEN lock + 1 ELSE lock

SendFromISR(i, position, locked) ==
    /\ HasRoom(position)
    /\ prvCopyDataToQueue(i, position)
    /\ IF cTxLock = queueUNLOCKED
         THEN WakeReceivers(1) /\ UNCHANGED cTxLock
         ELSE cTxLock' = locked /\ UNCHANGED <<lists, state>>
    /\ UNCHANGED <<cRxLock, holder, call, taken>>

xQueueGenericSendFromISR_UncountedIfLocked(i, position) ==
    SendFromISR(i, position, cTxLock)

xQueueGenericSendFromISR(i, position) ==
    SendFromISR(i, position, Increment(cTxLock))

xQueueReceiveFromISR ==
    /\ "receive" \in use.interrupts
    /\ uxMessagesWaiting > 0
    /\ prvCopyDataFromQueue
    /\ IF cRxLock = queueUNLOCKED
         THEN WakeSenders(1) /\ UNCHANGED cRxLock
         ELSE cRxLock' = Increment(cRxLock) /\ UNCHANGED <<lists, state>>
    /\ UNCHANGED <<cTxLock, holder, call>>

\* errQUEUE_FULL: the interrupt gives its item up.
SendFromISRFails(position) ==
    /\ ~HasRoom(position)
    /\ UNCHANGED <<ring, locks, lists, kernel, call, taken>>

\* The tick interrupt finds that t has waited long enough; no tick is counted
\* while the scheduler is suspended.
Expire(t, off) ==
    /\ holder = Nothing
    /\ call[t].wait = "finite"
    /\ call' = [call EXCEPT ![t].wait = "expired"]
    /\ state' = [state EXCEPT ![t] = "ready"]
    /\ xTasksWaitingToSend' = RemoveFirst(xTasksWaitingToSend, off)
    /\ xTasksWaitingToReceive' = RemoveFirst(xTasksWaitingToReceive, off)
    /\ UNCHANGED <<ring, locks, holder, taken>>

TimePasses_StaysOnEventList(t) == Expire(t, Nothing)

TimePasses(t) == Expire(t, t)

Advance(t) ==
    \/ Send(t) \/ Receive(t) \/ Peek(t) \/ GiveUp(t) \/ PrepareToWait(t)
    \/ SuspendAll(t) \/ LockQueue(t) \/ CheckForTimeOut(t) \/ Test(t)
    \/ PlaceOnEventList(t) \/ prvUnlockQueue(t) \/ ResumeAll(t) \/ LookAgain(t)

Next ==
    /\ UNCHANGED use
    /\ \/ \E t \in use.callers :
            \/ \E c \in use.sends, i \in use.items, w \in use.waits : Call(t, c, i, w)
            \/ \E c \in use.reads, w \in use.waits : Call(t, c, Nothing, w)
            \/ Advance(t) \/ Reset(t) \/ TimePasses(t)
       \/ \E i \in use.items, c \in use.interrupts \ {"receive"} :
            xQueueGenericSendFromISR(i, c) \/ SendFromISRFails(c)
       \/ xQueueReceiveFromISR

Spec == Init /\ [][Next]_vars

\* Time slicing gives every ready task its turns, between those in which another
\* one suspends the scheduler, and the tick, held back then, never stops; nobody
\* has to call, and no interrupt has to come.
FairSpec ==
    Spec /\ \A t \in Tasks : /\ SF_vars(UNCHANGED use /\ Advance(t))
                              /\ SF_vars(UNCHANGED use /\ TimePasses(t))

(* ---- properties ---- *)

RingTypeOK ==
    /\ storage \in [0 .. Length - 1 -> Items \union {Nothing}]
    /\ pcWriteTo \in 0 .. Length - 1 /\ pcReadFrom \in 0 .. Length - 1
    /\ uxMessagesWaiting \in 0 .. Length
    /\ taken \in Items \union {Nothing}

TasksTypeOK ==
    /\ cTxLock \in queueUNLOCKED .. NumberOfTasks
    /\ cRxLock \in queueUNLOCKED .. NumberOfTasks
    /\ xTasksWaitingToSend \in Seq(Tasks) /\ xTasksWaitingToReceive \in Seq(Tasks)
    /\ holder \in Tasks \union {Nothing}
    /\ state \in [Tasks -> {"ready", "pending", "blocked"}]
    /\ call \in [Tasks ->
          [pc : {"idle", "try", "suspend", "lock", "check", "test", "place",
                 "unlockTx", "unlockRx", "resume", "last"},
           op : use.sends \union use.reads \union {"none"},
           item : Items \union {Nothing},
           wait : {"none", "fresh", "finite", "expired", "forever"}]]

\* Type invariant.
TypeOK == use \in Uses /\ RingTypeOK /\ TasksTypeOK

\* The queue's indices, its storage and its counter are those of a mailbox: the
\* oldest item follows pcReadFrom.
Contents == [i \in 1 .. uxMessagesWaiting |-> storage[(pcReadFrom + i) % Length]]

Box == INSTANCE Mailbox WITH length <- Length, queue <- Contents

\* Whatever tasks and interrupts do, and wherever they interrupt each other, the
\* queue behaves as a mailbox: nothing is lost, repeated or overtaken.
ImplementsMailbox == Box!Spec

\* A task is on an event list exactly when it is blocked, and on one of them; the
\* queue is locked only under a suspended scheduler, so that no task ever finds it
\* locked by another one.
ListsAgree ==
    /\ TypeOK
    /\ \A t \in Tasks :
         /\ (state[t] = "blocked") <=>
              (t \in ToSet(IF Sending(t) THEN xTasksWaitingToSend
                                         ELSE xTasksWaitingToReceive))
         /\ t \notin ToSet(IF Sending(t) THEN xTasksWaitingToReceive
                                         ELSE xTasksWaitingToSend)
    /\ IsInjective(xTasksWaitingToSend) /\ IsInjective(xTasksWaitingToReceive)
    /\ holder = Nothing =>
         /\ cTxLock = queueUNLOCKED /\ cRxLock = queueUNLOCKED
         /\ \A t \in Tasks : state[t] # "pending"

\* The tasks that were woken, or have just come, and will look at the queue.
Coming(kinds) == {t \in Tasks : state[t] = "ready" /\ call[t].pc = "try" /\ call[t].op \in kinds}

\* No wake-up for an item is lost: while a task waits for an item and there are
\* some, as many tasks are on their way to them as there are items.
ReadersWoken ==
    holder = Nothing /\ xTasksWaitingToReceive # << >> =>
      Cardinality(Coming({"receive", "peek"})) >= uxMessagesWaiting

\* Nor for a place: while a task waits for one and there are some, as many tasks are
\* on their way to them as there are places.
\* (xQueueReset makes many places and wakes one task.)
SendersWoken ==
    (use.resets => Length = 1) /\ holder = Nothing /\ xTasksWaitingToSend # << >> =>
      Cardinality(Coming(use.sends)) >= Length - uxMessagesWaiting

\* No wake-up is lost, for an item or for a place.
NoWakeUpLost == ReadersWoken /\ SendersWoken

\* A call that waits no longer than some time returns, a send at the latest when its
\* time is over, whoever keeps taking the places.
SendsReturn ==
    \A t \in Tasks :
      call[t].pc = "try" /\ Sending(t) /\ call[t].wait # "forever" ~> call[t].pc = "idle"

\* A task that waits for an item, with items there, gets off the list or the items
\* are gone: nobody sleeps beside a full queue.
NobodySleepsOn ==
    \A t \in Tasks :
      t \in ToSet(xTasksWaitingToReceive) /\ uxMessagesWaiting > 0
        ~> t \notin ToSet(xTasksWaitingToReceive) \/ uxMessagesWaiting = 0

=============================================================================
