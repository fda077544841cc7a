---------------------------- MODULE Notification ----------------------------
(***************************************************************************)
(* Task notifications of FreeRTOS, with vTaskSuspend and vTaskResume: one  *)
(* task waits, another one and interrupts notify, suspend and resume it.   *)
(*                                                                         *)
(* A step is a critical section or what is done between two of them with   *)
(* the scheduler suspended.  A task that waits for ever and one that is    *)
(* suspended are on the same list, xSuspendedTaskList.                     *)
(***************************************************************************)
EXTENDS Naturals

CONSTANT MaxValue   \* bound of the exploration: notifications that add up

NotificationAssumption == MaxValue \in Nat

VARIABLES
    ulNotifiedValue, ucNotifyState,
    list,       \* where xStateListItem of the waiting task is
    pending,    \* its xEventListItem is on xPendingReadyList
    holder,     \* who suspended the scheduler: the waiting task, the other one
    pc, call,   \* the call of the waiting task: where it is, what it asked for
    suspended   \* history: vTaskSuspend was called and not undone

data  == <<ulNotifiedValue, ucNotifyState>>
lists == <<list, pending>>
vars  == <<data, lists, holder, pc, call, suspended>>

NoCall == [kind |-> "none", wait |-> "none"]

Init ==
    /\ ulNotifiedValue = 0 /\ ucNotifyState = "not waiting"
    /\ list = "ready" /\ pending = FALSE
    /\ holder = "nobody"
    /\ pc = "out" /\ call = NoCall
    /\ suspended = FALSE

WaiterRuns == list = "ready" /\ holder # "other"
OtherRuns  == holder # "waiter"

(* ---- ulTaskGenericNotifyTake and xTaskGenericNotifyWait ---- *)

\* Is there nothing for such a call?
Empty(kind) == IF kind = "take" THEN ulNotifiedValue = 0 ELSE ucNotifyState # "received"

Call(kind, wait) ==
    /\ WaiterRuns /\ pc = "out"
    /\ call' = [kind |-> kind, wait |-> wait]
    /\ IF Empty(kind) /\ wait # "none"
         THEN pc' = "look" /\ holder' = "waiter"
         ELSE pc' = "leave" /\ UNCHANGED holder
    /\ UNCHANGED <<data, lists, suspended>>

Mark(blocks) ==
    /\ pc = "look"
    /\ IF blocks
         THEN ucNotifyState' = "waiting" /\ pc' = "block"
         ELSE UNCHANGED ucNotifyState /\ pc' = "resume"
    /\ UNCHANGED <<ulNotifiedValue, lists, holder, call, suspended>>

Look == Mark(Empty(call.kind))

\* prvAddCurrentTaskToDelayedList, outside of the critical section.
Block ==
    /\ pc = "block"
    /\ list' = IF call.wait = "forever" THEN "suspended" ELSE "delayed"
    /\ pc' = "resume"
    /\ UNCHANGED <<data, pending, holder, call, suspended>>

\* xTaskResumeAll readies what is on xPendingReadyList.
ReadyPending ==
    /\ holder' = "nobody"
    /\ pending' = FALSE
    /\ list' = IF pending THEN "ready" ELSE list
    /\ suspended' = (suspended /\ ~pending)

WaiterResumesAll ==
    /\ pc = "resume"
    /\ ReadyPending
    /\ pc' = "leave"
    /\ UNCHANGED <<data, call>>

Return(cleared, taken) ==
    /\ WaiterRuns /\ pc = "leave"
    /\ ulNotifiedValue' = IF call.kind = "take" /\ cleared THEN 0
                         ELSE ulNotifiedValue - taken
    /\ ucNotifyState' = "not waiting"
    /\ pc' = "out" /\ call' = NoCall
    /\ UNCHANGED <<lists, holder, suspended>>

Leave_AlwaysTaking(cleared) == Return(cleared, 1)

\* The last critical section.
Leave(cleared) ==
    Return(cleared, IF call.kind = "take" /\ ulNotifiedValue > 0 THEN 1 ELSE 0)

(* ---- those who notify ---- *)

\* Who waits is made ready, or put on xPendingReadyList.
Notify(wakes) ==
    /\ ulNotifiedValue < MaxValue
    /\ ulNotifiedValue' = ulNotifiedValue + 1
    /\ ucNotifyState' = "received"
    /\ wakes
    /\ UNCHANGED <<holder, pc, call, suspended>>

xTaskGenericNotify ==
    /\ OtherRuns
    /\ Notify(IF ucNotifyState = "waiting" THEN list' = "ready" /\ UNCHANGED pending
                                           ELSE UNCHANGED lists)

xTaskGenericNotifyFromISR_ReadiesAtOnce ==
    Notify(IF ucNotifyState # "waiting" THEN UNCHANGED lists
           ELSE list' = "ready" /\ UNCHANGED pending)

xTaskGenericNotifyFromISR ==
    Notify(IF ucNotifyState # "waiting" THEN UNCHANGED lists
           ELSE IF holder = "nobody" THEN list' = "ready" /\ UNCHANGED pending
           ELSE pending' = TRUE /\ UNCHANGED list)

xTaskGenericNotifyStateClear ==
    /\ OtherRuns
    /\ ucNotifyState' = IF ucNotifyState = "received" THEN "not waiting" ELSE ucNotifyState
    /\ UNCHANGED <<ulNotifiedValue, lists, holder, pc, call, suspended>>

ulTaskGenericNotifyValueClear ==
    /\ OtherRuns
    /\ ulNotifiedValue' = 0
    /\ UNCHANGED <<ucNotifyState, lists, holder, pc, call, suspended>>

(* ---- suspending and resuming ---- *)

Suspend(forgets) ==
    /\ OtherRuns
    /\ list' = "suspended" /\ pending' = FALSE
    /\ ucNotifyState' = IF ucNotifyState = "waiting" /\ forgets THEN "not waiting"
                        ELSE ucNotifyState
    /\ suspended' = TRUE
    /\ UNCHANGED <<ulNotifiedValue, holder, pc, call>>

vTaskSuspend_KeepsWaiting == Suspend(FALSE)

\* The task no longer waits for a notification.
vTaskSuspend == Suspend(TRUE)

prvTaskIsTaskSuspended == list = "suspended" /\ ~pending /\ ucNotifyState # "waiting"

vTaskResume ==
    /\ OtherRuns
    /\ prvTaskIsTaskSuspended
    /\ list' = "ready" /\ suspended' = FALSE
    /\ UNCHANGED <<data, pending, holder, pc, call>>

xTaskResumeFromISR ==
    /\ prvTaskIsTaskSuspended
    /\ IF holder = "nobody"
         THEN list' = "ready" /\ suspended' = FALSE /\ UNCHANGED pending
         ELSE pending' = TRUE /\ UNCHANGED <<list, suspended>>
    /\ UNCHANGED <<data, holder, pc, call>>

OtherSuspendsAll ==
    /\ holder = "nobody"
    /\ holder' = "other"
    /\ UNCHANGED <<data, lists, pc, call, suspended>>

OtherResumesAll ==
    /\ holder = "other"
    /\ ReadyPending
    /\ UNCHANGED <<data, pc, call>>

\* The tick finds that the task has waited long enough; none is counted while the
\* scheduler is suspended.
TimePasses ==
    /\ holder = "nobody" /\ list = "delayed"
    /\ list' = "ready"
    /\ UNCHANGED <<data, pending, holder, pc, call, suspended>>

Waiter ==
    \/ Look \/ Block \/ WaiterResumesAll
    \/ \E cleared \in BOOLEAN : Leave(cleared)

Next ==
    \/ \E kind \in {"take", "wait"}, wait \in {"none", "finite", "forever"} :
         Call(kind, wait)
    \/ Waiter
    \/ xTaskGenericNotify \/ xTaskGenericNotifyFromISR
    \/ xTaskGenericNotifyStateClear \/ ulTaskGenericNotifyValueClear
    \/ vTaskSuspend \/ vTaskResume \/ xTaskResumeFromISR
    \/ OtherSuspendsAll \/ OtherResumesAll
    \/ TimePasses

Spec == Init /\ [][Next]_vars

\* The waiting task gets its time slices, and the other one resumes the scheduler.
Fairness == SF_vars(Waiter) /\ WF_vars(OtherResumesAll) /\ SF_vars(TimePasses)

(* ---- properties ---- *)

\* Type invariant.
TypeOK ==
    /\ ulNotifiedValue \in 0 .. MaxValue
    /\ ucNotifyState \in {"not waiting", "waiting", "received"}
    /\ list \in {"ready", "delayed", "suspended"}
    /\ pending \in BOOLEAN /\ suspended \in BOOLEAN
    /\ holder \in {"nobody", "waiter", "other"}
    /\ pc \in {"out", "look", "block", "resume", "leave"}
    /\ call \in [kind : {"none", "take", "wait"}, wait : {"none", "finite", "forever"}]

\* The assertion of every notification (tasks.c:7988): a task that waits for one is on
\* no list of events, and only a suspended scheduler makes one wait to be readied.
WaiterOnNoList ==
    /\ ucNotifyState = "waiting" => ~pending
    /\ pending => holder # "nobody"

\* No notification is lost: a task that is not suspended and is off the ready list has
\* nothing to be woken for, or will be by xTaskResumeAll.
NoWakeUpLost ==
    list # "ready" /\ ~suspended => pending \/ (ucNotifyState = "waiting" /\ Empty(call.kind))

\* A suspended task runs again only when it is resumed: neither a notification nor a
\* timeout that was under way moves it.
SuspendedStays == suspended => list = "suspended"

\* Whoever waits for a notification gets it, and whoever is suspended gets nothing else
\* than to be resumed, though both are on one list.
NotificationsSeen == WaiterOnNoList /\ NoWakeUpLost /\ SuspendedStays

\* A wait with a timeout ends, unless the task is suspended again and again; one
\* without ends once there is a notification.
WaitEnds ==
    /\ pc # "out" /\ call.wait = "finite" ~> pc = "out" \/ suspended
    /\ pc # "out" /\ ~Empty(call.kind) ~> pc = "out" \/ suspended \/ Empty(call.kind)

=============================================================================
