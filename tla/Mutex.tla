------------------------------- MODULE Mutex -------------------------------
(***************************************************************************)
(* FreeRTOS mutexes: priority inheritance in queue.c and tasks.c.          *)
(*                                                                         *)
(* The most urgent ready task runs, any of them if there are several.  A   *)
(* mutex is used by tasks only, so that a call made with the scheduler     *)
(* suspended is one step, as a critical section is.                        *)
(***************************************************************************)
EXTENDS Integers, FiniteSets, Sequences, SequencesExt

CONSTANTS
    Tasks,
    Mutexes,
    Nobody,
    Uses        \* the ways mutexes are used, of which one is drawn

\* The tasks with their priorities, the mutexes, for which mutex a task that holds
\* one waits, and the priorities vTaskPrioritySet gives.
IsUse(u) ==
    /\ DOMAIN u.priorities \subseteq Tasks
    /\ u.priorities \in [DOMAIN u.priorities -> Nat]
    /\ u.mutexes \subseteq Mutexes
    /\ u.nested \subseteq Mutexes \X Mutexes
    /\ u.settings \subseteq Nat

\* A mutex can be seen to be free, and there are only so many that a task can hold.
MutexAssumption ==
    /\ \A u \in Uses : IsUse(u)
    /\ Nobody \notin Tasks /\ IsFiniteSet(Mutexes)

VARIABLES
    use,
    xMutexHolder,   \* of each mutex
    waiting,        \* xTasksWaitingToReceive of each mutex
    uxMutexesHeld, uxPriority, uxBasePriority,  \* of each task
    value,          \* the priority its event list item was given
    call            \* where it is in xQueueSemaphoreTake, and of which mutex

vars == <<use, xMutexHolder, waiting, uxMutexesHeld, uxPriority, uxBasePriority,
          value, call>>

Callers == DOMAIN use.priorities

Outside == [pc |-> "out", mutex |-> "none", inherited |-> FALSE]

Init ==
    /\ use \in Uses
    /\ xMutexHolder = [m \in use.mutexes |-> Nobody]
    /\ waiting = [m \in use.mutexes |-> << >>]
    /\ uxMutexesHeld = [t \in Callers |-> 0]
    /\ uxPriority = use.priorities /\ uxBasePriority = use.priorities
    /\ value = use.priorities
    /\ call = [t \in Callers |-> Outside]

Ready(t) == call[t].pc \notin {"asleep", "waiting"}

Runs(t) == Ready(t) /\ \A u \in Callers : Ready(u) => uxPriority[u] <= uxPriority[t]

At(t, from, to) ==
    /\ Runs(t) /\ call[t].pc = from
    /\ call' = [call EXCEPT ![t].pc = to]

Holds(t) == {m \in use.mutexes : xMutexHolder[m] = t}

Holders(m) == {xMutexHolder[m]} \ {Nobody}

\* A task that does something else for some time.
Sleep(t) ==
    /\ At(t, "out", "asleep")
    /\ UNCHANGED <<xMutexHolder, waiting, uxMutexesHeld, uxPriority, uxBasePriority, value>>

WakeUp(t) ==
    /\ call[t].pc = "asleep"
    /\ call' = [call EXCEPT ![t].pc = "out"]
    /\ UNCHANGED <<xMutexHolder, waiting, uxMutexesHeld, uxPriority, uxBasePriority, value>>

Call(t, m) ==
    /\ Runs(t) /\ call[t].pc = "out"
    /\ xMutexHolder[m] # t
    /\ \A h \in Holds(t) : <<h, m>> \in use.nested
    /\ call' = [call EXCEPT ![t] = [Outside EXCEPT !.pc = "try", !.mutex = m]]
    /\ UNCHANGED <<xMutexHolder, waiting, uxMutexesHeld, uxPriority, uxBasePriority, value>>

\* The first critical section of xQueueSemaphoreTake.
Take(t) ==
    LET m == call[t].mutex
    IN  /\ Runs(t) /\ call[t].pc = "try"
        /\ IF xMutexHolder[m] = Nobody
             THEN /\ xMutexHolder' = [xMutexHolder EXCEPT ![m] = t]
                  /\ uxMutexesHeld' = [uxMutexesHeld EXCEPT ![t] = @ + 1]
                  /\ call' = [call EXCEPT ![t] = Outside]
             ELSE /\ call' = [call EXCEPT ![t].pc = "block"]
                  /\ UNCHANGED <<xMutexHolder, uxMutexesHeld>>
        /\ UNCHANGED <<waiting, uxPriority, uxBasePriority, value>>

\* xTaskPriorityInherit(holder), called by t.
Inherits(holder, t) == uxBasePriority[holder] < uxPriority[t]

xTaskPriorityInherit(holder, t) ==
    LET raised == IF uxPriority[holder] < uxPriority[t] THEN {holder} ELSE {}
    IN  /\ uxPriority' = [u \in Callers |->
                            IF u \in raised THEN uxPriority[t] ELSE uxPriority[u]]
        /\ value' = [u \in Callers |->
                            IF u \in raised THEN uxPriority[t] ELSE value[u]]

\* vListInsert: the items of the list keep their places when their values change.
InsertByValue(list, t) ==
    LET behind == {i \in DOMAIN list : value'[list[i]] < value'[t]}
        place == IF behind = {} THEN Len(list) + 1
                 ELSE CHOOSE i \in behind : \A j \in behind : i <= j
    IN  InsertAt(list, place, t)

\* The scheduler suspended: the mutex may be free by now.
Block(t) ==
    LET m == call[t].mutex
    IN  /\ Runs(t) /\ call[t].pc = "block"
        /\ IF xMutexHolder[m] = Nobody
             THEN /\ call' = [call EXCEPT ![t].pc = "try"]
                  /\ UNCHANGED <<waiting, uxPriority, value>>
             ELSE /\ xTaskPriorityInherit(xMutexHolder[m], t)
                  /\ waiting' = [waiting EXCEPT ![m] = InsertByValue(@, t)]
                  /\ call' = [call EXCEPT ![t].pc = "waiting",
                                ![t].inherited = Inherits(xMutexHolder[m], t)]
        /\ UNCHANGED <<xMutexHolder, uxMutexesHeld, uxBasePriority>>

\* The tick finds that t has waited long enough.
TimePasses(t) ==
    /\ call[t].pc = "waiting"
    /\ call' = [call EXCEPT ![t].pc = "expired"]
    /\ waiting' = [waiting EXCEPT ![call[t].mutex] = RemoveFirst(@, t)]
    /\ UNCHANGED <<xMutexHolder, uxMutexesHeld, uxPriority, uxBasePriority, value>>

\* A call that was woken but finds the mutex taken again may be out of time too.
Late(t) ==
    /\ At(t, "block", "expired")
    /\ UNCHANGED <<xMutexHolder, waiting, uxMutexesHeld, uxPriority, uxBasePriority, value>>

LookAgain(t) ==
    LET free == xMutexHolder[call[t].mutex] = Nobody
    IN  /\ Runs(t) /\ call[t].pc = "expired"
        /\ call' = [call EXCEPT ![t] = IF free THEN [@ EXCEPT !.pc = "try"]
                                       ELSE IF @.inherited THEN [@ EXCEPT !.pc = "failed"]
                                       ELSE Outside]
        /\ UNCHANGED <<xMutexHolder, waiting, uxMutexesHeld, uxPriority,
                       uxBasePriority, value>>

prvGetHighestPriorityOfWaitToReceiveList(m) ==
    IF waiting[m] = << >> THEN 0 ELSE value[Head(waiting[m])]

\* vTaskPriorityDisinheritAfterTimeout: down to the first of those that still wait.
DisinheritTo(t, highest) ==
    LET m      == call[t].mutex
        holder == xMutexHolder[m]
        target == IF uxBasePriority[holder] < highest THEN highest
                  ELSE uxBasePriority[holder]
    IN  /\ Runs(t) /\ call[t].pc = "failed"
        /\ IF holder # Nobody /\ uxMutexesHeld[holder] = 1
             THEN /\ uxPriority' = [uxPriority EXCEPT ![holder] = target]
                  /\ value' = [value EXCEPT ![holder] =
                                 IF uxPriority[holder] # target THEN target ELSE @]
             ELSE UNCHANGED <<uxPriority, value>>
        /\ call' = [call EXCEPT ![t] = Outside]
        /\ UNCHANGED <<xMutexHolder, waiting, uxMutexesHeld, uxBasePriority>>

Disinherit(t) ==
    DisinheritTo(t, prvGetHighestPriorityOfWaitToReceiveList(call[t].mutex))

\* prvCopyDataToQueue of a mutex: xTaskPriorityDisinherit, and the first one that
\* waits is woken.
GiveCounting(t, m, given, keeps) ==
    LET woken == IF waiting[m] = << >> THEN {} ELSE {Head(waiting[m])}
    IN  /\ Runs(t) /\ call[t].pc = "out" /\ xMutexHolder[m] = t
        /\ xMutexHolder' = [xMutexHolder EXCEPT ![m] = Nobody]
        /\ uxMutexesHeld' = [uxMutexesHeld EXCEPT ![t] = @ - given]
        /\ IF uxPriority[t] # uxBasePriority[t] /\ ~keeps
             THEN /\ uxPriority' = [uxPriority EXCEPT ![t] = uxBasePriority[t]]
                  /\ value' = [value EXCEPT ![t] = uxBasePriority[t]]
             ELSE UNCHANGED <<uxPriority, value>>
        /\ waiting' = [waiting EXCEPT ![m] = IF @ = << >> THEN @ ELSE Tail(@)]
        /\ call' = [u \in Callers |-> IF u \in woken THEN [call[u] EXCEPT !.pc = "try"]
                                    ELSE call[u]]
        /\ UNCHANGED uxBasePriority

\* What was inherited is kept until the last mutex is given.
Give(t, m) == GiveCounting(t, m, 1, uxMutexesHeld[t] > 1)

SetPriority(t, p, takesEffect) ==
    /\ uxBasePriority[t] # p
    /\ uxBasePriority' = [uxBasePriority EXCEPT ![t] = p]
    /\ uxPriority' = [uxPriority EXCEPT ![t] = IF takesEffect THEN p ELSE @]
    /\ value' = [value EXCEPT ![t] = p]
    /\ UNCHANGED <<xMutexHolder, waiting, uxMutexesHeld, call>>

vTaskPrioritySet_KeepsInherited(t, p) ==
    SetPriority(t, p, uxBasePriority[t] = uxPriority[t])

\* An inherited priority is kept if it is higher.
vTaskPrioritySet(t, p) ==
    SetPriority(t, p, uxBasePriority[t] = uxPriority[t] \/ p > uxPriority[t])

Next ==
    /\ UNCHANGED use
    /\ \/ \E t \in Callers :
            \/ Sleep(t) \/ WakeUp(t) \/ Take(t) \/ Block(t) \/ TimePasses(t) \/ Late(t)
            \/ LookAgain(t) \/ Disinherit(t)
            \/ \E m \in use.mutexes : Call(t, m) \/ Give(t, m)
       \/ \E t, u \in Callers, p \in use.settings :
            Runs(t) /\ call[t].pc = "out" /\ vTaskPrioritySet(u, p)

Spec == Init /\ [][Next]_vars

(* ---- properties ---- *)

\* Type invariant.
TypeOK ==
    /\ use \in Uses
    /\ xMutexHolder \in [use.mutexes -> Callers \union {Nobody}]
    /\ waiting \in [use.mutexes -> Seq(Callers)]
    /\ uxMutexesHeld \in [Callers -> 0 .. Cardinality(use.mutexes)]
    /\ \A p \in {uxPriority, uxBasePriority, value} : p \in [Callers -> Nat]
    /\ call \in [Callers ->
          [pc : {"out", "asleep", "try", "block", "waiting", "expired", "failed"},
           mutex : use.mutexes \union {"none"}, inherited : BOOLEAN]]

\* A task that holds no mutex is as urgent as it was made, and one that holds some is
\* not less urgent: nothing inherited is left behind or taken away with what was set,
\* however gives, timeouts and vTaskPrioritySet come between each other.
BaseRestored ==
    \A t \in Callers :
      /\ uxPriority[t] >= uxBasePriority[t]
      /\ Holds(t) = {} => uxPriority[t] = uxBasePriority[t]

\* No task waits for a mutex whose holder is less urgent than it is, where nobody
\* waits for one while he holds another and nobody's priority is set.
NoInversion ==
    use.nested = {} /\ use.settings = {} =>
      \A m \in use.mutexes, t \in Callers :
        t \in ToSet(waiting[m]) /\ xMutexHolder[m] # Nobody =>
          uxPriority[xMutexHolder[m]] >= uxPriority[t]

\* What is inherited is enough, and it is given back.
Inheritance == BaseRestored /\ NoInversion

\* queue.c:1849: after a timeout the priority of the holder is taken back, "but only
\* as low as the next highest priority task that is waiting for the same mutex".
NextHighestWaiter ==
    [][\A t \in Callers :
         call[t].pc = "failed" /\ call'[t].pc = "out" =>
           LET m == call[t].mutex
           IN  \A u \in ToSet(waiting[m]), h \in Holders(m) :
                 uxPriority'[h] >= uxPriority[u] \/ uxPriority'[h] >= uxPriority[h]]_vars

=============================================================================
