------------------------------ MODULE Sleepers ------------------------------
(***************************************************************************)
(* What a delay and a wait with a timeout promise to the tasks that ask    *)
(* for them, without tick count, lists or overflow: each sleeping task has *)
(* a number of ticks to go, every tick takes one off each, and a task is   *)
(* awake exactly when none is left or the event it waits for happens,      *)
(* which wakes a waiting task of the highest priority.                     *)
(***************************************************************************)
EXTENDS Integers

CONSTANTS
    Tasks,      \* the tasks that can sleep
    Priority,   \* their priorities
    Delays      \* the numbers of ticks they ask for

VARIABLES
    remaining,  \* ticks to go of each task: 0 when it is awake ...
    waiting     \* the tasks that an event can wake

vars == <<remaining, waiting>>

\* ... and this when only the event can wake it.
Forever == -1

Init ==
    /\ remaining = [t \in Tasks |-> 0]
    /\ waiting = {}

Sleep(t, n, onEvent) ==
    /\ remaining[t] = 0
    /\ remaining' = [remaining EXCEPT ![t] = n]
    /\ waiting' = IF onEvent THEN waiting \union {t} ELSE waiting

Tick ==
    /\ remaining' = [t \in Tasks |-> IF remaining[t] > 0 THEN remaining[t] - 1
                                                         ELSE remaining[t]]
    /\ waiting' = {t \in waiting : remaining'[t] # 0}

Event(t) ==
    /\ t \in waiting
    /\ \A u \in waiting : Priority[u] <= Priority[t]
    /\ remaining' = [remaining EXCEPT ![t] = 0]
    /\ waiting' = waiting \ {t}

Next ==
    \/ \E t \in Tasks, n \in Delays : Sleep(t, n, FALSE) \/ Sleep(t, n, TRUE)
    \/ \E t \in Tasks : Sleep(t, Forever, TRUE)
    \/ Tick
    \/ \E t \in Tasks : Event(t)

Spec == Init /\ [][Next]_vars

=============================================================================
