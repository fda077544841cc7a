------------------------------ MODULE TimeOut ------------------------------
(***************************************************************************)
(* How FreeRTOS measures how long a call has waited: TimeOut_t, set when   *)
(* the wait begins, and xTaskCheckForTimeOut, asked each time the task     *)
(* wakes.  The tick is a counter that wraps; xNumOfOverflows counts how    *)
(* often it did.  What is measured is compared with time that does not     *)
(* wrap, kept in two history variables.                                    *)
(***************************************************************************)
EXTENDS Integers

CONSTANTS
    MaxDelay,   \* portMAX_DELAY: the largest TickType_t, and to wait for ever
    MaxTicks,   \* bound of the exploration: ticks counted in all
    MaxSilence  \* the most ticks between two looks at the same TimeOut_t

ASSUME TimeOutAssumption ==
    /\ MaxDelay \in Nat \ {0}
    /\ MaxTicks \in Nat
    /\ MaxSilence \in Nat

\* No task that waits is kept from looking for a whole round of the tick counter.
ASSUME SilenceAssumption == MaxSilence <= MaxDelay + 1

VARIABLES
    xTickCount, xNumOfOverflows,
    xOverflowCount, xTimeOnEntering,    \* the TimeOut_t
    xTicksToWait,   \* what the caller still wants to wait
    answer,         \* what the call has just done: asked the clock, or nothing
    asked,          \* history: what the call wanted to wait when it began
    waited,         \* history: ticks since the call began ...
    since           \* ... and since the TimeOut_t was last set

clock == <<xTickCount, xNumOfOverflows>>
state == <<xOverflowCount, xTimeOnEntering, xTicksToWait>>
vars  == <<clock, state, answer, asked, waited, since>>

waiting == answer \in {"begun", "wait"}

Times == 0 .. MaxDelay

Init ==
    /\ xTickCount = 0 /\ xNumOfOverflows = 0
    /\ xOverflowCount = 0 /\ xTimeOnEntering = 0 /\ xTicksToWait = 0
    /\ answer = "none"
    /\ asked = 0 /\ waited = 0 /\ since = 0

\* One tick of xTaskIncrementTick: the overflows are counted as the tick wraps.
Tick ==
    /\ xNumOfOverflows * (MaxDelay + 1) + xTickCount < MaxTicks
    /\ waiting => since < MaxSilence
    /\ IF xTickCount = MaxDelay
         THEN xTickCount' = 0 /\ xNumOfOverflows' = xNumOfOverflows + 1
         ELSE xTickCount' = xTickCount + 1 /\ UNCHANGED xNumOfOverflows
    /\ IF waiting
         THEN answer' = "begun" /\ waited' = waited + 1 /\ since' = since + 1
         ELSE answer' = "none" /\ UNCHANGED <<waited, since>>
    /\ UNCHANGED <<state, asked>>

vTaskInternalSetTimeOutState ==
    /\ xOverflowCount' = xNumOfOverflows
    /\ xTimeOnEntering' = xTickCount
    /\ since' = 0

Begin(ticks) ==
    /\ ~waiting
    /\ answer' = "begun"
    /\ vTaskInternalSetTimeOutState
    /\ xTicksToWait' = ticks /\ asked' = ticks /\ waited' = 0
    /\ UNCHANGED clock

\* The difference of two TickType_t.
Minus(a, b) == IF a >= b THEN a - b ELSE a - b + MaxDelay + 1

xElapsedTime == Minus(xTickCount, xTimeOnEntering)

WentRound_WithoutOverflow == xTickCount > xTimeOnEntering

\* It wrapped and came past the time of entry again.
WentRound ==
    xNumOfOverflows # xOverflowCount /\ xTickCount >= xTimeOnEntering

WaitForEver ==
    /\ xTicksToWait = MaxDelay
    /\ answer' = "wait"
    /\ UNCHANGED <<state, since>>

GoOnFrom(update) ==
    /\ xTicksToWait # MaxDelay
    /\ ~WentRound /\ xElapsedTime < xTicksToWait
    /\ xTicksToWait' = xTicksToWait - xElapsedTime
    /\ answer' = "wait"
    /\ IF update THEN vTaskInternalSetTimeOutState
                 ELSE UNCHANGED <<xOverflowCount, xTimeOnEntering, since>>

GoOn_FromTheSameTime == GoOnFrom(FALSE)

\* The remaining time counts from now.
GoOn == GoOnFrom(TRUE)

Expire ==
    /\ xTicksToWait # MaxDelay
    /\ WentRound \/ xElapsedTime >= xTicksToWait
    /\ xTicksToWait' = 0
    /\ answer' = "expired"
    /\ UNCHANGED <<xOverflowCount, xTimeOnEntering, since>>

xTaskCheckForTimeOut ==
    /\ waiting
    /\ WaitForEver \/ GoOn \/ Expire
    /\ UNCHANGED <<clock, asked, waited>>

\* The event the call waited for happened.
Return ==
    /\ waiting
    /\ answer' = "none"
    /\ UNCHANGED <<clock, state, asked, waited, since>>

Next ==
    \/ Tick
    \/ \E ticks \in Times : Begin(ticks)
    \/ xTaskCheckForTimeOut
    \/ Return

Spec == Init /\ [][Next]_vars

(* ---- properties ---- *)

\* Type invariant.
TypeOK ==
    /\ xTickCount \in Times /\ xNumOfOverflows \in Nat
    /\ xTimeOnEntering \in Times /\ xOverflowCount \in Nat
    /\ xTicksToWait \in Times /\ asked \in Times
    /\ answer \in {"none", "begun", "wait", "expired"}
    /\ waited \in Nat /\ since \in Nat

\* xTaskCheckForTimeOut never says too early that a wait is over, however often the
\* tick wrapped and the wait was interrupted, and never at all of one for ever.
NeverEarly == answer = "expired" => asked # MaxDelay /\ waited >= asked

\* When it says there is time left, it is exactly what remains of what the caller
\* asked for: a wait interrupted again and again is neither longer nor shorter.
RemainingExact ==
    answer = "wait" /\ asked # MaxDelay =>
      /\ waited < asked
      /\ xTicksToWait = asked - waited

\* Waits are as long as callers ask for, whatever the tick does meanwhile.
WaitsExact == NeverEarly /\ RemainingExact

(* ---- the inductive invariant ---- *)

\* How the clock's two numbers and the ticks since the TimeOut_t was set agree.
ClockAgrees ==
    \/ /\ xNumOfOverflows = xOverflowCount
       /\ since = xTickCount - xTimeOnEntering
    \/ /\ xNumOfOverflows = xOverflowCount + 1
       /\ since = xTickCount - xTimeOnEntering + MaxDelay + 1

\* The wait began as long before the TimeOut_t was last set as the time taken off
\* xTicksToWait.
WaitAgrees ==
    IF asked = MaxDelay THEN xTicksToWait = MaxDelay
    ELSE /\ 0 < xTicksToWait \/ asked = 0
         /\ waited - since = asked - xTicksToWait

IInv ==
    /\ TypeOK
    /\ waiting => /\ ClockAgrees /\ WaitAgrees
                  /\ since <= waited /\ since <= MaxDelay + 1
    /\ NeverEarly /\ RemainingExact

=============================================================================
