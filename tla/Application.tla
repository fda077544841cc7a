---------------------------- MODULE Application ----------------------------
(***************************************************************************)
(* The two tasks of main.c and enc624j600_hal_delay: a task of priority 1  *)
(* that watches the tick, and one of priority 2 that initialises the       *)
(* driver, with delays that watch the tick too, and then polls for frames  *)
(* and sleeps.  The chip decides when the link is up.                      *)
(***************************************************************************)
EXTENDS Naturals

CONSTANTS
    Round,      \* how many values TickType_t has
    Toggle,     \* pdMS_TO_TICKS(500)
    Period,     \* pdMS_TO_TICKS(5000)
    Delay       \* pdMS_TO_TICKS(us), what a delay of the driver waits for

ApplicationAssumption ==
    Round \in Nat \ {0} /\ Toggle \in Nat /\ Period \in Nat \ {0} /\ Delay \in Nat

VARIABLES
    tick,
    first, ticks,       \* my_first_task: where it is, its variable
    second, start,      \* my_second_task, the variable of enc624j600_hal_delay
    sleeping,           \* ticks vTaskDelay has still to wait
    looked,             \* the running task looked at the tick since it changed
    led,
    sinceToggle, sinceDelay \* history: ticks since then, up to Round

tasks   == <<first, ticks, second, start>>
elapsed == <<sinceToggle, sinceDelay>>
vars    == <<tick, tasks, sleeping, looked, led, elapsed>>

Init ==
    /\ tick \in 0 .. Round - 1
    /\ first = "look" /\ ticks = tick
    /\ second = "init" /\ start = 0
    /\ sleeping = 0 /\ looked = FALSE /\ led = FALSE
    /\ sinceToggle = 0 /\ sinceDelay = 0

Minus(a, b) == (a + Round - b) % Round

More(n) == IF n < Round THEN n + 1 ELSE n

\* A task goes round its loop many times in a tick.
Tick ==
    /\ looked
    /\ tick' = (tick + 1) % Round
    /\ looked' = FALSE
    /\ IF second = "asleep" /\ sleeping = 1
         THEN second' = "poll" /\ sleeping' = 0
         ELSE /\ sleeping' = IF second = "asleep" THEN sleeping - 1 ELSE sleeping
              /\ UNCHANGED second
    /\ sinceToggle' = More(sinceToggle) 
    /\ sinceDelay' = IF second = "delay" THEN More(sinceDelay) ELSE 0
    /\ UNCHANGED <<first, ticks, start, led>>

(* ---- my_first_task, while the other one sleeps ---- *)

Looks(over) ==
    /\ second = "asleep" /\ first = "look"
    /\ looked' = TRUE
    /\ IF over
         THEN first' = "restart" /\ led' = ~led /\ sinceToggle' = 0
         ELSE UNCHANGED <<first, led, sinceToggle>>
    /\ UNCHANGED <<tick, ticks, second, start, sleeping, sinceDelay>>

Look_WithoutWrap == Looks(tick > ticks /\ tick - ticks > Toggle)

Look == Looks(Minus(tick, ticks) > Toggle)

\* The tick may have changed since it was compared.
Restart ==
    /\ second = "asleep" /\ first = "restart"
    /\ first' = "look" /\ ticks' = tick /\ looked' = TRUE
    /\ UNCHANGED <<tick, second, start, sleeping, led, elapsed>>

(* ---- my_second_task ---- *)

\* The loops of enc624j600_init wait, with and without a delay, for the chip.
Busy ==
    /\ second = "init"
    /\ looked' = TRUE
    /\ UNCHANGED <<tick, tasks, sleeping, led, elapsed>>

BeginDelay ==
    /\ second = "init"
    /\ second' = "delay" /\ start' = tick /\ sinceDelay' = 0
    /\ UNCHANGED <<tick, first, ticks, sleeping, looked, led, sinceToggle>>

Waits(ends) ==
    /\ second = "delay"
    /\ looked' = TRUE
    /\ IF ends THEN second' = "init" /\ start' = 0 /\ sinceDelay' = 0
               ELSE UNCHANGED <<second, start, sinceDelay>>
    /\ UNCHANGED <<tick, first, ticks, sleeping, led, sinceToggle>>

enc624j600_hal_delay == Waits(Minus(tick, start) >= Delay)

InitEnds ==
    /\ second = "init"
    /\ second' = "poll"
    /\ UNCHANGED <<tick, first, ticks, start, sleeping, looked, led, elapsed>>

Sleeps(n) ==
    /\ second = "poll"
    /\ second' = "asleep" /\ sleeping' = n
    /\ looked' = FALSE
    /\ UNCHANGED <<tick, first, ticks, start, led, elapsed>>

vTaskDelay == Sleeps(Period)

Next ==
    \/ Tick
    \/ Look \/ Restart
    \/ Busy \/ BeginDelay \/ enc624j600_hal_delay \/ InitEnds \/ vTaskDelay

Spec == Init /\ [][Next]_vars

\* The tick goes on, and so does the task that has the processor.  Nothing says that
\* the link comes up.
Fairness ==
    /\ WF_vars(Tick)
    /\ WF_vars(Look \/ Restart) /\ WF_vars(enc624j600_hal_delay) /\ WF_vars(vTaskDelay)

(* ---- properties ---- *)

\* Type invariant.
TypeOK ==
    /\ tick \in 0 .. Round - 1 /\ ticks \in 0 .. Round - 1 /\ start \in 0 .. Round - 1
    /\ first \in {"look", "restart"}
    /\ second \in {"init", "delay", "poll", "asleep"}
    /\ sleeping \in 0 .. Period /\ (sleeping > 0 <=> second = "asleep")
    /\ looked \in BOOLEAN /\ led \in BOOLEAN
    /\ sinceToggle \in 0 .. Round /\ sinceDelay \in 0 .. Round

\* A delay of the driver is never cut short, though the tick wraps during it.
DelayIsLongEnough ==
    [][second = "delay" /\ second' # "delay" => sinceDelay >= Delay]_vars

\* The LED is left alone for as long as the program says, also across the wrap.
ToggleIsSpaced == [][led' # led => sinceToggle > Toggle]_vars

\* Once the driver is initialised, the LED goes on being toggled: the polling task
\* leaves the processor alone for long enough.
GoesOnToggling ==
    \A on \in BOOLEAN : second \in {"poll", "asleep"} ~> led = on

\* The tasks keep time on a tick that wraps.
TimeIsKept == DelayIsLongEnough /\ ToggleIsSpaced /\ GoesOnToggling

=============================================================================
