--------------------------- MODULE Services_proofs ---------------------------
(***************************************************************************)
(* That the services keep what they promise, for every value of their      *)
(* constants.  The proofs are about one part each; that the parts leave    *)
(* each other alone makes them theorems about all together.                *)
(***************************************************************************)
EXTENDS Services, Lemmas

-----------------------------------------------------------------------------
(* The time calls wait. *)

\* A clock that has just started agrees with every TimeOut_t.
LEMMA InitIInv == Init => IInv
  <1> SUFFICES ASSUME Init PROVE IInv
    OBVIOUS
  <1>1. TypeOK
    BY TimeOutAssumption DEF Init, TypeOK, Times
  <1>2. ~waiting /\ answer = "none"
    BY DEF Init, waiting
  <1>3. QED
    BY <1>1, <1>2 DEF IInv, NeverEarly, RemainingExact

\* The time that passed, computed modulo the width of the tick from two of its
\* values, is the true one unless it was a whole round, which the count of the
\* overflows tells.
LEMMA Elapsed ==
  ASSUME TypeOK, ClockAgrees, since <= MaxDelay + 1
  PROVE  /\ ~WentRound => xElapsedTime = since
         /\ WentRound => since = MaxDelay + 1
  BY TimeOutAssumption
  DEF TypeOK, Times, ClockAgrees, WentRound, xElapsedTime, Minus

\* A tick keeps the clock's numbers and the time waited in step.
LEMMA TickIInv == ASSUME IInv, Tick PROVE IInv'
  <1>1. TypeOK'
    BY TimeOutAssumption DEF IInv, TypeOK, Times, Tick, state
  <1>2. ASSUME waiting'
        PROVE  /\ ClockAgrees' /\ WaitAgrees'
               /\ since' <= waited' /\ since' <= MaxDelay + 1
    <2>1. /\ waiting /\ TypeOK /\ ClockAgrees /\ WaitAgrees
          /\ since <= waited /\ since < MaxSilence
      BY <1>2 DEF IInv, Tick, waiting
    <2>2. since' = since + 1 /\ waited' = waited + 1
      BY <2>1 DEF Tick
    <2>3. UNCHANGED <<xOverflowCount, xTimeOnEntering, xTicksToWait, asked>>
      BY DEF Tick, state
    <2>4. CASE xTickCount = MaxDelay
      <3>1. xTickCount' = 0 /\ xNumOfOverflows' = xNumOfOverflows + 1
        BY <2>4 DEF Tick
      <3>2. QED
        BY <2>1, <2>2, <2>3, <2>4, <3>1, TimeOutAssumption, SilenceAssumption
        DEF TypeOK, Times, ClockAgrees, WaitAgrees
    <2>5. CASE xTickCount # MaxDelay
      <3>1. xTickCount' = xTickCount + 1 /\ xNumOfOverflows' = xNumOfOverflows
        BY <2>5 DEF Tick
      <3>2. QED
        BY <2>1, <2>2, <2>3, <2>5, <3>1, TimeOutAssumption, SilenceAssumption
        DEF TypeOK, Times, ClockAgrees, WaitAgrees
    <2>6. QED
      BY <2>4, <2>5
  <1>3. answer' \in {"none", "begun"}
    BY DEF Tick
  <1>4. QED
    BY <1>1, <1>2, <1>3 DEF IInv, NeverEarly, RemainingExact

\* A wait begins with nothing taken off it.
LEMMA BeginIInv == ASSUME IInv, NEW delay \in Times, Begin(delay) PROVE IInv'
  BY TimeOutAssumption
  DEF IInv, TypeOK, Times, Begin, waiting, vTaskInternalSetTimeOutState, clock,
      ClockAgrees, WaitAgrees, NeverEarly, RemainingExact

\* The three answers of xTaskCheckForTimeOut.
LEMMA CheckIInv == ASSUME IInv, xTaskCheckForTimeOut PROVE IInv'
  <1>0. /\ waiting /\ TypeOK /\ ClockAgrees /\ WaitAgrees
        /\ since <= waited /\ since <= MaxDelay + 1
        /\ UNCHANGED <<xTickCount, xNumOfOverflows, asked, waited>>
    BY DEF IInv, xTaskCheckForTimeOut, clock
  <1>1. /\ ~WentRound => xElapsedTime = since
        /\ WentRound => since = MaxDelay + 1
    BY <1>0, Elapsed
  <1>3. CASE WaitForEver
    BY <1>0, <1>3, TimeOutAssumption
    DEF IInv, TypeOK, Times, WaitForEver, waiting, state, ClockAgrees, WaitAgrees,
        NeverEarly, RemainingExact
  <1>4. CASE GoOn
    <2>1. /\ xTicksToWait # MaxDelay /\ since < xTicksToWait
          /\ xTicksToWait' = xTicksToWait - since
          /\ answer' = "wait"
          /\ xOverflowCount' = xNumOfOverflows
          /\ xTimeOnEntering' = xTickCount
          /\ since' = 0
      BY <1>1, <1>4 DEF GoOn, GoOnFrom, vTaskInternalSetTimeOutState
    <2>2. asked # MaxDelay /\ waited - since = asked - xTicksToWait
      BY <1>0, <2>1 DEF WaitAgrees
    <2>3. TypeOK'
      BY <1>0, <2>1, TimeOutAssumption DEF TypeOK, Times
    <2>4. RemainingExact'
      BY <1>0, <2>1, <2>2 DEF RemainingExact, TypeOK, Times
    <2>5. QED
      BY <1>0, <2>1, <2>2, <2>3, <2>4, TimeOutAssumption
      DEF IInv, TypeOK, Times, ClockAgrees, WaitAgrees, NeverEarly
  <1>5. CASE Expire
    <2>1. /\ xTicksToWait # MaxDelay
          /\ WentRound \/ xElapsedTime >= xTicksToWait
          /\ xTicksToWait' = 0 /\ answer' = "expired"
          /\ UNCHANGED <<xOverflowCount, xTimeOnEntering, since>>
      BY <1>5 DEF Expire
    <2>2. since >= xTicksToWait
      BY <1>0, <1>1, <2>1, TimeOutAssumption DEF TypeOK, Times
    <2>3. asked # MaxDelay /\ waited >= asked
      BY <1>0, <2>1, <2>2 DEF WaitAgrees, TypeOK, Times
    <2>4. TypeOK'
      BY <1>0, <2>1, TimeOutAssumption DEF TypeOK, Times
    <2>5. QED
      BY <1>0, <2>1, <2>3, <2>4 DEF IInv, waiting, NeverEarly, RemainingExact
  <1>6. QED
    BY <1>3, <1>4, <1>5 DEF xTaskCheckForTimeOut

\* A call that returns for its event leaves everything as it is.
LEMMA ReturnIInv == ASSUME IInv, Return PROVE IInv'
  BY DEF IInv, TypeOK, Return, waiting, clock, state, NeverEarly, RemainingExact

\* The invariant is inductive.
LEMMA NextIInv == IInv /\ [Next]_vars => IInv'
  <1> SUFFICES ASSUME IInv, [Next]_vars PROVE IInv'
    OBVIOUS
  <1>1. CASE UNCHANGED vars
    BY <1>1
    DEF vars, clock, state, IInv, TypeOK, waiting, ClockAgrees, WaitAgrees, NeverEarly,
        RemainingExact
  <1>2. QED
    BY <1>1, TickIInv, BeginIInv, CheckIInv, ReturnIInv DEF Next

\* xTaskCheckForTimeOut, on a tick of any width: the variables keep their types.
THEOREM Typed == Spec => []TypeOK
  <1>1. IInv => TypeOK
    BY DEF IInv
  <1>2. QED
    BY <1>1, InitIInv, NextIInv, PTL DEF Spec

\* xTaskCheckForTimeOut never reports the end of a wait before its time, and leaves in
\* *pxTicksToWait exactly what remains.
THEOREM Exact == Spec => []WaitsExact
  <1>1. IInv => WaitsExact
    BY DEF IInv, WaitsExact
  <1>2. QED
    BY <1>1, InitIInv, NextIInv, PTL DEF Spec

-----------------------------------------------------------------------------
(* Each part by itself. *)

\* A step of one part leaves the others alone.
LEMMA OthersRest ==
  ASSUME [servicesNext]_servicesVars
  PROVE  /\ [Next]_vars
         /\ [Mutex!Next]_(Mutex!vars)
         /\ [Notification!Next]_(Notification!vars)
         /\ [EventGroup!Next]_(EventGroup!vars)
         /\ [StreamBuffer!Next]_(StreamBuffer!vars)
         /\ [Application!Next]_(Application!vars)
         /\ [Heap!Next]_(Heap!vars)
         /\ [Mem!Next]_(Mem!vars)
         /\ [Timers!Next]_(Timers!vars)
         /\ [Arp!Next]_(Arp!vars)
  <1>1. /\ UNCHANGED mutexVars => UNCHANGED Mutex!vars
        /\ UNCHANGED notificationVars => UNCHANGED Notification!vars
        /\ UNCHANGED groupVars => UNCHANGED EventGroup!vars
        /\ UNCHANGED streamVars => UNCHANGED StreamBuffer!vars
        /\ UNCHANGED applicationVars => UNCHANGED Application!vars
        /\ UNCHANGED heapVars => UNCHANGED Heap!vars
        /\ UNCHANGED memVars => UNCHANGED Mem!vars
        /\ UNCHANGED timersVars => UNCHANGED Timers!vars
        /\ UNCHANGED arpVars => UNCHANGED Arp!vars
    BY DEF mutexVars, Mutex!vars,
           notificationVars, Notification!vars, Notification!data, Notification!lists,
           groupVars, EventGroup!vars,
           streamVars, StreamBuffer!vars, StreamBuffer!ring, StreamBuffer!waiters,
           applicationVars, Application!vars, Application!tasks, Application!elapsed,
           heapVars, Heap!vars, memVars, Mem!vars,
           timersVars, Timers!vars, arpVars, Arp!vars
  <1>2. CASE UNCHANGED servicesVars
    BY <1>1, <1>2 DEF servicesVars
  <1>3. CASE servicesNext
    BY <1>1, <1>3 DEF servicesNext, Move
  <1>4. QED
    BY <1>2, <1>3

\* What the services do together is, seen from each of them, what it does alone.
THEOREM EachAlone ==
  servicesSpec =>
    /\ Spec /\ Mutex!Spec /\ Notification!Spec /\ EventGroup!Spec /\ StreamBuffer!Spec
    /\ Application!Spec /\ Heap!Spec /\ Mem!Spec /\ Timers!Spec /\ Arp!Spec
  <1>1. servicesInit =>
          /\ Init /\ Mutex!Init /\ Notification!Init /\ EventGroup!Init
          /\ StreamBuffer!Init /\ Application!Init /\ Heap!Init /\ Mem!Init
          /\ Timers!Init /\ Arp!Init
    BY DEF servicesInit
  <1>2. QED
    BY <1>1, OthersRest, PTL
       DEF servicesSpec, Spec, Mutex!Spec, Notification!Spec, EventGroup!Spec,
           StreamBuffer!Spec, Application!Spec, Heap!Spec, Mem!Spec, Timers!Spec, Arp!Spec

-----------------------------------------------------------------------------
(* The tasks of main.c. *)

\* While a task waits for a time to pass, no more has passed by the tick, which wraps,
\* than has passed.
ApplicationInv ==
    /\ tick \in 0 .. MaxDelay /\ ticks \in 0 .. MaxDelay /\ start \in 0 .. MaxDelay
    /\ sinceToggle \in 0 .. MaxDelay + 1 /\ sinceDelay \in 0 .. MaxDelay + 1
    /\ first = "look" => Application!Minus(tick, ticks) <= sinceToggle
    /\ second = "delay" => Application!Minus(tick, start) <= sinceDelay

\* Ticks since, modulo the width of the tick.
LEMMA TicksBetween ==
  ASSUME NEW a \in 0 .. MaxDelay, NEW b \in 0 .. MaxDelay
  PROVE  Application!Minus(a, b) = IF b <= a THEN a - b ELSE a + MaxDelay + 1 - b
  BY TimeOutAssumption DEF Application!Minus

\* No task can see more of a tick than one tick.
LEMMA OneTick ==
  ASSUME NEW a \in 0 .. MaxDelay, NEW b \in 0 .. MaxDelay
  PROVE  /\ (a + 1) % (MaxDelay + 1) \in 0 .. MaxDelay
         /\ Application!Minus((a + 1) % (MaxDelay + 1), b) <= Application!Minus(a, b) + 1
         /\ Application!Minus(a, b) \in 0 .. MaxDelay /\ Application!Minus(a, a) = 0
  <1> DEFINE c == (a + 1) % (MaxDelay + 1)
  <1>1. c = IF a = MaxDelay THEN 0 ELSE a + 1
    BY TimeOutAssumption
  <1>2. c \in 0 .. MaxDelay
    BY <1>1, TimeOutAssumption
  <1> HIDE DEF c
  <1>3. Application!Minus(c, b) = IF b <= c THEN c - b ELSE c + MaxDelay + 1 - b
    BY <1>2, TicksBetween
  <1>4. Application!Minus(a, b) = IF b <= a THEN a - b ELSE a + MaxDelay + 1 - b
    BY TicksBetween
  <1>5. Application!Minus(a, a) = IF a <= a THEN a - a ELSE a + MaxDelay + 1 - a
    BY TicksBetween
  <1>6. Application!Minus(c, b) <= Application!Minus(a, b) + 1
    BY <1>1, <1>3, <1>4, TimeOutAssumption
  <1>7. Application!Minus(a, b) \in 0 .. MaxDelay /\ Application!Minus(a, a) = 0
    BY <1>4, <1>5, TimeOutAssumption
  <1>8. QED
    BY <1>2, <1>6, <1>7 DEF c

\* The tick begins anywhere.
LEMMA ApplicationInit == ASSUME Application!Init PROVE ApplicationInv
  <1>1. /\ tick \in 0 .. MaxDelay /\ ticks = tick /\ start = 0 /\ second = "init"
        /\ sinceToggle = 0 /\ sinceDelay = 0
    BY TimeOutAssumption DEF Application!Init
  <1>2. Application!Minus(tick, ticks) = 0
    BY <1>1, OneTick
  <1>3. QED
    BY <1>1, <1>2, TimeOutAssumption DEF ApplicationInv

\* The invariant is inductive.
LEMMA ApplicationStep ==
  ASSUME ApplicationInv, [Application!Next]_(Application!vars)
  PROVE  ApplicationInv'
  <1>1. CASE UNCHANGED Application!vars
    BY <1>1
       DEF ApplicationInv, Application!vars, Application!tasks, Application!elapsed,
           Application!Minus
  <1>2. CASE Application!Tick
    <2>1. /\ tick' = (tick + 1) % (MaxDelay + 1)
          /\ UNCHANGED <<first, ticks, start>>
          /\ sinceToggle' = IF sinceToggle < MaxDelay + 1 THEN sinceToggle + 1 ELSE sinceToggle
          /\ second = "delay" =>
               sinceDelay' = IF sinceDelay < MaxDelay + 1 THEN sinceDelay + 1 ELSE sinceDelay
          /\ second # "delay" => sinceDelay' = 0
          /\ second' = "delay" => second = "delay"
      BY <1>2 DEF Application!Tick, Application!More
    <2>2. tick' \in 0 .. MaxDelay
      BY <2>1, OneTick DEF ApplicationInv
    <2>3. sinceToggle' \in 0 .. MaxDelay + 1 /\ sinceDelay' \in 0 .. MaxDelay + 1
      BY <2>1, TimeOutAssumption DEF ApplicationInv
    <2>4. ASSUME NEW b \in 0 .. MaxDelay, NEW n \in 0 .. MaxDelay + 1,
                 Application!Minus(tick, b) <= n
          PROVE  Application!Minus(tick', b) <= IF n < MaxDelay + 1 THEN n + 1 ELSE n
      <3>1. /\ Application!Minus(tick', b) <= Application!Minus(tick, b) + 1
            /\ Application!Minus(tick, b) \in 0 .. MaxDelay
        BY <2>1, OneTick DEF ApplicationInv
      <3>2. Application!Minus(tick', b) \in 0 .. MaxDelay
        BY <2>2, OneTick
      <3>3. QED
        BY <2>4, <3>1, <3>2, TimeOutAssumption
    <2>5. first' = "look" => Application!Minus(tick', ticks) <= sinceToggle'
      BY <2>1, <2>4 DEF ApplicationInv
    <2>6. second' = "delay" => Application!Minus(tick', start) <= sinceDelay'
      BY <2>1, <2>4 DEF ApplicationInv
    <2>7. Application!Minus(tick, ticks)' = Application!Minus(tick', ticks)
          /\ Application!Minus(tick, start)' = Application!Minus(tick', start)
      BY <2>1 DEF Application!Minus
    <2>8. QED
      BY <2>1, <2>2, <2>3, <2>5, <2>6, <2>7 DEF ApplicationInv
  <1>3. CASE Application!Look
    BY <1>3, TimeOutAssumption
       DEF ApplicationInv, Application!Look, Application!Looks, Application!Minus
  <1>4. CASE Application!Restart
    <2>1. ticks' = tick /\ first' = "look"
          /\ UNCHANGED <<tick, second, start, sinceToggle, sinceDelay>>
      BY <1>4 DEF Application!Restart, Application!elapsed
    <2>2. Application!Minus(tick, tick) = 0
      BY OneTick DEF ApplicationInv
    <2>3. Application!Minus(tick, ticks)' = Application!Minus(tick, tick)
          /\ Application!Minus(tick, start)' = Application!Minus(tick, start)
      BY <2>1 DEF Application!Minus
    <2>4. QED
      BY <2>1, <2>2, <2>3, TimeOutAssumption DEF ApplicationInv
  <1>5. CASE Application!BeginDelay
    <2>1. start' = tick /\ sinceDelay' = 0 /\ UNCHANGED <<tick, first, ticks, sinceToggle>>
      BY <1>5 DEF Application!BeginDelay
    <2>2. Application!Minus(tick, tick) = 0
      BY OneTick DEF ApplicationInv
    <2>3. Application!Minus(tick, ticks)' = Application!Minus(tick, ticks)
          /\ Application!Minus(tick, start)' = Application!Minus(tick, tick)
      BY <2>1 DEF Application!Minus
    <2>4. QED
      BY <2>1, <2>2, <2>3, TimeOutAssumption DEF ApplicationInv
  <1>6. CASE Application!enc624j600_hal_delay
    BY <1>6, TimeOutAssumption
       DEF ApplicationInv, Application!enc624j600_hal_delay, Application!Waits,
           Application!Minus
  <1>7. CASE Application!Busy \/ Application!InitEnds \/ Application!vTaskDelay
    BY <1>7
       DEF ApplicationInv, Application!Busy, Application!InitEnds, Application!vTaskDelay,
           Application!Sleeps, Application!tasks, Application!elapsed, Application!Minus
  <1>8. QED
    BY <1>1, <1>2, <1>3, <1>4, <1>5, <1>6, <1>7 DEF Application!Next

\* A delay of the driver lasts as many ticks as it was asked for (enc624j600_hal_delay),
\* and the LED is left alone for more than 500 ms, however the tick wraps and whichever
\* task it finds running.
THEOREM DelaysAreKept ==
  servicesSpec => Application!DelayIsLongEnough /\ Application!ToggleIsSpaced
  <1>1. ASSUME ApplicationInv, [Application!Next]_(Application!vars)
        PROVE  /\ [second = "delay" /\ second' # "delay" => sinceDelay >= Delay]_(Application!vars)
               /\ [led' # led => sinceToggle > Toggle]_(Application!vars)
    <2>1. CASE UNCHANGED Application!vars
      BY <2>1
    <2>2. CASE Application!Next
      <3>1. /\ Delay \in Nat /\ Toggle \in Nat
            /\ sinceDelay \in Nat /\ sinceToggle \in Nat /\ ticks \in 0 .. MaxDelay
            /\ start \in 0 .. MaxDelay /\ tick \in 0 .. MaxDelay
        <4>1. Application!ApplicationAssumption
          BY ServicesAssumption DEF ServicesAssumption
        <4>2. Delay \in Nat /\ Toggle \in Nat
          BY <4>1 DEF Application!ApplicationAssumption
        <4>3. QED
          BY <1>1, <4>2, TimeOutAssumption DEF ApplicationInv
      <3>2. Application!Minus(tick, start) \in 0 .. MaxDelay
            /\ Application!Minus(tick, ticks) \in 0 .. MaxDelay
        BY <3>1, OneTick
      <3>3. second = "delay" /\ second' # "delay" => Application!Minus(tick, start) >= Delay
        BY <2>2
           DEF Application!Next, Application!Tick, Application!Look, Application!Looks,
               Application!Restart, Application!Busy, Application!BeginDelay,
               Application!enc624j600_hal_delay, Application!Waits, Application!InitEnds,
               Application!vTaskDelay, Application!Sleeps, Application!tasks
      <3>4. led' # led => first = "look" /\ Application!Minus(tick, ticks) > Toggle
        BY <2>2
           DEF Application!Next, Application!Tick, Application!Look, Application!Looks,
               Application!Restart, Application!Busy, Application!BeginDelay,
               Application!enc624j600_hal_delay, Application!Waits, Application!InitEnds,
               Application!vTaskDelay, Application!Sleeps
      <3>5. QED
        BY <1>1, <3>1, <3>2, <3>3, <3>4, TimeOutAssumption DEF ApplicationInv
    <2>3. QED
      BY <1>1, <2>1, <2>2
  <1>2. QED
    BY <1>1, ApplicationInit, ApplicationStep, EachAlone, PTL
       DEF Application!Spec, Application!DelayIsLongEnough, Application!ToggleIsSpaced

-----------------------------------------------------------------------------
(* Mutexes. *)

Calls == [pc : {"out", "asleep", "try", "block", "waiting", "expired", "failed"},
          mutex : mutex.mutexes \union {"none"}, inherited : BOOLEAN]

\* The calls that go for the mutex if it is free.
Trying == {"try", "block", "expired"}

\* What the counter counts, and what a call is for.
HoldersKnown ==
    /\ mutex \in MutexUses
    /\ xMutexHolder \in [mutex.mutexes -> Mutex!Callers \union {Nobody}]
    /\ mutexWaiting \in [mutex.mutexes -> Seq(Mutex!Callers)]
    /\ uxMutexesHeld \in [Mutex!Callers -> Nat]
    /\ \A t \in Mutex!Callers : uxMutexesHeld[t] = Cardinality(Mutex!Holds(t))
    /\ uxPriority \in [Mutex!Callers -> Nat] /\ uxBasePriority \in [Mutex!Callers -> Nat]
    /\ value \in [Mutex!Callers -> Nat]
    /\ mutexCall \in [Mutex!Callers -> Calls]
    /\ \A t \in Mutex!Callers :
         mutexCall[t].pc \notin {"out", "asleep"} => mutexCall[t].mutex \in mutex.mutexes

\* A list has the tasks that wait for its mutex, each once.
WaitersKnown ==
    \A m \in mutex.mutexes :
      /\ IsInjective(mutexWaiting[m])
      /\ \A t \in ToSet(mutexWaiting[m]) :
           mutexCall[t].pc = "waiting" /\ mutexCall[t].mutex = m

\* Nobody waits for a mutex while he holds another, and nobody's priority is set.
Flat == mutex.nested = {} /\ mutex.settings = {}

\* Then a task holds one mutex at most, and none while it goes for one: who holds none
\* has its priority for good, and the lists stay sorted.
OneAtMost ==
    /\ \A t \in Mutex!Callers, m, n \in mutex.mutexes :
         xMutexHolder[m] = t /\ xMutexHolder[n] = t => m = n
    /\ \A t \in Mutex!Callers, m \in mutex.mutexes :
         mutexCall[t].pc \notin {"out", "asleep"} => xMutexHolder[m] # t

UrgentFirst ==
    /\ value = uxPriority
    /\ \A m \in mutex.mutexes : \A i, j \in 1 .. Len(mutexWaiting[m]) :
         i < j => uxPriority[mutexWaiting[m][i]] >= uxPriority[mutexWaiting[m][j]]

HolderUrgent ==
    \A m \in mutex.mutexes :
      xMutexHolder[m] # Nobody =>
        \A t \in ToSet(mutexWaiting[m]) : uxPriority[xMutexHolder[m]] >= uxPriority[t]

\* One who goes for a free mutex is as urgent as those who wait: whoever gets it before
\* him was running in his stead, and is too.
TakerUrgent ==
    \A m \in mutex.mutexes :
      xMutexHolder[m] = Nobody /\ ToSet(mutexWaiting[m]) # {} =>
        \E u \in Mutex!Callers :
          /\ mutexCall[u].pc \in Trying /\ mutexCall[u].mutex = m
          /\ \A t \in ToSet(mutexWaiting[m]) : uxPriority[u] >= uxPriority[t]

FlatInv == OneAtMost /\ UrgentFirst /\ HolderUrgent /\ TakerUrgent

MutexInv == HoldersKnown /\ WaitersKnown /\ Mutex!BaseRestored /\ (Flat => FlatInv)

\* The operators of Mutex on lists are those that lemmas are about.
LEMMA MutexLists ==
  /\ \A queue, e : Mutex!RemoveFirst(queue, e) = RemoveFirst(queue, e)
  /\ \A queue, p, e : Mutex!InsertAt(queue, p, e) = InsertAt(queue, p, e)
  /\ \A queue : Mutex!ToSet(queue) = ToSet(queue)
  BY DEF Mutex!RemoveFirst, Mutex!RemoveAt, Mutex!SelectInSeq, Mutex!InsertAt, Mutex!ToSet,
         RemoveFirst, RemoveAt, SelectInSeq, InsertAt, ToSet, Mutex!Min, Min

LEMMA MutexUsed ==
  ASSUME NEW u \in MutexUses
  PROVE  /\ Nobody \notin DOMAIN u.priorities /\ u.priorities \in [DOMAIN u.priorities -> Nat]
         /\ IsFiniteSet(u.mutexes) /\ u.settings \in SUBSET Nat
  <1>1. /\ Mutex!IsUse(u) /\ Nobody \notin MutexTasks
        /\ Mutex!IsFiniteSet(Mutexes)
    BY ServicesAssumption DEF ServicesAssumption, Mutex!MutexAssumption
  <1>2. IsFiniteSet(Mutexes)
    BY <1>1 DEF Mutex!IsFiniteSet, IsFiniteSet
  <1>3. u.mutexes \subseteq Mutexes /\ u.settings \in SUBSET Nat
    BY <1>1 DEF Mutex!IsUse
  <1>4. u.priorities \in [DOMAIN u.priorities -> Nat] /\ DOMAIN u.priorities \subseteq MutexTasks
    BY <1>1 DEF Mutex!IsUse
  <1>5. QED
    BY <1>1, <1>2, <1>3, <1>4, FS_Subset

LEMMA MutexInit == ASSUME Mutex!Init PROVE MutexInv
  <1>1. /\ mutex \in MutexUses /\ Nobody \notin Mutex!Callers
        /\ mutex.priorities \in [Mutex!Callers -> Nat]
    BY MutexUsed DEF Mutex!Init, Mutex!Callers
  <1>2. \A t \in Mutex!Callers : Mutex!Holds(t) = {}
    BY <1>1 DEF Mutex!Init, Mutex!Holds
  <1>3. << >> \in Seq(Mutex!Callers) /\ ToSet(<< >>) = {} /\ IsInjective(<< >>)
    BY DEF ToSet, IsInjective
  <1>4. HoldersKnown
    <2>1. \A t \in Mutex!Callers : uxMutexesHeld[t] = Cardinality(Mutex!Holds(t))
      BY <1>2, FS_EmptySet DEF Mutex!Init
    <2>2. mutexCall \in [Mutex!Callers -> Calls]
      BY DEF Mutex!Init, Mutex!Outside, Calls
    <2>3. \A t \in Mutex!Callers : mutexCall[t].pc = "out"
      BY DEF Mutex!Init, Mutex!Outside
    <2>4. /\ xMutexHolder \in [mutex.mutexes -> Mutex!Callers \union {Nobody}]
          /\ mutexWaiting \in [mutex.mutexes -> Seq(Mutex!Callers)]
          /\ uxMutexesHeld \in [Mutex!Callers -> Nat]
      BY <1>3 DEF Mutex!Init
    <2>5. /\ uxPriority \in [Mutex!Callers -> Nat] /\ value \in [Mutex!Callers -> Nat]
          /\ uxBasePriority \in [Mutex!Callers -> Nat]
      BY <1>1 DEF Mutex!Init
    <2>6. QED
      BY <1>1, <2>1, <2>2, <2>3, <2>4, <2>5 DEF HoldersKnown
  <1>5. \A m \in mutex.mutexes : mutexWaiting[m] = << >> /\ xMutexHolder[m] = Nobody
    BY DEF Mutex!Init
  <1>6. WaitersKnown
    BY <1>3, <1>5 DEF WaitersKnown
  <1>7. Mutex!BaseRestored
    BY <1>1, <1>2 DEF Mutex!Init, Mutex!BaseRestored
  <1>8. FlatInv
    BY <1>1, <1>3, <1>5 DEF Mutex!Init, FlatInv, OneAtMost, UrgentFirst, HolderUrgent,
                            TakerUrgent, Mutex!Outside
  <1>9. QED
    BY <1>4, <1>6, <1>7, <1>8 DEF MutexInv

\* A step that moves only where one call is keeps all, if it does not wait before or
\* after it, has its mutex, and goes for it still if it is free.
LEMMA CallMoves ==
  ASSUME MutexInv, NEW t \in Mutex!Callers, NEW c \in Calls,
         UNCHANGED <<mutex, xMutexHolder, mutexWaiting, uxMutexesHeld, uxPriority,
                     uxBasePriority, value>>,
         mutexCall' = [mutexCall EXCEPT ![t] = c],
         mutexCall[t].pc # "waiting",
         c.pc \notin {"out", "asleep"} =>
           /\ c.mutex \in mutex.mutexes
           /\ Flat => \A m \in mutex.mutexes : xMutexHolder[m] # t,
         mutexCall[t].pc \in Trying /\ xMutexHolder[mutexCall[t].mutex] = Nobody =>
           c.pc \in Trying /\ c.mutex = mutexCall[t].mutex
  PROVE  MutexInv'
  <1>1. HoldersKnown /\ WaitersKnown /\ Mutex!BaseRestored /\ (Flat => FlatInv)
    BY DEF MutexInv
  <1>2. Mutex!Callers' = Mutex!Callers /\ Calls' = Calls /\ Flat' = Flat
    BY DEF Mutex!Callers, Calls, Flat
  <1>3. \A u : Mutex!Holds(u)' = Mutex!Holds(u)
    BY DEF Mutex!Holds
  <1>4. mutexCall' \in [Mutex!Callers -> Calls] /\ mutexCall'[t] = c
        /\ \A u \in Mutex!Callers : u # t => mutexCall'[u] = mutexCall[u]
    BY <1>1 DEF HoldersKnown
  <1>5. HoldersKnown'
    BY <1>1, <1>2, <1>3, <1>4 DEF HoldersKnown
  <1>6. WaitersKnown'
    <2>1. ASSUME NEW m \in mutex.mutexes, NEW u \in ToSet(mutexWaiting[m])
          PROVE  mutexCall'[u].pc = "waiting" /\ mutexCall'[u].mutex = m
      <3>1. mutexCall[u].pc = "waiting" /\ mutexCall[u].mutex = m
        BY <1>1 DEF WaitersKnown
      <3>2. u \in Mutex!Callers /\ u # t
        <4>1. mutexWaiting[m] \in Seq(Mutex!Callers)
          BY <1>1 DEF HoldersKnown
        <4>2. PICK i \in 1 .. Len(mutexWaiting[m]) : u = mutexWaiting[m][i]
          BY <4>1, Indices, Zenon
        <4>3. QED
          BY <3>1, <4>1, <4>2, Indices
      <3>3. QED
        BY <1>4, <3>1, <3>2
    <2>2. QED
      BY <1>1, <2>1 DEF WaitersKnown
  <1>7. Mutex!BaseRestored'
    BY <1>1, <1>2, <1>3 DEF Mutex!BaseRestored
  <1>8. ASSUME Flat PROVE FlatInv'
    <2>1. OneAtMost /\ UrgentFirst /\ HolderUrgent /\ TakerUrgent
      BY <1>1, <1>8 DEF FlatInv
    <2>2. OneAtMost'
      <3>1. ASSUME NEW u \in Mutex!Callers, NEW m \in mutex.mutexes,
                   mutexCall'[u].pc \notin {"out", "asleep"}
            PROVE  xMutexHolder[m] # u
        BY <1>4, <1>8, <2>1, <3>1 DEF OneAtMost
      <3>2. QED
        BY <1>2, <2>1, <3>1 DEF OneAtMost
    <2>3. UrgentFirst' /\ HolderUrgent'
      BY <2>1 DEF UrgentFirst, HolderUrgent
    <2>4. TakerUrgent'
      <3>1. ASSUME NEW m \in mutex.mutexes, xMutexHolder[m] = Nobody,
                   ToSet(mutexWaiting[m]) # {}
            PROVE  \E u \in Mutex!Callers :
                     /\ mutexCall'[u].pc \in Trying /\ mutexCall'[u].mutex = m
                     /\ \A w \in ToSet(mutexWaiting[m]) : uxPriority[u] >= uxPriority[w]
        <4>1. PICK u \in Mutex!Callers :
                /\ mutexCall[u].pc \in Trying /\ mutexCall[u].mutex = m
                /\ \A w \in ToSet(mutexWaiting[m]) : uxPriority[u] >= uxPriority[w]
          BY <2>1, <3>1 DEF TakerUrgent
        <4>2. mutexCall'[u].pc \in Trying /\ mutexCall'[u].mutex = m
          BY <1>4, <3>1, <4>1
        <4>3. QED
          BY <4>1, <4>2
      <3>2. QED
        BY <1>2, <3>1 DEF TakerUrgent
    <2>5. QED
      BY <2>2, <2>3, <2>4 DEF FlatInv
  <1>9. QED
    BY <1>2, <1>5, <1>6, <1>7, <1>8 DEF MutexInv

\* The steps that move only a call.
LEMMA MutexMoves ==
  ASSUME MutexInv, UNCHANGED mutex, NEW t \in Mutex!Callers,
         \/ Mutex!Sleep(t) \/ Mutex!WakeUp(t) \/ Mutex!Late(t) \/ Mutex!LookAgain(t)
         \/ Mutex!Take(t) /\ xMutexHolder[mutexCall[t].mutex] # Nobody
         \/ Mutex!Block(t) /\ xMutexHolder[mutexCall[t].mutex] = Nobody
  PROVE  MutexInv'
  <1>1. HoldersKnown /\ WaitersKnown /\ Mutex!BaseRestored /\ (Flat => OneAtMost)
    BY DEF MutexInv, FlatInv
  <1>2. /\ mutexCall[t] \in Calls
        /\ mutexCall[t].pc \notin {"out", "asleep"} =>
             /\ mutexCall[t].mutex \in mutex.mutexes
             /\ Flat => \A m \in mutex.mutexes : xMutexHolder[m] # t
    BY <1>1 DEF HoldersKnown, OneAtMost
  <1>3. mutexCall \in [Mutex!Callers -> Calls]
    BY <1>1 DEF HoldersKnown
  <1>4. /\ \A pc \in {"out", "asleep", "try", "block", "waiting", "expired", "failed"} :
             [mutexCall[t] EXCEPT !.pc = pc] \in Calls
        /\ Mutex!Outside \in Calls
    BY <1>2 DEF Calls, Mutex!Outside
  <1>5. CASE Mutex!Sleep(t) \/ Mutex!WakeUp(t)
    <2>1. PICK pc \in {"out", "asleep"} :
            mutexCall' = [mutexCall EXCEPT ![t] = [mutexCall[t] EXCEPT !.pc = pc]]
      BY <1>5 DEF Mutex!Sleep, Mutex!WakeUp, Mutex!At
    <2>2. /\ mutexCall[t].pc \in {"out", "asleep"}
          /\ UNCHANGED <<xMutexHolder, mutexWaiting, uxMutexesHeld, uxPriority,
                         uxBasePriority, value>>
      BY <1>5 DEF Mutex!Sleep, Mutex!WakeUp, Mutex!At
    <2>3. [mutexCall[t] EXCEPT !.pc = pc].pc = pc
      BY <1>2 DEF Calls
    <2>4. QED
      BY <1>4, <2>1, <2>2, <2>3, CallMoves DEF Trying
  <1>6. CASE \/ Mutex!Late(t)
             \/ Mutex!Take(t) /\ xMutexHolder[mutexCall[t].mutex] # Nobody
             \/ Mutex!Block(t) /\ xMutexHolder[mutexCall[t].mutex] = Nobody
    <2>1. PICK pc \in Trying :
            mutexCall' = [mutexCall EXCEPT ![t] = [mutexCall[t] EXCEPT !.pc = pc]]
      BY <1>6 DEF Mutex!Late, Mutex!Take, Mutex!Block, Mutex!At, Trying
    <2>2. /\ mutexCall[t].pc \in Trying
          /\ UNCHANGED <<xMutexHolder, mutexWaiting, uxMutexesHeld, uxPriority,
                         uxBasePriority, value>>
      BY <1>6 DEF Mutex!Late, Mutex!Take, Mutex!Block, Mutex!At, Trying
    <2>3. /\ [mutexCall[t] EXCEPT !.pc = pc].pc = pc
          /\ [mutexCall[t] EXCEPT !.pc = pc].mutex = mutexCall[t].mutex
      BY <1>2 DEF Calls
    <2>4. [mutexCall[t] EXCEPT !.pc = pc] \in Calls
      BY <1>4, <2>1 DEF Trying
    <2>5. mutexCall[t].pc \notin {"out", "asleep"} /\ mutexCall[t].pc # "waiting"
      BY <2>2 DEF Trying
    <2>6. QED
      BY <1>2, <2>1, <2>2, <2>3, <2>4, <2>5, CallMoves
  <1>7. CASE Mutex!LookAgain(t)
    <2>1. PICK c \in Calls :
            /\ mutexCall' = [mutexCall EXCEPT ![t] = c]
            /\ \/ c.pc \in {"try", "failed"} /\ c.mutex = mutexCall[t].mutex
               \/ c.pc = "out"
            /\ xMutexHolder[mutexCall[t].mutex] = Nobody => c.pc = "try"
      <3>1. /\ [mutexCall[t] EXCEPT !.pc = "try"].pc = "try"
            /\ [mutexCall[t] EXCEPT !.pc = "try"].mutex = mutexCall[t].mutex
            /\ [mutexCall[t] EXCEPT !.pc = "failed"].pc = "failed"
            /\ [mutexCall[t] EXCEPT !.pc = "failed"].mutex = mutexCall[t].mutex
            /\ Mutex!Outside.pc = "out"
        BY <1>2 DEF Calls, Mutex!Outside
      <3>2. [mutexCall[t] EXCEPT !.pc = "try"] \in Calls
            /\ [mutexCall[t] EXCEPT !.pc = "failed"] \in Calls /\ Mutex!Outside \in Calls
        BY <1>4
      <3>3. \/ /\ mutexCall' = [mutexCall EXCEPT ![t] = [mutexCall[t] EXCEPT !.pc = "try"]]
            \/ /\ xMutexHolder[mutexCall[t].mutex] # Nobody
               /\ \/ mutexCall' = [mutexCall EXCEPT ![t] = [mutexCall[t] EXCEPT !.pc = "failed"]]
                  \/ mutexCall' = [mutexCall EXCEPT ![t] = Mutex!Outside]
        BY <1>7 DEF Mutex!LookAgain
      <3>4. QED
        BY <3>1, <3>2, <3>3
    <2>2. /\ mutexCall[t].pc = "expired"
          /\ UNCHANGED <<xMutexHolder, mutexWaiting, uxMutexesHeld, uxPriority,
                         uxBasePriority, value>>
      BY <1>7 DEF Mutex!LookAgain
    <2>3. QED
      BY <1>2, <2>1, <2>2, CallMoves DEF Trying
  <1>8. QED
    BY <1>5, <1>6, <1>7

\* So does the first step of a call.
LEMMA MutexCalled ==
  ASSUME MutexInv, UNCHANGED mutex, NEW t \in Mutex!Callers, NEW m \in mutex.mutexes,
         Mutex!Call(t, m)
  PROVE  MutexInv'
  <1> DEFINE c == [Mutex!Outside EXCEPT !.pc = "try", !.mutex = m]
  <1>1. /\ mutexCall[t].pc = "out" /\ mutexCall' = [mutexCall EXCEPT ![t] = c]
        /\ UNCHANGED <<xMutexHolder, mutexWaiting, uxMutexesHeld, uxPriority,
                       uxBasePriority, value>>
    BY DEF Mutex!Call
  <1>2. c \in Calls /\ c.pc = "try" /\ c.mutex = m
    BY DEF Calls, Mutex!Outside
  <1>3. Flat => \A n \in mutex.mutexes : xMutexHolder[n] # t
    BY DEF Mutex!Call, Mutex!Holds, Flat
  <1> HIDE DEF c
  <1>4. QED
    BY <1>1, <1>2, <1>3, CallMoves DEF Trying

\* Who is on a list is a caller that waits, and is not on another.
LEMMA Waiters ==
  ASSUME HoldersKnown, WaitersKnown, NEW m \in mutex.mutexes
  PROVE  /\ mutexWaiting[m] \in Seq(Mutex!Callers) /\ IsInjective(mutexWaiting[m])
         /\ Len(mutexWaiting[m]) \in Nat
         /\ \A i \in 1 .. Len(mutexWaiting[m]) :
              mutexWaiting[m][i] \in ToSet(mutexWaiting[m])
         /\ \A t \in ToSet(mutexWaiting[m]) :
              /\ t \in Mutex!Callers /\ mutexCall[t].pc = "waiting" /\ mutexCall[t].mutex = m
              /\ uxPriority[t] \in Nat
              /\ \E i \in 1 .. Len(mutexWaiting[m]) : t = mutexWaiting[m][i]
  <1>1. mutexWaiting[m] \in Seq(Mutex!Callers) /\ IsInjective(mutexWaiting[m])
    BY DEF HoldersKnown, WaitersKnown
  <1>2. /\ Len(mutexWaiting[m]) \in Nat
        /\ \A i \in 1 .. Len(mutexWaiting[m]) :
             mutexWaiting[m][i] \in ToSet(mutexWaiting[m])
                /\ mutexWaiting[m][i] \in Mutex!Callers
        /\ \A t \in ToSet(mutexWaiting[m]) : \E i \in 1 .. Len(mutexWaiting[m]) :
             t = mutexWaiting[m][i]
    BY <1>1, Indices
  <1>3. ASSUME NEW t \in ToSet(mutexWaiting[m])
        PROVE  /\ t \in Mutex!Callers /\ mutexCall[t].pc = "waiting" /\ mutexCall[t].mutex = m
               /\ uxPriority[t] \in Nat
    <2>1. t \in Mutex!Callers
      BY <1>2
    <2>2. QED
      BY <2>1 DEF HoldersKnown, WaitersKnown
  <1>4. QED
    BY <1>1, <1>2, <1>3

\* A mutex that is free is taken.
LEMMA MutexTaken ==
  ASSUME MutexInv, UNCHANGED mutex, NEW t \in Mutex!Callers, Mutex!Take(t),
         xMutexHolder[mutexCall[t].mutex] = Nobody
  PROVE  MutexInv'
  <1> DEFINE m == mutexCall[t].mutex
  <1>1. HoldersKnown /\ WaitersKnown /\ Mutex!BaseRestored /\ (Flat => FlatInv)
    BY DEF MutexInv
  <1>2. /\ Mutex!Runs(t) /\ mutexCall[t].pc = "try"
        /\ xMutexHolder' = [xMutexHolder EXCEPT ![m] = t]
        /\ uxMutexesHeld' = [uxMutexesHeld EXCEPT ![t] = uxMutexesHeld[t] + 1]
        /\ mutexCall' = [mutexCall EXCEPT ![t] = Mutex!Outside]
        /\ UNCHANGED <<mutexWaiting, uxPriority, uxBasePriority, value>>
    BY DEF Mutex!Take
  <1>3. m \in mutex.mutexes /\ xMutexHolder[m] = Nobody /\ Nobody \notin Mutex!Callers
    BY <1>1, <1>2, MutexUsed DEF HoldersKnown, Mutex!Callers
  <1> HIDE DEF m
  <1>4. Mutex!Callers' = Mutex!Callers /\ Calls' = Calls /\ Flat' = Flat
    BY DEF Mutex!Callers, Calls, Flat
  <1>5. /\ Mutex!Outside \in Calls /\ Mutex!Outside.pc = "out"
        /\ mutexCall' \in [Mutex!Callers -> Calls] /\ mutexCall'[t] = Mutex!Outside
        /\ \A u \in Mutex!Callers : u # t => mutexCall'[u] = mutexCall[u]
    <2>1. Mutex!Outside \in Calls /\ Mutex!Outside.pc = "out"
      BY DEF Calls, Mutex!Outside
    <2>2. QED
      BY <1>1, <1>2, <2>1 DEF HoldersKnown
  <1>6. /\ xMutexHolder' \in [mutex.mutexes -> Mutex!Callers \union {Nobody}]
        /\ xMutexHolder'[m] = t
        /\ \A n \in mutex.mutexes : n # m => xMutexHolder'[n] = xMutexHolder[n]
    BY <1>1, <1>2, <1>3 DEF HoldersKnown
  <1>7. /\ Mutex!Holds(t)' = Mutex!Holds(t) \union {m} /\ m \notin Mutex!Holds(t)
        /\ \A u \in Mutex!Callers : u # t => Mutex!Holds(u)' = Mutex!Holds(u)
    BY <1>3, <1>6 DEF Mutex!Holds
  <1>8. HoldersKnown'
    <2>1. IsFiniteSet(Mutex!Holds(t))
      <3>1. IsFiniteSet(mutex.mutexes) /\ Mutex!Holds(t) \in SUBSET mutex.mutexes
        BY <1>1, MutexUsed DEF HoldersKnown, Mutex!Holds
      <3>2. QED
        BY <3>1, FS_Subset
    <2>2. Cardinality(Mutex!Holds(t)') = Cardinality(Mutex!Holds(t)) + 1
      BY <1>7, <2>1, FS_AddElement
    <2>3. /\ uxMutexesHeld \in [Mutex!Callers -> Nat]
          /\ \A u \in Mutex!Callers : uxMutexesHeld[u] = Cardinality(Mutex!Holds(u))
      BY <1>1 DEF HoldersKnown
    <2>4. /\ uxMutexesHeld' \in [Mutex!Callers -> Nat]
          /\ \A u \in Mutex!Callers : uxMutexesHeld'[u] = Cardinality(Mutex!Holds(u)')
      BY <1>2, <1>7, <2>2, <2>3
    <2>5. \A u \in Mutex!Callers :
            mutexCall'[u].pc \notin {"out", "asleep"} => mutexCall'[u].mutex \in mutex.mutexes
      BY <1>1, <1>5 DEF HoldersKnown
    <2>6. QED
      BY <1>1, <1>2, <1>4, <1>5, <1>6, <2>4, <2>5 DEF HoldersKnown
  <1>9. WaitersKnown'
    <2>1. ASSUME NEW n \in mutex.mutexes, NEW u \in ToSet(mutexWaiting[n])
          PROVE  mutexCall'[u].pc = "waiting" /\ mutexCall'[u].mutex = n
      <3>1. u \in Mutex!Callers /\ mutexCall[u].pc = "waiting" /\ mutexCall[u].mutex = n
        BY <1>1, Waiters
      <3>2. QED
        BY <1>2, <1>5, <3>1
    <2>2. QED
      BY <1>1, <1>2, <2>1 DEF WaitersKnown
  <1>10. Mutex!BaseRestored'
    BY <1>1, <1>2, <1>4, <1>7 DEF Mutex!BaseRestored
  <1>11. ASSUME Flat PROVE FlatInv'
    <2>1. OneAtMost /\ UrgentFirst /\ HolderUrgent /\ TakerUrgent
      BY <1>1, <1>11 DEF FlatInv
    <2>2. \A n \in mutex.mutexes : xMutexHolder[n] # t
      BY <1>2, <2>1 DEF OneAtMost
    <2>3. OneAtMost'
      BY <1>3, <1>4, <1>5, <1>6, <2>1, <2>2 DEF OneAtMost
    <2>4. UrgentFirst'
      BY <1>2, <2>1 DEF UrgentFirst
    <2>5. HolderUrgent'
      <3>1. ASSUME NEW n \in mutex.mutexes, xMutexHolder'[n] # Nobody,
                   NEW w \in ToSet(mutexWaiting[n])
            PROVE  uxPriority[xMutexHolder'[n]] >= uxPriority[w]
        <4>1. CASE n # m
          BY <1>6, <2>1, <3>1, <4>1 DEF HolderUrgent
        <4>2. CASE n = m
          <5>1. PICK u \in Mutex!Callers :
                  /\ mutexCall[u].pc \in Trying
                  /\ uxPriority[u] >= uxPriority[w]
            BY <1>3, <2>1, <3>1, <4>2 DEF TakerUrgent
          <5>2. uxPriority[u] <= uxPriority[t]
            BY <1>2, <5>1 DEF Mutex!Runs, Mutex!Ready, Trying
          <5>3. uxPriority[u] \in Nat /\ uxPriority[t] \in Nat /\ uxPriority[w] \in Nat
            BY <1>1, <3>1, Waiters DEF HoldersKnown
          <5>4. uxPriority[t] >= uxPriority[w]
            BY <5>1, <5>2, <5>3
          <5>5. QED
            BY <1>6, <4>2, <5>4
        <4>3. QED
          BY <4>1, <4>2
      <3>2. QED
        BY <1>2, <3>1 DEF HolderUrgent
    <2>6. TakerUrgent'
      <3>1. ASSUME NEW n \in mutex.mutexes, xMutexHolder'[n] = Nobody,
                   ToSet(mutexWaiting[n]) # {}
            PROVE  \E u \in Mutex!Callers :
                     /\ mutexCall'[u].pc \in Trying /\ mutexCall'[u].mutex = n
                     /\ \A w \in ToSet(mutexWaiting[n]) : uxPriority[u] >= uxPriority[w]
        <4>1. n # m /\ xMutexHolder[n] = Nobody
          BY <1>3, <1>6, <3>1
        <4>2. PICK u \in Mutex!Callers :
                /\ mutexCall[u].pc \in Trying /\ mutexCall[u].mutex = n
                /\ \A w \in ToSet(mutexWaiting[n]) : uxPriority[u] >= uxPriority[w]
          BY <2>1, <3>1, <4>1 DEF TakerUrgent
        <4>3. mutexCall'[u] = mutexCall[u]
          BY <1>5, <4>1, <4>2 DEF m
        <4>4. QED
          BY <4>2, <4>3
      <3>2. QED
        BY <1>2, <1>4, <3>1 DEF TakerUrgent
    <2>7. QED
      BY <2>3, <2>4, <2>5, <2>6 DEF FlatInv
  <1>12. QED
    BY <1>4, <1>8, <1>9, <1>10, <1>11 DEF MutexInv

\* The tick takes a task off its list; the others keep their order.
LEMMA MutexTimePasses ==
  ASSUME MutexInv, UNCHANGED mutex, NEW t \in Mutex!Callers, Mutex!TimePasses(t)
  PROVE  MutexInv'
  <1> DEFINE m == mutexCall[t].mutex
             queue == mutexWaiting[m]
             rest == RemoveFirst(queue, t)
  <1>1. HoldersKnown /\ WaitersKnown /\ Mutex!BaseRestored /\ (Flat => FlatInv)
    BY DEF MutexInv
  <1>2. /\ mutexCall[t].pc = "waiting"
        /\ mutexCall' = [mutexCall EXCEPT ![t].pc = "expired"]
        /\ mutexWaiting' = [mutexWaiting EXCEPT ![m] = rest]
        /\ UNCHANGED <<xMutexHolder, uxMutexesHeld, uxPriority, uxBasePriority, value>>
    BY MutexLists DEF Mutex!TimePasses
  <1>3. m \in mutex.mutexes
    BY <1>1, <1>2 DEF HoldersKnown
  <1>4. Mutex!Callers' = Mutex!Callers /\ Calls' = Calls /\ Flat' = Flat
    BY DEF Mutex!Callers, Calls, Flat
  <1>5. /\ mutexCall' \in [Mutex!Callers -> Calls] /\ mutexCall'[t].pc = "expired"
        /\ mutexCall'[t].mutex = m
        /\ \A u \in Mutex!Callers : u # t => mutexCall'[u] = mutexCall[u]
    BY <1>1, <1>2 DEF HoldersKnown, Calls
  <1>6. queue \in Seq(Mutex!Callers) /\ IsInjective(queue)
    BY <1>1, <1>3, Waiters
  <1> HIDE DEF m, queue
  <1>7. /\ rest \in Seq(Mutex!Callers) /\ IsInjective(rest) /\ ToSet(rest) = ToSet(queue) \ {t}
        /\ \A i, j \in 1 .. Len(rest) : i < j =>
             \E k, l \in 1 .. Len(queue) : k < l /\ rest[i] = queue[k] /\ rest[j] = queue[l]
    BY <1>6, RemoveSound, RemoveInOrder
  <1> HIDE DEF rest
  <1>8. /\ mutexWaiting' \in [mutex.mutexes -> Seq(Mutex!Callers)] /\ mutexWaiting'[m] = rest
        /\ \A n \in mutex.mutexes : n # m => mutexWaiting'[n] = mutexWaiting[n]
    BY <1>1, <1>2, <1>3, <1>7 DEF HoldersKnown
  <1>9. \A n \in mutex.mutexes : ToSet(mutexWaiting'[n]) = ToSet(mutexWaiting[n]) \ {t}
    <2>1. ASSUME NEW n \in mutex.mutexes, n # m PROVE t \notin ToSet(mutexWaiting[n])
      BY <1>1, <2>1, Waiters DEF m
    <2>2. QED
      BY <1>7, <1>8, <2>1 DEF queue
  <1>10. HoldersKnown'
    <2>1. \A u : Mutex!Holds(u)' = Mutex!Holds(u)
      BY <1>2 DEF Mutex!Holds
    <2>2. \A u \in Mutex!Callers :
            mutexCall'[u].pc \notin {"out", "asleep"} => mutexCall'[u].mutex \in mutex.mutexes
      BY <1>1, <1>3, <1>5 DEF HoldersKnown
    <2>3. QED
      BY <1>1, <1>2, <1>4, <1>5, <1>8, <2>1, <2>2 DEF HoldersKnown
  <1>11. WaitersKnown'
    <2>1. ASSUME NEW n \in mutex.mutexes PROVE IsInjective(mutexWaiting'[n])
      BY <1>1, <1>7, <1>8 DEF WaitersKnown
    <2>2. ASSUME NEW n \in mutex.mutexes, NEW u \in ToSet(mutexWaiting'[n])
          PROVE  mutexCall'[u].pc = "waiting" /\ mutexCall'[u].mutex = n
      <3>1. u \in ToSet(mutexWaiting[n]) /\ u # t
        BY <1>9, <2>2
      <3>2. u \in Mutex!Callers /\ mutexCall[u].pc = "waiting" /\ mutexCall[u].mutex = n
        BY <1>1, <3>1, Waiters
      <3>3. QED
        BY <1>5, <3>1, <3>2
    <2>3. QED
      BY <2>1, <2>2 DEF WaitersKnown
  <1>12. Mutex!BaseRestored'
    BY <1>1, <1>2, <1>4 DEF Mutex!BaseRestored, Mutex!Holds
  <1>13. ASSUME Flat PROVE FlatInv'
    <2>1. OneAtMost /\ UrgentFirst /\ HolderUrgent /\ TakerUrgent
      BY <1>1, <1>13 DEF FlatInv
    <2>2. OneAtMost'
      BY <1>2, <1>4, <1>5, <2>1 DEF OneAtMost
    <2>3. UrgentFirst'
      <3>1. ASSUME NEW n \in mutex.mutexes, NEW i \in 1 .. Len(mutexWaiting'[n]),
                   NEW j \in 1 .. Len(mutexWaiting'[n]), i < j
            PROVE  uxPriority[mutexWaiting'[n][i]] >= uxPriority[mutexWaiting'[n][j]]
        <4>1. CASE n # m
          BY <1>8, <2>1, <3>1, <4>1 DEF UrgentFirst
        <4>2. CASE n = m
          <5>1. PICK k, l \in 1 .. Len(queue) :
                  k < l /\ rest[i] = queue[k] /\ rest[j] = queue[l]
            BY <1>7, <1>8, <3>1, <4>2
          <5>2. uxPriority[queue[k]] >= uxPriority[queue[l]]
            BY <1>3, <2>1, <5>1 DEF UrgentFirst, queue
          <5>3. QED
            BY <1>8, <4>2, <5>1, <5>2
        <4>3. QED
          BY <4>1, <4>2
      <3>2. QED
        BY <1>2, <2>1, <3>1 DEF UrgentFirst
    <2>4. HolderUrgent'
      BY <1>2, <1>9, <2>1 DEF HolderUrgent
    <2>5. TakerUrgent'
      <3>1. ASSUME NEW n \in mutex.mutexes, xMutexHolder[n] = Nobody,
                   ToSet(mutexWaiting'[n]) # {}
            PROVE  \E u \in Mutex!Callers :
                     /\ mutexCall'[u].pc \in Trying /\ mutexCall'[u].mutex = n
                     /\ \A w \in ToSet(mutexWaiting'[n]) : uxPriority[u] >= uxPriority[w]
        <4>1. PICK u \in Mutex!Callers :
                /\ mutexCall[u].pc \in Trying /\ mutexCall[u].mutex = n
                /\ \A w \in ToSet(mutexWaiting[n]) : uxPriority[u] >= uxPriority[w]
          BY <1>9, <2>1, <3>1 DEF TakerUrgent
        <4>2. mutexCall'[u] = mutexCall[u]
          BY <1>2, <1>5, <4>1 DEF Trying
        <4>3. QED
          BY <1>9, <4>1, <4>2
      <3>2. QED
        BY <1>2, <1>4, <3>1 DEF TakerUrgent
    <2>6. QED
      BY <2>2, <2>3, <2>4, <2>5 DEF FlatInv
  <1>14. QED
    BY <1>4, <1>10, <1>11, <1>12, <1>13 DEF MutexInv

\* A list with t on it too, still in the order of val if it was.
Lengthened(queue, t, longer, val, S) ==
    /\ longer \in Seq(S) /\ IsInjective(longer) /\ ToSet(longer) = ToSet(queue) \union {t}
    /\ (\A i, j \in 1 .. Len(queue) : i < j => val[queue[i]] >= val[queue[j]]) =>
         \A i, j \in 1 .. Len(longer) : i < j => val[longer[i]] >= val[longer[j]]

\* Where a task goes on a list that it is not on: behind those that are as urgent.
LEMMA InsertedByValue ==
  ASSUME NEW S, NEW queue \in Seq(S), NEW t \in S, NEW val \in [S -> Nat], val = value',
         IsInjective(queue), t \notin ToSet(queue)
  PROVE  Lengthened(queue, t, Mutex!InsertByValue(queue, t), val, S)
  <1> DEFINE behind == {i \in DOMAIN queue : val[queue[i]] < val[t]}
             place  == IF behind = {} THEN Len(queue) + 1
                       ELSE CHOOSE i \in behind : \A j \in behind : i <= j
             longer    == InsertAt(queue, place, t)
  <1>1. Mutex!InsertByValue(queue, t) = longer
    BY MutexLists DEF Mutex!InsertByValue
  <1>2. Len(queue) \in Nat /\ DOMAIN queue = 1 .. Len(queue)
        /\ \A i \in 1 .. Len(queue) : queue[i] \in S /\ val[queue[i]] \in Nat
    BY Indices, LenProperties
  <1>3. /\ place \in 1 .. Len(queue) + 1
        /\ \A i \in 1 .. Len(queue) : i < place => val[queue[i]] >= val[t]
        /\ place <= Len(queue) => val[queue[place]] < val[t]
    <2>1. behind \in SUBSET Nat /\ behind \subseteq 1 .. Len(queue) /\ val[t] \in Nat
          /\ \A i \in 1 .. Len(queue) : i \in behind <=> val[queue[i]] < val[t]
      BY <1>2
    <2>2. CASE behind = {}
      <3>1. place = Len(queue) + 1
        BY <2>2
      <3> HIDE DEF behind, place
      <3>2. QED
        BY <1>2, <2>1, <2>2, <3>1
    <2>3. CASE behind # {}
      <3>1. place \in behind /\ \A j \in behind : place <= j
        BY <2>1, <2>3, Least
      <3> HIDE DEF behind, place
      <3>2. QED
        BY <1>2, <2>1, <3>1
    <2>4. QED
      BY <2>2, <2>3
  <1> HIDE DEF behind, place
  <1>4. Gains(S, longer, queue, t, place)
    BY <1>3, Inserted
  <1> HIDE DEF longer
  <1>5. /\ longer \in Seq(S) /\ IsInjective(longer) /\ ToSet(longer) = ToSet(queue) \union {t}
    <2>1. longer \in Seq(S)
      BY <1>4 DEF Gains
    <2>2. place \in 1 .. Len(queue) + 1
      BY <1>3
    <2>3. /\ ToSet(longer) = ToSet(queue) \union {t}
          /\ IsInjective(queue) /\ t \notin ToSet(queue) => IsInjective(longer)
      BY <1>4, <2>1, <2>2, ListWith
    <2>4. QED
      BY <2>1, <2>3
  <1>6. /\ Len(longer) = Len(queue) + 1
        /\ \A i \in 1 .. Len(longer) :
             \/ i \in 1 .. Len(queue) /\ i < place /\ longer[i] = queue[i]
             \/ i = place /\ longer[i] = t
             \/ i - 1 \in 1 .. Len(queue) /\ i - 1 >= place /\ longer[i] = queue[i - 1]
    <2>1. /\ Len(longer) = Len(queue) + 1
          /\ \A i \in 1 .. Len(queue) + 1 :
               longer[i] = IF i < place THEN queue[i] ELSE IF i = place THEN t ELSE queue[i - 1]
      BY <1>4 DEF Gains
    <2>2. QED
      BY <1>2, <1>3, <2>1
  <1> HIDE DEF behind, place, longer
  <1>7. ASSUME \A i, j \in 1 .. Len(queue) : i < j => val[queue[i]] >= val[queue[j]],
               NEW i \in 1 .. Len(longer), NEW j \in 1 .. Len(longer), i < j
        PROVE  val[longer[i]] >= val[longer[j]]
    <2>1. i \in Int /\ j \in Int /\ place \in Int /\ val[t] \in Nat
      BY <1>2, <1>3, <1>6
    <2>2. ASSUME NEW k \in 1 .. Len(queue), k >= place PROVE val[t] >= val[queue[k]]
      <3>1. place \in 1 .. Len(queue) /\ val[queue[place]] < val[t]
        BY <1>2, <1>3, <2>2
      <3>2. val[queue[place]] >= val[queue[k]]
        <4>1. CASE k = place
          BY <1>2, <3>1, <4>1
        <4>2. CASE place < k
          BY <1>7, <3>1, <4>2
        <4>3. QED
          BY <2>1, <2>2, <4>1, <4>2
      <3>3. QED
        BY <1>2, <2>1, <3>1, <3>2
    <2>3. CASE i \in 1 .. Len(queue) /\ i < place /\ longer[i] = queue[i]
      <3>1. CASE j \in 1 .. Len(queue) /\ j < place /\ longer[j] = queue[j]
        BY <1>7, <2>3, <3>1
      <3>2. CASE j = place /\ longer[j] = t
        BY <1>3, <2>3, <3>2
      <3>3. CASE j - 1 \in 1 .. Len(queue) /\ j - 1 >= place /\ longer[j] = queue[j - 1]
        <4>1. i < j - 1
          BY <2>1, <2>3, <3>3
        <4>2. QED
          BY <1>7, <2>3, <3>3, <4>1
      <3>4. QED
        BY <1>6, <3>1, <3>2, <3>3
    <2>4. CASE i = place /\ longer[i] = t
      <3>1. j - 1 \in 1 .. Len(queue) /\ j - 1 >= place /\ longer[j] = queue[j - 1]
        BY <1>6, <1>7, <2>1, <2>4
      <3>2. QED
        BY <2>2, <2>4, <3>1
    <2>5. CASE i - 1 \in 1 .. Len(queue) /\ i - 1 >= place /\ longer[i] = queue[i - 1]
      <3>1. j - 1 \in 1 .. Len(queue) /\ longer[j] = queue[j - 1]
        BY <1>6, <1>7, <2>1, <2>5
      <3>2. i - 1 < j - 1
        BY <1>7, <2>1
      <3>3. QED
        BY <1>7, <2>5, <3>1, <3>2
    <2>6. QED
      BY <1>6, <2>3, <2>4, <2>5
  <1>8. Lengthened(queue, t, longer, val, S)
    BY <1>5, <1>7 DEF Lengthened
  <1>9. QED
    BY <1>1, <1>8

\* A task that waits makes the holder as urgent as it is.
LEMMA MutexBlocks ==
  ASSUME MutexInv, UNCHANGED mutex, NEW t \in Mutex!Callers, Mutex!Block(t),
         xMutexHolder[mutexCall[t].mutex] # Nobody
  PROVE  MutexInv'
  <1> DEFINE m == mutexCall[t].mutex
             h == xMutexHolder[m]
             queue == mutexWaiting[m]
             raised == IF uxPriority[h] < uxPriority[t] THEN {h} ELSE {}
  <1>1. HoldersKnown /\ WaitersKnown /\ Mutex!BaseRestored /\ (Flat => FlatInv)
    BY DEF MutexInv
  <1>2. /\ mutexCall[t].pc = "block"
        /\ uxPriority' = [u \in Mutex!Callers |->
                            IF u \in raised THEN uxPriority[t] ELSE uxPriority[u]]
        /\ value' = [u \in Mutex!Callers |->
                            IF u \in raised THEN uxPriority[t] ELSE value[u]]
        /\ mutexWaiting' = [mutexWaiting EXCEPT ![m] = Mutex!InsertByValue(queue, t)]
        /\ mutexCall' = [mutexCall EXCEPT ![t].pc = "waiting",
                                 ![t].inherited = Mutex!Inherits(h, t)]
        /\ UNCHANGED <<xMutexHolder, uxMutexesHeld, uxBasePriority>>
    BY DEF Mutex!Block, Mutex!xTaskPriorityInherit
  <1>3. /\ m \in mutex.mutexes /\ h \in Mutex!Callers /\ h # Nobody
        /\ h = xMutexHolder[m] /\ queue = mutexWaiting[m]
    BY <1>1, <1>2 DEF HoldersKnown
  <1>4. Mutex!Callers' = Mutex!Callers /\ Calls' = Calls /\ Flat' = Flat
    BY DEF Mutex!Callers, Calls, Flat
  <1>5. /\ mutexCall' \in [Mutex!Callers -> Calls] /\ mutexCall'[t].pc = "waiting"
        /\ mutexCall'[t].mutex = m
        /\ \A u \in Mutex!Callers : u # t => mutexCall'[u] = mutexCall[u]
    <2>1. Mutex!Inherits(h, t) \in BOOLEAN
      BY DEF Mutex!Inherits
    <2>2. mutexCall \in [Mutex!Callers -> Calls]
      BY <1>1 DEF HoldersKnown
    <2>3. PICK yes \in BOOLEAN : yes = Mutex!Inherits(h, t)
      BY <2>1
    <2>4. QED
      BY <1>2, <2>2, <2>3, Zenon DEF Calls
  <1>6. /\ queue \in Seq(Mutex!Callers) /\ IsInjective(queue) /\ t \notin ToSet(queue)
        /\ Len(queue) \in Nat /\ \A i \in 1 .. Len(queue) : queue[i] \in ToSet(queue)
        /\ ToSet(queue) \subseteq Mutex!Callers
    BY <1>1, <1>2, <1>3, Waiters
  <1>7. PICK val \in [Mutex!Callers -> Nat] :
          /\ val = value' /\ (value = uxPriority => val = uxPriority')
    <2>1. value' \in [Mutex!Callers -> Nat]
      BY <1>1, <1>2 DEF HoldersKnown
    <2>2. value = uxPriority => value' = uxPriority'
      BY <1>2
    <2>3. QED
      BY <2>1, <2>2
  <1>8. /\ uxPriority' \in [Mutex!Callers -> Nat]
        /\ \A u \in Mutex!Callers : uxPriority'[u] >= uxPriority[u]
        /\ \A u \in Mutex!Callers : u # h => uxPriority'[u] = uxPriority[u]
        /\ uxPriority'[h] >= uxPriority[t]
    <2>1. uxPriority \in [Mutex!Callers -> Nat]
      BY <1>1 DEF HoldersKnown
    <2>2. \A u \in Mutex!Callers :
            u \in raised <=> u = h /\ uxPriority[h] < uxPriority[t]
      OBVIOUS
    <2> HIDE DEF m, h, queue, raised
    <2>3. uxPriority' \in [Mutex!Callers -> Nat]
      BY <1>2, <2>1
    <2>4. \A u \in Mutex!Callers :
            uxPriority'[u] = IF u \in raised THEN uxPriority[t] ELSE uxPriority[u]
      BY <1>2
    <2>5. QED
      BY <1>3, <2>1, <2>2, <2>3, <2>4
  <1> HIDE DEF m, h, queue, raised
  <1>9. PICK longer \in Seq(Mutex!Callers) :
          /\ longer = Mutex!InsertByValue(queue, t)
          /\ IsInjective(longer) /\ ToSet(longer) = ToSet(queue) \union {t}
          /\ (\A i, j \in 1 .. Len(queue) : i < j => val[queue[i]] >= val[queue[j]]) =>
               \A i, j \in 1 .. Len(longer) : i < j => val[longer[i]] >= val[longer[j]]
    <2>1. val = value'
      BY <1>7
    <2>2. queue \in Seq(Mutex!Callers) /\ IsInjective(queue) /\ t \notin ToSet(queue)
      BY <1>6
    <2>3. Lengthened(queue, t, Mutex!InsertByValue(queue, t), val, Mutex!Callers)
      BY <2>1, <2>2, InsertedByValue
    <2>4. PICK longer : /\ longer = Mutex!InsertByValue(queue, t)
                        /\ Lengthened(queue, t, longer, val, Mutex!Callers)
      BY <2>3
    <2>5. QED
      BY <2>4 DEF Lengthened
  <1>10. /\ mutexWaiting' \in [mutex.mutexes -> Seq(Mutex!Callers)] /\ mutexWaiting'[m] = longer
         /\ \A n \in mutex.mutexes : n # m => mutexWaiting'[n] = mutexWaiting[n]
    BY <1>1, <1>2, <1>3, <1>9 DEF HoldersKnown
  <1>11. \A n \in mutex.mutexes : \A w \in ToSet(mutexWaiting'[n]) :
           \/ w \in ToSet(mutexWaiting[n]) /\ w # t
           \/ n = m /\ w = t
    <2>1. ASSUME NEW n \in mutex.mutexes, n # m, NEW w \in ToSet(mutexWaiting'[n])
          PROVE  w \in ToSet(mutexWaiting[n]) /\ w # t
      <3>1. w \in ToSet(mutexWaiting[n])
        BY <1>10, <2>1
      <3>2. mutexCall[w].pc = "waiting"
        BY <1>1, <3>1, Waiters
      <3>3. QED
        BY <1>2, <3>1, <3>2
    <2>2. ASSUME NEW w \in ToSet(mutexWaiting'[m])
          PROVE  (w \in ToSet(mutexWaiting[m]) /\ w # t) \/ w = t
      BY <1>3, <1>6, <1>9, <1>10
    <2>3. QED
      BY <2>1, <2>2
  <1>12. HoldersKnown'
    <2>1. \A u : Mutex!Holds(u)' = Mutex!Holds(u)
      BY <1>2 DEF Mutex!Holds
    <2>2. \A u \in Mutex!Callers :
            mutexCall'[u].pc \notin {"out", "asleep"} => mutexCall'[u].mutex \in mutex.mutexes
      BY <1>1, <1>3, <1>5 DEF HoldersKnown
    <2>3. value' \in [Mutex!Callers -> Nat]
      BY <1>7
    <2>4. QED
      BY <1>1, <1>2, <1>4, <1>5, <1>8, <1>10, <2>1, <2>2, <2>3 DEF HoldersKnown
  <1>13. WaitersKnown'
    <2>1. ASSUME NEW n \in mutex.mutexes PROVE IsInjective(mutexWaiting'[n])
      BY <1>1, <1>9, <1>10 DEF WaitersKnown
    <2>2. ASSUME NEW n \in mutex.mutexes, NEW u \in ToSet(mutexWaiting'[n])
          PROVE  mutexCall'[u].pc = "waiting" /\ mutexCall'[u].mutex = n
      <3>1. CASE n = m /\ u = t
        BY <1>5, <3>1
      <3>2. CASE u \in ToSet(mutexWaiting[n]) /\ u # t
        <4>1. u \in Mutex!Callers /\ mutexCall[u].pc = "waiting" /\ mutexCall[u].mutex = n
          BY <1>1, <3>2, Waiters
        <4>2. QED
          BY <1>5, <3>2, <4>1
      <3>3. QED
        BY <1>11, <2>2, <3>1, <3>2
    <2>3. QED
      BY <2>1, <2>2 DEF WaitersKnown
  <1>14. Mutex!BaseRestored'
    <2>1. ASSUME NEW u \in Mutex!Callers
          PROVE  /\ uxPriority'[u] >= uxBasePriority[u]
                 /\ Mutex!Holds(u)' = {} => uxPriority'[u] = uxBasePriority[u]
      <3>1. /\ uxPriority[u] >= uxBasePriority[u]
            /\ Mutex!Holds(u) = {} => uxPriority[u] = uxBasePriority[u]
        BY <1>1 DEF Mutex!BaseRestored
      <3>2. Mutex!Holds(u)' = Mutex!Holds(u) /\ Mutex!Holds(h) # {}
        BY <1>2, <1>3 DEF Mutex!Holds
      <3>3. uxPriority[u] \in Nat /\ uxPriority'[u] \in Nat /\ uxBasePriority[u] \in Nat
        BY <1>1, <1>8 DEF HoldersKnown
      <3>4. QED
        BY <1>8, <3>1, <3>2, <3>3
    <2>2. QED
      BY <1>2, <1>4, <2>1 DEF Mutex!BaseRestored
  <1>15. ASSUME Flat PROVE FlatInv'
    <2>1. OneAtMost /\ UrgentFirst /\ HolderUrgent /\ TakerUrgent
      BY <1>1, <1>15 DEF FlatInv
    <2>2. OneAtMost'
      <3>1. \A u \in Mutex!Callers :
              mutexCall'[u].pc \notin {"out", "asleep"} =>
                mutexCall[u].pc \notin {"out", "asleep"}
        BY <1>2, <1>5
      <3>2. xMutexHolder' = xMutexHolder /\ mutex' = mutex
        BY <1>2
      <3>3. \A u \in Mutex!Callers, n \in mutex.mutexes, o \in mutex.mutexes :
              xMutexHolder'[n] = u /\ xMutexHolder'[o] = u => n = o
        BY <2>1, <3>2 DEF OneAtMost
      <3>4. \A u \in Mutex!Callers, n \in mutex.mutexes :
              mutexCall'[u].pc \notin {"out", "asleep"} => xMutexHolder'[n] # u
        BY <2>1, <3>1, <3>2 DEF OneAtMost
      <3>5. QED
        BY <1>4, <3>2, <3>3, <3>4 DEF OneAtMost
    <2>3. t # h
      BY <1>2, <1>3, <2>1 DEF OneAtMost
    <2>4. ASSUME NEW n \in mutex.mutexes, NEW w \in ToSet(mutexWaiting[n])
          PROVE  w \in Mutex!Callers /\ w # h /\ uxPriority'[w] = uxPriority[w]
      <3>1. w \in Mutex!Callers /\ mutexCall[w].pc = "waiting"
        BY <1>1, <2>4, Waiters
      <3>2. w # h
        BY <1>3, <2>1, <3>1 DEF OneAtMost
      <3>3. QED
        BY <1>8, <3>1, <3>2
    <2>5. UrgentFirst'
      <3>1. val = uxPriority'
        BY <1>7, <2>1 DEF UrgentFirst
      <3>2. ASSUME NEW n \in mutex.mutexes, NEW i \in 1 .. Len(mutexWaiting[n]),
                   NEW j \in 1 .. Len(mutexWaiting[n]), i < j
            PROVE  val[mutexWaiting[n][i]] >= val[mutexWaiting[n][j]]
        <4>1. mutexWaiting[n][i] \in ToSet(mutexWaiting[n])
              /\ mutexWaiting[n][j] \in ToSet(mutexWaiting[n])
          BY <1>1, <3>2, Waiters
        <4>2. uxPriority[mutexWaiting[n][i]] >= uxPriority[mutexWaiting[n][j]]
          BY <2>1, <3>2 DEF UrgentFirst
        <4>3. QED
          BY <2>4, <3>1, <4>1, <4>2
      <3>3. \A i, j \in 1 .. Len(queue) : i < j => val[queue[i]] >= val[queue[j]]
        BY <1>3, <3>2
      <3>4. ASSUME NEW n \in mutex.mutexes, NEW i \in 1 .. Len(mutexWaiting'[n]),
                   NEW j \in 1 .. Len(mutexWaiting'[n]), i < j
            PROVE  uxPriority'[mutexWaiting'[n][i]] >= uxPriority'[mutexWaiting'[n][j]]
        <4>1. CASE n # m
          BY <1>10, <3>1, <3>2, <3>4, <4>1
        <4>2. CASE n = m
          BY <1>9, <1>10, <3>1, <3>3, <3>4, <4>2
        <4>3. QED
          BY <4>1, <4>2
      <3>5. value' = uxPriority'
        BY <1>7, <3>1
      <3>6. QED
        BY <3>4, <3>5 DEF UrgentFirst
    <2>6. HolderUrgent'
      <3>1. ASSUME NEW n \in mutex.mutexes, xMutexHolder[n] # Nobody,
                   NEW w \in ToSet(mutexWaiting'[n])
            PROVE  uxPriority'[xMutexHolder[n]] >= uxPriority'[w]
        <4>1. PICK g \in Mutex!Callers : g = xMutexHolder[n]
          BY <1>1, <3>1 DEF HoldersKnown
        <4>2. /\ uxPriority'[g] \in Nat /\ uxPriority[g] \in Nat
              /\ uxPriority'[g] >= uxPriority[g]
          BY <1>1, <1>8, <4>1 DEF HoldersKnown
        <4>3. CASE w \in ToSet(mutexWaiting[n])
          <5>1. uxPriority[g] >= uxPriority[w] /\ uxPriority[w] \in Nat
            BY <1>1, <2>1, <3>1, <4>1, <4>3, Waiters DEF HolderUrgent
          <5>2. uxPriority'[w] = uxPriority[w]
            BY <2>4, <4>3
          <5>3. QED
            BY <4>1, <4>2, <5>1, <5>2
        <4>4. CASE n = m /\ w = t
          <5>1. g = h /\ uxPriority'[t] = uxPriority[t]
            BY <1>3, <1>8, <2>3, <4>1, <4>4
          <5>2. QED
            BY <1>8, <4>1, <4>4, <5>1
        <4>5. QED
          BY <1>11, <3>1, <4>3, <4>4
      <3>2. QED
        BY <1>2, <3>1 DEF HolderUrgent
    <2>7. TakerUrgent'
      <3>1. ASSUME NEW n \in mutex.mutexes, xMutexHolder[n] = Nobody,
                   ToSet(mutexWaiting'[n]) # {}
            PROVE  \E u \in Mutex!Callers :
                     /\ mutexCall'[u].pc \in Trying /\ mutexCall'[u].mutex = n
                     /\ \A w \in ToSet(mutexWaiting'[n]) : uxPriority'[u] >= uxPriority'[w]
        <4>1. n # m
          BY <1>3, <3>1
        <4>2. PICK u \in Mutex!Callers :
                /\ mutexCall[u].pc \in Trying /\ mutexCall[u].mutex = n
                /\ \A w \in ToSet(mutexWaiting[n]) : uxPriority[u] >= uxPriority[w]
          BY <1>10, <2>1, <3>1, <4>1 DEF TakerUrgent
        <4>3. mutexCall'[u] = mutexCall[u]
          BY <1>5, <4>1, <4>2 DEF m
        <4>4. ASSUME NEW w \in ToSet(mutexWaiting'[n])
              PROVE  uxPriority'[u] >= uxPriority'[w]
          <5>1. w \in ToSet(mutexWaiting[n])
            BY <1>10, <3>1, <4>1
          <5>2. uxPriority[u] >= uxPriority[w] /\ uxPriority[w] \in Nat /\ uxPriority[u] \in Nat
            BY <1>1, <4>2, <5>1, Waiters DEF HoldersKnown
          <5>3. uxPriority'[w] = uxPriority[w]
            BY <2>4, <5>1
          <5>4. uxPriority'[u] >= uxPriority[u] /\ uxPriority'[u] \in Nat
            BY <1>8
          <5>5. QED
            BY <5>2, <5>3, <5>4
        <4>5. QED
          BY <4>2, <4>3, <4>4
      <3>2. QED
        BY <1>2, <1>4, <3>1 DEF TakerUrgent
    <2>8. QED
      BY <2>2, <2>5, <2>6, <2>7 DEF FlatInv
  <1>16. QED
    BY <1>4, <1>12, <1>13, <1>14, <1>15 DEF MutexInv

\* One who gives up takes from the holder what it no longer inherits, and that is as
\* urgent as the first that waits.
LEMMA MutexDisinherits ==
  ASSUME MutexInv, UNCHANGED mutex, NEW t \in Mutex!Callers, Mutex!Disinherit(t)
  PROVE  MutexInv'
  <1> DEFINE m == mutexCall[t].mutex
             h == xMutexHolder[m]
             highest == IF mutexWaiting[m] = << >> THEN 0 ELSE value[Head(mutexWaiting[m])]
             target == IF uxBasePriority[h] < highest THEN highest ELSE uxBasePriority[h]
  <1>1. HoldersKnown /\ WaitersKnown /\ Mutex!BaseRestored /\ (Flat => FlatInv)
    BY DEF MutexInv
  <1>2. /\ mutexCall[t].pc = "failed"
        /\ mutexCall' = [mutexCall EXCEPT ![t] = Mutex!Outside]
        /\ UNCHANGED <<xMutexHolder, mutexWaiting, uxMutexesHeld, uxBasePriority>>
        /\ \/ /\ h # Nobody /\ uxMutexesHeld[h] = 1
              /\ uxPriority' = [uxPriority EXCEPT ![h] = target]
              /\ value' = [value EXCEPT ![h] = IF uxPriority[h] # target THEN target
                                               ELSE value[h]]
           \/ UNCHANGED <<uxPriority, value>>
    BY DEF Mutex!Disinherit, Mutex!DisinheritTo, Mutex!prvGetHighestPriorityOfWaitToReceiveList
  <1>3. m \in mutex.mutexes /\ h = xMutexHolder[m]
        /\ h \in Mutex!Callers \union {Nobody}
    BY <1>1, <1>2 DEF HoldersKnown
  <1>4. Mutex!Outside \in Calls /\ Mutex!Outside.pc = "out"
    BY DEF Calls, Mutex!Outside
  <1>5. CASE UNCHANGED <<uxPriority, value>>
    <2> HIDE DEF m, h, target
    <2>1. mutexCall[t].pc # "waiting" /\ mutexCall[t].pc \notin Trying
      BY <1>2 DEF Trying
    <2>2. UNCHANGED <<xMutexHolder, mutexWaiting, uxMutexesHeld, uxPriority,
                      uxBasePriority, value>>
      BY <1>2, <1>5
    <2>3. mutexCall' = [mutexCall EXCEPT ![t] = Mutex!Outside]
      BY <1>2
    <2>4. QED
      BY <1>4, <2>1, <2>2, <2>3, CallMoves
  <1>6. CASE /\ h # Nobody /\ uxMutexesHeld[h] = 1
             /\ uxPriority' = [uxPriority EXCEPT ![h] = target]
             /\ value' = [value EXCEPT ![h] = IF uxPriority[h] # target THEN target
                                              ELSE value[h]]
    <2>1. Mutex!Callers' = Mutex!Callers /\ Calls' = Calls /\ Flat' = Flat
      BY DEF Mutex!Callers, Calls, Flat
    <2>2. h \in Mutex!Callers
      BY <1>3, <1>6
    <2>3. /\ mutexCall' \in [Mutex!Callers -> Calls] /\ mutexCall'[t].pc = "out"
          /\ \A u \in Mutex!Callers : u # t => mutexCall'[u] = mutexCall[u]
      BY <1>1, <1>2, <1>4 DEF HoldersKnown
    <2>4. highest \in Nat
      <3>1. mutexWaiting[m] \in Seq(Mutex!Callers) /\ value \in [Mutex!Callers -> Nat]
        BY <1>1, <1>3 DEF HoldersKnown
      <3>2. mutexWaiting[m] # << >> => Head(mutexWaiting[m]) \in Mutex!Callers
        BY <3>1
      <3>3. QED
        BY <3>1, <3>2
    <2>5. PICK goal \in Nat :
            /\ goal = target /\ goal >= uxBasePriority[h] /\ goal >= highest
      <3>1. uxBasePriority[h] \in Nat
        BY <1>1, <2>2 DEF HoldersKnown
      <3> HIDE DEF highest
      <3>2. QED
        BY <2>4, <3>1
    <2> HIDE DEF m, h, target
    <2>6. /\ uxPriority' \in [Mutex!Callers -> Nat] /\ value' \in [Mutex!Callers -> Nat]
          /\ uxPriority'[h] = goal
          /\ \A u \in Mutex!Callers : u # h => uxPriority'[u] = uxPriority[u]
      BY <1>1, <1>6, <2>2, <2>5 DEF HoldersKnown
    <2>7. HoldersKnown'
      <3>1. \A u : Mutex!Holds(u)' = Mutex!Holds(u)
        BY <1>2 DEF Mutex!Holds
      <3>2. \A u \in Mutex!Callers :
              mutexCall'[u].pc \notin {"out", "asleep"} => mutexCall'[u].mutex \in mutex.mutexes
        BY <1>1, <2>3 DEF HoldersKnown
      <3>3. UNCHANGED <<xMutexHolder, mutexWaiting, uxMutexesHeld, uxBasePriority>>
        BY <1>2
      <3>4. QED
        BY <1>1, <2>1, <2>3, <2>6, <3>1, <3>2, <3>3 DEF HoldersKnown
    <2>8. WaitersKnown'
      <3>1. ASSUME NEW n \in mutex.mutexes, NEW u \in ToSet(mutexWaiting[n])
            PROVE  mutexCall'[u].pc = "waiting" /\ mutexCall'[u].mutex = n
        <4>1. u \in Mutex!Callers /\ mutexCall[u].pc = "waiting" /\ mutexCall[u].mutex = n
          BY <1>1, Waiters
        <4>2. QED
          BY <1>2, <2>3, <4>1
      <3>2. mutexWaiting' = mutexWaiting
        BY <1>2
      <3>3. QED
        BY <1>1, <3>1, <3>2 DEF WaitersKnown
    <2>9. Mutex!BaseRestored'
      <3>1. ASSUME NEW u \in Mutex!Callers
            PROVE  /\ uxPriority'[u] >= uxBasePriority[u]
                   /\ Mutex!Holds(u)' = {} => uxPriority'[u] = uxBasePriority[u]
        <4>1. CASE u = h
          <5>1. m \in Mutex!Holds(u)'
            BY <1>2, <1>3, <4>1 DEF Mutex!Holds
          <5>2. QED
            BY <2>5, <2>6, <4>1, <5>1
        <4>2. CASE u # h
          <5>1. Mutex!Holds(u)' = Mutex!Holds(u)
            BY <1>2 DEF Mutex!Holds
          <5>2. QED
            BY <1>1, <2>6, <4>2, <5>1 DEF Mutex!BaseRestored
        <4>3. QED
          BY <4>1, <4>2
      <3>2. uxBasePriority' = uxBasePriority
        BY <1>2
      <3>3. QED
        BY <2>1, <3>1, <3>2 DEF Mutex!BaseRestored
    <2>10. ASSUME Flat PROVE FlatInv'
      <3>1. OneAtMost /\ UrgentFirst /\ HolderUrgent /\ TakerUrgent
        BY <1>1, <2>10 DEF FlatInv
      <3>2. /\ xMutexHolder' = xMutexHolder /\ mutexWaiting' = mutexWaiting
            /\ mutex' = mutex
        BY <1>2
      <3>3. OneAtMost'
        <4>1. \A u \in Mutex!Callers :
                mutexCall'[u].pc \notin {"out", "asleep"} =>
                  mutexCall[u].pc \notin {"out", "asleep"}
          BY <2>3
        <4>2. \A u \in Mutex!Callers, n \in mutex.mutexes, o \in mutex.mutexes :
                xMutexHolder'[n] = u /\ xMutexHolder'[o] = u => n = o
          BY <3>1, <3>2 DEF OneAtMost
        <4>3. \A u \in Mutex!Callers, n \in mutex.mutexes :
                mutexCall'[u].pc \notin {"out", "asleep"} => xMutexHolder'[n] # u
          BY <3>1, <3>2, <4>1 DEF OneAtMost
        <4>4. QED
          BY <2>1, <3>2, <4>2, <4>3 DEF OneAtMost
      <3>4. \A u \in Mutex!Callers : mutexCall[u].pc \notin {"out", "asleep"} => u # h
        BY <1>3, <3>1 DEF OneAtMost
      <3>5. ASSUME NEW n \in mutex.mutexes, NEW w \in ToSet(mutexWaiting[n])
            PROVE  w \in Mutex!Callers /\ w # h /\ uxPriority'[w] = uxPriority[w]
                   /\ uxPriority[w] \in Nat
        <4>1. w \in Mutex!Callers /\ mutexCall[w].pc = "waiting" /\ uxPriority[w] \in Nat
          BY <1>1, Waiters
        <4>2. QED
          BY <2>6, <3>4, <4>1
      <3>6. UrgentFirst'
        <4>1. value' = uxPriority'
          <5>1. value = uxPriority /\ uxPriority \in [Mutex!Callers -> Nat]
            BY <1>1, <3>1 DEF UrgentFirst, HoldersKnown
          <5>2. \A u \in Mutex!Callers : value'[u] = uxPriority'[u]
            BY <1>6, <2>2, <2>5, <5>1
          <5>3. QED
            BY <2>6, <5>2
        <4>2. ASSUME NEW n \in mutex.mutexes, NEW i \in 1 .. Len(mutexWaiting[n]),
                     NEW j \in 1 .. Len(mutexWaiting[n]), i < j
              PROVE  uxPriority'[mutexWaiting[n][i]] >= uxPriority'[mutexWaiting[n][j]]
          <5>1. mutexWaiting[n][i] \in ToSet(mutexWaiting[n])
                /\ mutexWaiting[n][j] \in ToSet(mutexWaiting[n])
            BY <1>1, <4>2, Waiters
          <5>2. uxPriority[mutexWaiting[n][i]] >= uxPriority[mutexWaiting[n][j]]
            BY <3>1, <4>2 DEF UrgentFirst
          <5>3. QED
            BY <3>5, <5>1, <5>2
        <4>3. QED
          BY <3>2, <4>1, <4>2 DEF UrgentFirst
      <3>7. ASSUME NEW w \in ToSet(mutexWaiting[m]) PROVE highest >= uxPriority[w]
        <4>1. PICK i \in 1 .. Len(mutexWaiting[m]) : w = mutexWaiting[m][i]
          BY <1>1, <1>3, <3>7, Waiters
        <4>2. mutexWaiting[m] \in Seq(Mutex!Callers) /\ Len(mutexWaiting[m]) \in Nat
          BY <1>1, <1>3, Waiters
        <4>3. mutexWaiting[m] # << >> /\ Head(mutexWaiting[m]) = mutexWaiting[m][1]
          BY <4>1, <4>2
        <4>4. highest = uxPriority[mutexWaiting[m][1]]
          BY <3>1, <4>3 DEF UrgentFirst, m
        <4>5. uxPriority[mutexWaiting[m][1]] >= uxPriority[mutexWaiting[m][i]]
          <5>1. CASE i = 1
            BY <1>3, <3>5, <3>7, <4>1, <5>1
          <5>2. CASE 1 < i
            BY <1>3, <3>1, <4>1, <4>2, <5>2 DEF UrgentFirst
          <5>3. QED
            BY <4>1, <4>2, <5>1, <5>2
        <4>6. QED
          BY <4>1, <4>4, <4>5
      <3> HIDE DEF highest
      <3>8. HolderUrgent'
        <4>1. ASSUME NEW n \in mutex.mutexes, xMutexHolder[n] # Nobody,
                     NEW w \in ToSet(mutexWaiting[n])
              PROVE  uxPriority'[xMutexHolder[n]] >= uxPriority'[w]
          <5>1. xMutexHolder[n] \in Mutex!Callers
            BY <1>1, <4>1 DEF HoldersKnown
          <5>2. CASE xMutexHolder[n] # h
            BY <2>6, <3>1, <3>5, <4>1, <5>1, <5>2 DEF HolderUrgent
          <5>3. CASE xMutexHolder[n] = h
            <6>1. n = m
              BY <1>3, <2>2, <3>1, <5>3 DEF OneAtMost
            <6>2. goal >= highest /\ highest >= uxPriority[w] /\ uxPriority[w] \in Nat
              BY <2>5, <3>5, <3>7, <4>1, <6>1
            <6>3. QED
              BY <2>4, <2>6, <3>5, <4>1, <5>3, <6>2 DEF highest
          <5>4. QED
            BY <5>2, <5>3
        <4>2. QED
          BY <3>2, <4>1 DEF HolderUrgent
      <3>9. TakerUrgent'
        <4>1. ASSUME NEW n \in mutex.mutexes, xMutexHolder[n] = Nobody,
                     ToSet(mutexWaiting[n]) # {}
              PROVE  \E u \in Mutex!Callers :
                       /\ mutexCall'[u].pc \in Trying /\ mutexCall'[u].mutex = n
                       /\ \A w \in ToSet(mutexWaiting[n]) : uxPriority'[u] >= uxPriority'[w]
          <5>1. PICK u \in Mutex!Callers :
                  /\ mutexCall[u].pc \in Trying /\ mutexCall[u].mutex = n
                  /\ \A w \in ToSet(mutexWaiting[n]) : uxPriority[u] >= uxPriority[w]
            BY <3>1, <4>1 DEF TakerUrgent
          <5>2. mutexCall'[u] = mutexCall[u] /\ u # h
            BY <1>2, <2>3, <3>4, <5>1 DEF Trying
          <5>3. uxPriority'[u] = uxPriority[u]
            BY <2>6, <5>2
          <5>4. QED
            BY <3>5, <4>1, <5>1, <5>2, <5>3
        <4>2. QED
          BY <2>1, <3>2, <4>1 DEF TakerUrgent
      <3>10. QED
        BY <3>3, <3>6, <3>8, <3>9 DEF FlatInv
    <2>11. QED
      BY <2>1, <2>7, <2>8, <2>9, <2>10 DEF MutexInv
  <1>7. QED
    BY <1>2, <1>5, <1>6

\* The first leaves a list, and the others keep their order.
LEMMA WithoutHead ==
  ASSUME NEW S, NEW queue \in Seq(S), queue # << >>, IsInjective(queue)
  PROVE  /\ Head(queue) \in ToSet(queue) /\ Head(queue) = queue[1] /\ 1 \in 1 .. Len(queue)
         /\ Tail(queue) \in Seq(S) /\ IsInjective(Tail(queue))
         /\ ToSet(Tail(queue)) = ToSet(queue) \ {Head(queue)}
         /\ \A i, j \in 1 .. Len(Tail(queue)) : i < j =>
              \E k, l \in 1 .. Len(queue) :
                k < l /\ Tail(queue)[i] = queue[k] /\ Tail(queue)[j] = queue[l]
  <1> DEFINE rest == Tail(queue)
  <1>1. /\ Len(queue) \in Nat /\ 1 \in 1 .. Len(queue) /\ Head(queue) = queue[1]
        /\ \A i \in 1 .. Len(queue) : queue[i] \in S /\ queue[i] \in ToSet(queue)
        /\ \A i \in 1 .. Len(queue), j \in 1 .. Len(queue) : queue[i] = queue[j] => i = j
    BY Indices, EmptySeq, LenProperties
  <1>2. /\ rest \in Seq(S) /\ Len(rest) = Len(queue) - 1
        /\ \A i \in 1 .. Len(rest) : rest[i] = queue[i + 1]
    BY HeadTailProperties
  <1> HIDE DEF rest
  <1>3. \A i \in 1 .. Len(rest) : i + 1 \in 1 .. Len(queue) /\ i + 1 # 1 /\ i \in Nat
    BY <1>1, <1>2
  <1>4. IsInjective(rest)
    <2>1. ASSUME NEW i \in 1 .. Len(rest), NEW j \in 1 .. Len(rest), rest[i] = rest[j]
          PROVE  i = j
      <3>1. i + 1 = j + 1
        BY <1>1, <1>2, <1>3, <2>1
      <3>2. QED
        BY <1>3, <3>1
    <2>2. QED
      BY <1>2, <2>1, Indices
  <1>5. ASSUME NEW x \in ToSet(rest) PROVE x \in ToSet(queue) /\ x # Head(queue)
    <2>1. PICK i \in 1 .. Len(rest) : x = rest[i]
      BY <1>2, Indices
    <2>2. QED
      BY <1>1, <1>2, <1>3, <2>1
  <1>6. ASSUME NEW x \in ToSet(queue), x # Head(queue) PROVE x \in ToSet(rest)
    <2>1. PICK i \in 1 .. Len(queue) : x = queue[i] /\ i # 1
      BY <1>1, <1>6, Indices
    <2>2. i - 1 \in 1 .. Len(rest) /\ (i - 1) + 1 = i
      BY <1>1, <1>2, <2>1
    <2>3. x = rest[i - 1]
      BY <1>2, <2>1, <2>2
    <2>4. QED
      BY <1>2, <2>2, <2>3, Indices
  <1>7. ASSUME NEW i \in 1 .. Len(rest), NEW j \in 1 .. Len(rest), i < j
        PROVE  \E k, l \in 1 .. Len(queue) :
                 k < l /\ rest[i] = queue[k] /\ rest[j] = queue[l]
    <2>1. i + 1 < j + 1
      BY <1>3, <1>7
    <2>2. QED
      BY <1>2, <1>3, <2>1
  <1>8. QED
    BY <1>1, <1>2, <1>4, <1>5, <1>6, <1>7 DEF rest

\* What a give does to the counter, the priority and the list.
LEMMA GiveSteps ==
  ASSUME MutexInv, UNCHANGED mutex, NEW t \in Mutex!Callers, NEW m \in mutex.mutexes,
         Mutex!Give(t, m)
  PROVE  /\ mutexCall[t].pc = "out" /\ xMutexHolder[m] = t /\ Mutex!Runs(t)
         /\ UNCHANGED uxBasePriority
         /\ xMutexHolder' \in [mutex.mutexes -> Mutex!Callers \union {Nobody}]
         /\ xMutexHolder'[m] = Nobody
         /\ \A n \in mutex.mutexes : n # m => xMutexHolder'[n] = xMutexHolder[n]
         /\ uxMutexesHeld' \in [Mutex!Callers -> Nat]
         /\ \A u \in Mutex!Callers : uxMutexesHeld'[u] = Cardinality(Mutex!Holds(u)')
         /\ Mutex!Holds(t)' = {} => uxPriority'[t] = uxBasePriority[t]
         /\ \A u \in Mutex!Callers : u # t => Mutex!Holds(u)' = Mutex!Holds(u)
         /\ uxPriority' \in [Mutex!Callers -> Nat] /\ value' \in [Mutex!Callers -> Nat]
         /\ \A u \in Mutex!Callers : u # t => uxPriority'[u] = uxPriority[u]
         /\ uxPriority'[t] \in {uxPriority[t], uxBasePriority[t]}
         /\ value = uxPriority => value' = uxPriority'
  <1>1. HoldersKnown
    BY DEF MutexInv
  <1>2. /\ mutexCall[t].pc = "out" /\ xMutexHolder[m] = t /\ Mutex!Runs(t)
        /\ xMutexHolder' = [xMutexHolder EXCEPT ![m] = Nobody]
        /\ uxMutexesHeld' = [uxMutexesHeld EXCEPT ![t] = uxMutexesHeld[t] - 1]
        /\ IF uxPriority[t] # uxBasePriority[t] /\ ~(uxMutexesHeld[t] > 1)
             THEN /\ uxPriority' = [uxPriority EXCEPT ![t] = uxBasePriority[t]]
                  /\ value' = [value EXCEPT ![t] = uxBasePriority[t]]
             ELSE UNCHANGED <<uxPriority, value>>
        /\ UNCHANGED uxBasePriority
    BY DEF Mutex!Give, Mutex!GiveCounting
  <1>3. /\ xMutexHolder' \in [mutex.mutexes -> Mutex!Callers \union {Nobody}]
        /\ xMutexHolder'[m] = Nobody /\ Nobody \notin Mutex!Callers
        /\ \A n \in mutex.mutexes : n # m => xMutexHolder'[n] = xMutexHolder[n]
    BY <1>1, <1>2, MutexUsed DEF HoldersKnown, Mutex!Callers
  <1>4. /\ Mutex!Holds(t)' = Mutex!Holds(t) \ {m} /\ m \in Mutex!Holds(t)
        /\ \A u \in Mutex!Callers : u # t => Mutex!Holds(u)' = Mutex!Holds(u)
    BY <1>2, <1>3 DEF Mutex!Holds
  <1>5. IsFiniteSet(Mutex!Holds(t))
    <2>1. IsFiniteSet(mutex.mutexes) /\ Mutex!Holds(t) \in SUBSET mutex.mutexes
      BY <1>1, MutexUsed DEF HoldersKnown, Mutex!Holds
    <2>2. QED
      BY <2>1, FS_Subset
  <1>6. PICK n \in Nat, k \in Nat :
          /\ n = Cardinality(Mutex!Holds(t)) /\ k = Cardinality(Mutex!Holds(t)')
          /\ k = n - 1 /\ (Mutex!Holds(t)' = {} => k = 0)
    <2>1. /\ IsFiniteSet(Mutex!Holds(t)')
          /\ Cardinality(Mutex!Holds(t)') = Cardinality(Mutex!Holds(t)) - 1
      BY <1>4, <1>5, FS_RemoveElement
    <2>2. /\ Cardinality(Mutex!Holds(t)) \in Nat /\ Cardinality(Mutex!Holds(t)') \in Nat
      BY <1>5, <2>1, FS_CardinalityType
    <2>3. Mutex!Holds(t)' = {} => Cardinality(Mutex!Holds(t)') = 0
      BY FS_EmptySet
    <2>4. QED
      BY <2>1, <2>2, <2>3
  <1>7. /\ uxMutexesHeld \in [Mutex!Callers -> Nat] /\ uxMutexesHeld[t] = n
        /\ \A u \in Mutex!Callers : uxMutexesHeld[u] = Cardinality(Mutex!Holds(u))
    BY <1>1, <1>6 DEF HoldersKnown
  <1>8. uxMutexesHeld' \in [Mutex!Callers -> Nat] /\ uxMutexesHeld'[t] = k
        /\ \A u \in Mutex!Callers : u # t => uxMutexesHeld'[u] = uxMutexesHeld[u]
    BY <1>2, <1>6, <1>7
  <1>9. \A u \in Mutex!Callers : uxMutexesHeld'[u] = Cardinality(Mutex!Holds(u)')
    BY <1>4, <1>6, <1>7, <1>8
  <1>10. /\ uxPriority \in [Mutex!Callers -> Nat] /\ value \in [Mutex!Callers -> Nat]
         /\ uxBasePriority \in [Mutex!Callers -> Nat]
    BY <1>1 DEF HoldersKnown
  <1>11. /\ uxPriority' \in [Mutex!Callers -> Nat] /\ value' \in [Mutex!Callers -> Nat]
         /\ \A u \in Mutex!Callers : u # t => uxPriority'[u] = uxPriority[u]
         /\ uxPriority'[t] \in {uxPriority[t], uxBasePriority[t]}
         /\ value = uxPriority => value' = uxPriority'
    BY <1>2, <1>10
  <1>12. Mutex!Holds(t)' = {} => uxPriority'[t] = uxBasePriority[t]
    BY <1>2, <1>6, <1>7, <1>10
  <1>13. QED
    BY <1>2, <1>3, <1>4, <1>8, <1>9, <1>11, <1>12

\* What it does to the list and to the first that waits on it.
LEMMA GiveWakes ==
  ASSUME MutexInv, UNCHANGED mutex, NEW t \in Mutex!Callers, NEW m \in mutex.mutexes,
         Mutex!Give(t, m)
  PROVE  /\ mutexWaiting' \in [mutex.mutexes -> Seq(Mutex!Callers)]
         /\ mutexCall' \in [Mutex!Callers -> Calls]
         /\ \A u \in Mutex!Callers :
              \/ mutexCall'[u] = mutexCall[u]
              \/ /\ mutexCall[u].pc = "waiting" /\ mutexCall[u].mutex = m
                 /\ mutexCall'[u].pc = "try" /\ mutexCall'[u].mutex = m
         /\ \A n \in mutex.mutexes :
              /\ IsInjective(mutexWaiting'[n])
              /\ \A w \in ToSet(mutexWaiting'[n]) :
                   w \in ToSet(mutexWaiting[n]) /\ mutexCall'[w] = mutexCall[w]
              /\ \A i, j \in 1 .. Len(mutexWaiting'[n]) : i < j =>
                   \E k, l \in 1 .. Len(mutexWaiting[n]) :
                     /\ k < l /\ mutexWaiting'[n][i] = mutexWaiting[n][k]
                     /\ mutexWaiting'[n][j] = mutexWaiting[n][l]
         /\ ToSet(mutexWaiting'[m]) # {} =>
              /\ 1 \in 1 .. Len(mutexWaiting[m])
              /\ mutexCall'[mutexWaiting[m][1]].pc = "try"
              /\ mutexCall'[mutexWaiting[m][1]].mutex = m
  <1> DEFINE queue == mutexWaiting[m]
             one == Head(queue)
             woken == IF queue = << >> THEN {} ELSE {one}
  <1>1. HoldersKnown /\ WaitersKnown
    BY DEF MutexInv
  <1>2. /\ mutexWaiting' = [mutexWaiting EXCEPT ![m] = IF queue = << >> THEN queue
                                                       ELSE Tail(queue)]
        /\ mutexCall' = [u \in Mutex!Callers |->
                           IF u \in woken THEN [mutexCall[u] EXCEPT !.pc = "try"]
                           ELSE mutexCall[u]]
    BY DEF Mutex!Give, Mutex!GiveCounting
  <1>3. /\ mutexWaiting \in [mutex.mutexes -> Seq(Mutex!Callers)]
        /\ mutexCall \in [Mutex!Callers -> Calls]
    BY <1>1 DEF HoldersKnown
  <1>4. queue \in Seq(Mutex!Callers) /\ IsInjective(queue)
    BY <1>1, Waiters
  <1>5. CASE queue = << >>
    <2>1. woken = {}
      BY <1>5
    <2>2. mutexWaiting' = mutexWaiting /\ mutexCall' = mutexCall
      BY <1>2, <1>3, <1>5, <2>1
    <2>3. ToSet(mutexWaiting'[m]) = {}
      BY <1>5, <2>2 DEF ToSet
    <2>4. \A n \in mutex.mutexes : IsInjective(mutexWaiting[n])
      BY <1>1 DEF WaitersKnown
    <2>5. QED
      BY <1>3, <2>2, <2>3, <2>4
  <1>6. CASE queue # << >>
    <2>1. /\ one \in ToSet(queue) /\ one = queue[1] /\ 1 \in 1 .. Len(queue)
          /\ Tail(queue) \in Seq(Mutex!Callers) /\ IsInjective(Tail(queue))
          /\ ToSet(Tail(queue)) = ToSet(queue) \ {one}
          /\ \A i, j \in 1 .. Len(Tail(queue)) : i < j =>
               \E k, l \in 1 .. Len(queue) :
                 k < l /\ Tail(queue)[i] = queue[k] /\ Tail(queue)[j] = queue[l]
      BY <1>4, <1>6, WithoutHead
    <2>2. one \in Mutex!Callers /\ mutexCall[one].pc = "waiting" /\ mutexCall[one].mutex = m
      BY <1>1, <2>1, Waiters
    <2>3. woken = {one} /\ queue = mutexWaiting[m]
      BY <1>6
    <2>4. PICK rest \in Seq(Mutex!Callers) : rest = Tail(queue)
      BY <2>1
    <2>5. mutexWaiting' = [mutexWaiting EXCEPT ![m] = rest]
      BY <1>2, <1>6, <2>4
    <2>6. PICK w \in Mutex!Callers : w = one
      BY <2>2
    <2> HIDE DEF queue, one, woken
    <2>7. /\ mutexWaiting' \in [mutex.mutexes -> Seq(Mutex!Callers)] /\ mutexWaiting'[m] = rest
          /\ \A n \in mutex.mutexes : n # m => mutexWaiting'[n] = mutexWaiting[n]
      BY <1>3, <2>5
    <2>8. mutexCall' = [mutexCall EXCEPT ![w] = [mutexCall[w] EXCEPT !.pc = "try"]]
      BY <1>2, <1>3, <2>3, <2>6
    <2>9. /\ [mutexCall[w] EXCEPT !.pc = "try"] \in Calls
          /\ [mutexCall[w] EXCEPT !.pc = "try"].pc = "try"
          /\ [mutexCall[w] EXCEPT !.pc = "try"].mutex = m
      BY <1>3, <2>2, <2>6 DEF Calls
    <2>10. /\ mutexCall' \in [Mutex!Callers -> Calls]
           /\ mutexCall'[w].pc = "try" /\ mutexCall'[w].mutex = m
           /\ \A u \in Mutex!Callers : u # w => mutexCall'[u] = mutexCall[u]
      BY <1>3, <2>8, <2>9
    <2>11. \A u \in Mutex!Callers :
             \/ mutexCall'[u] = mutexCall[u]
             \/ /\ mutexCall[u].pc = "waiting" /\ mutexCall[u].mutex = m
                /\ mutexCall'[u].pc = "try" /\ mutexCall'[u].mutex = m
      BY <2>2, <2>6, <2>10
    <2>12. ASSUME NEW n \in mutex.mutexes
           PROVE  /\ IsInjective(mutexWaiting'[n])
                  /\ \A v \in ToSet(mutexWaiting'[n]) :
                       v \in ToSet(mutexWaiting[n]) /\ mutexCall'[v] = mutexCall[v]
                  /\ \A i, j \in 1 .. Len(mutexWaiting'[n]) : i < j =>
                       \E k, l \in 1 .. Len(mutexWaiting[n]) :
                         /\ k < l /\ mutexWaiting'[n][i] = mutexWaiting[n][k]
                         /\ mutexWaiting'[n][j] = mutexWaiting[n][l]
      <3>1. \A v \in ToSet(mutexWaiting[n]) : v \in Mutex!Callers /\ mutexCall[v].mutex = n
        BY <1>1, Waiters
      <3>2. CASE n = m
        <4>1. queue = mutexWaiting[n] /\ mutexWaiting'[n] = rest
          BY <2>3, <2>7, <3>2
        <4>2. ToSet(rest) = ToSet(mutexWaiting[n]) \ {w}
          BY <2>1, <2>4, <2>6, <4>1
        <4>3. \A v \in ToSet(rest) :
                v \in ToSet(mutexWaiting[n]) /\ mutexCall'[v] = mutexCall[v]
          BY <2>10, <3>1, <4>2
        <4>4. \A i, j \in 1 .. Len(rest) : i < j =>
                \E k, l \in 1 .. Len(mutexWaiting[n]) :
                  /\ k < l /\ rest[i] = mutexWaiting[n][k]
                  /\ rest[j] = mutexWaiting[n][l]
          BY <2>1, <2>4, <4>1
        <4>5. IsInjective(mutexWaiting'[n])
          BY <2>1, <2>4, <4>1
        <4>6. \A v \in ToSet(mutexWaiting'[n]) :
                v \in ToSet(mutexWaiting[n]) /\ mutexCall'[v] = mutexCall[v]
          BY <4>1, <4>3
        <4>7. \A i, j \in 1 .. Len(mutexWaiting'[n]) : i < j =>
                \E k, l \in 1 .. Len(mutexWaiting[n]) :
                  /\ k < l /\ mutexWaiting'[n][i] = mutexWaiting[n][k]
                  /\ mutexWaiting'[n][j] = mutexWaiting[n][l]
          BY <4>1, <4>4
        <4>8. QED
          BY <4>5, <4>6, <4>7, Zenon
      <3>3. CASE n # m
        <4>1. mutexWaiting'[n] = mutexWaiting[n] /\ IsInjective(mutexWaiting[n])
          BY <1>1, <2>7, <3>3 DEF WaitersKnown
        <4>2. \A v \in ToSet(mutexWaiting[n]) : v # w
          BY <2>2, <2>6, <3>1, <3>3
        <4>3. QED
          BY <2>10, <3>1, <4>1, <4>2
      <3>4. QED
        BY <3>2, <3>3
    <2>13. /\ 1 \in 1 .. Len(mutexWaiting[m]) /\ mutexCall'[mutexWaiting[m][1]].pc = "try"
           /\ mutexCall'[mutexWaiting[m][1]].mutex = m
      BY <2>1, <2>3, <2>6, <2>10
    <2>14. QED
      BY <2>7, <2>10, <2>11, <2>12, <2>13
  <1>7. QED
    BY <1>5, <1>6

\* What was inherited is given back with the last mutex, and who is woken is as urgent
\* as those that still wait.
LEMMA MutexGives ==
  ASSUME MutexInv, UNCHANGED mutex, NEW t \in Mutex!Callers, NEW m \in mutex.mutexes,
         Mutex!Give(t, m)
  PROVE  MutexInv'
  <1>1. HoldersKnown /\ WaitersKnown /\ Mutex!BaseRestored /\ (Flat => FlatInv)
    BY DEF MutexInv
  <1>2. Mutex!Callers' = Mutex!Callers /\ Calls' = Calls /\ Flat' = Flat
    BY DEF Mutex!Callers, Calls, Flat
  <1>3. Nobody \notin Mutex!Callers
    BY <1>1, MutexUsed DEF HoldersKnown, Mutex!Callers
  <1>4. HoldersKnown'
    <2>1. \A u \in Mutex!Callers :
            mutexCall'[u].pc \notin {"out", "asleep"} => mutexCall'[u].mutex \in mutex.mutexes
      <3>1. ASSUME NEW u \in Mutex!Callers, mutexCall'[u].pc \notin {"out", "asleep"}
            PROVE  mutexCall'[u].mutex \in mutex.mutexes
        <4>1. mutexCall[u].pc \notin {"out", "asleep"} => mutexCall[u].mutex \in mutex.mutexes
          BY <1>1 DEF HoldersKnown
        <4>2. \/ mutexCall'[u] = mutexCall[u]
              \/ mutexCall'[u].mutex = m
          BY GiveWakes
        <4>3. QED
          BY <3>1, <4>1, <4>2
      <3>2. QED
        BY <3>1
    <2>2. /\ xMutexHolder' \in [mutex.mutexes -> Mutex!Callers \union {Nobody}]
          /\ uxMutexesHeld' \in [Mutex!Callers -> Nat]
          /\ \A u \in Mutex!Callers : uxMutexesHeld'[u] = Cardinality(Mutex!Holds(u)')
          /\ uxPriority' \in [Mutex!Callers -> Nat] /\ value' \in [Mutex!Callers -> Nat]
          /\ uxBasePriority' = uxBasePriority
      BY GiveSteps
    <2>3. /\ mutexWaiting' \in [mutex.mutexes -> Seq(Mutex!Callers)]
          /\ mutexCall' \in [Mutex!Callers -> Calls]
      BY GiveWakes
    <2>4. QED
      BY <1>1, <1>2, <2>1, <2>2, <2>3 DEF HoldersKnown
  <1>5. WaitersKnown'
    <2>1. ASSUME NEW n \in mutex.mutexes
          PROVE  /\ IsInjective(mutexWaiting'[n])
                 /\ \A w \in ToSet(mutexWaiting'[n]) :
                      mutexCall'[w].pc = "waiting" /\ mutexCall'[w].mutex = n
      <3>1. /\ IsInjective(mutexWaiting'[n])
            /\ \A w \in ToSet(mutexWaiting'[n]) :
                 w \in ToSet(mutexWaiting[n]) /\ mutexCall'[w] = mutexCall[w]
        BY GiveWakes
      <3>2. \A w \in ToSet(mutexWaiting[n]) :
              mutexCall[w].pc = "waiting" /\ mutexCall[w].mutex = n
        BY <1>1 DEF WaitersKnown
      <3>3. QED
        BY <3>1, <3>2
    <2>2. QED
      BY <2>1 DEF WaitersKnown
  <1>6. Mutex!BaseRestored'
    <2>1. ASSUME NEW u \in Mutex!Callers
          PROVE  /\ uxPriority'[u] >= uxBasePriority[u]
                 /\ Mutex!Holds(u)' = {} => uxPriority'[u] = uxBasePriority[u]
      <3>1. /\ uxPriority[u] >= uxBasePriority[u]
            /\ Mutex!Holds(u) = {} => uxPriority[u] = uxBasePriority[u]
            /\ uxPriority[u] \in Nat /\ uxBasePriority[u] \in Nat
        BY <1>1 DEF Mutex!BaseRestored, HoldersKnown
      <3>2. CASE u = t
        BY <3>1, <3>2, GiveSteps
      <3>3. CASE u # t
        BY <3>1, <3>3, GiveSteps
      <3>4. QED
        BY <3>2, <3>3
    <2>2. uxBasePriority' = uxBasePriority
      BY GiveSteps
    <2>3. QED
      BY <1>2, <2>1, <2>2 DEF Mutex!BaseRestored
  <1>7. ASSUME Flat PROVE FlatInv'
    <2>1. OneAtMost /\ UrgentFirst /\ HolderUrgent /\ TakerUrgent
      BY <1>1, <1>7 DEF FlatInv
    <2>2. /\ mutexCall[t].pc = "out" /\ xMutexHolder[m] = t
          /\ xMutexHolder'[m] = Nobody
          /\ \A n \in mutex.mutexes : n # m => xMutexHolder'[n] = xMutexHolder[n]
          /\ \A u \in Mutex!Callers : u # t => uxPriority'[u] = uxPriority[u]
          /\ value' = uxPriority'
      BY <2>1, GiveSteps DEF UrgentFirst
    <2>3. OneAtMost'
      <3>1. \A u \in Mutex!Callers, n \in mutex.mutexes :
              xMutexHolder'[n] = u => xMutexHolder[n] = u
        BY <1>3, <2>2
      <3>2. \A u \in Mutex!Callers : mutexCall'[u].pc \notin {"out", "asleep"} =>
              mutexCall[u].pc \notin {"out", "asleep"}
        BY GiveWakes
      <3>3. \A u \in Mutex!Callers, n \in mutex.mutexes, o \in mutex.mutexes :
              xMutexHolder'[n] = u /\ xMutexHolder'[o] = u => n = o
        BY <2>1, <3>1 DEF OneAtMost
      <3>4. \A u \in Mutex!Callers, n \in mutex.mutexes :
              mutexCall'[u].pc \notin {"out", "asleep"} => xMutexHolder'[n] # u
        BY <2>1, <3>1, <3>2 DEF OneAtMost
      <3>5. QED
        BY <1>2, <3>3, <3>4 DEF OneAtMost
    <2>4. ASSUME NEW n \in mutex.mutexes, NEW w \in ToSet(mutexWaiting[n])
          PROVE  w # t /\ w \in Mutex!Callers /\ uxPriority'[w] = uxPriority[w]
                 /\ uxPriority[w] \in Nat
      <3>1. w \in Mutex!Callers /\ mutexCall[w].pc = "waiting" /\ uxPriority[w] \in Nat
        BY <1>1, Waiters
      <3>2. QED
        BY <2>2, <3>1
    <2>5. \A n \in mutex.mutexes : ToSet(mutexWaiting'[n]) \subseteq ToSet(mutexWaiting[n])
      BY GiveWakes
    <2>6. UrgentFirst'
      <3>1. ASSUME NEW n \in mutex.mutexes, NEW i \in 1 .. Len(mutexWaiting'[n]),
                   NEW j \in 1 .. Len(mutexWaiting'[n]), i < j
            PROVE  uxPriority'[mutexWaiting'[n][i]] >= uxPriority'[mutexWaiting'[n][j]]
        <4>1. PICK k \in 1 .. Len(mutexWaiting[n]), l \in 1 .. Len(mutexWaiting[n]) :
                /\ k < l /\ mutexWaiting'[n][i] = mutexWaiting[n][k]
                /\ mutexWaiting'[n][j] = mutexWaiting[n][l]
          BY <3>1, GiveWakes
        <4>2. uxPriority[mutexWaiting[n][k]] >= uxPriority[mutexWaiting[n][l]]
          BY <2>1, <4>1 DEF UrgentFirst
        <4>3. mutexWaiting[n][k] \in ToSet(mutexWaiting[n])
              /\ mutexWaiting[n][l] \in ToSet(mutexWaiting[n])
          BY <1>1, Waiters
        <4>4. QED
          BY <2>4, <4>1, <4>2, <4>3
      <3>2. QED
        BY <2>2, <3>1 DEF UrgentFirst
    <2>7. HolderUrgent'
      <3>1. ASSUME NEW n \in mutex.mutexes, xMutexHolder'[n] # Nobody,
                   NEW w \in ToSet(mutexWaiting'[n])
            PROVE  uxPriority'[xMutexHolder'[n]] >= uxPriority'[w]
        <4>1. n # m /\ xMutexHolder'[n] = xMutexHolder[n]
          BY <2>2, <3>1
        <4>2. xMutexHolder[n] \in Mutex!Callers /\ xMutexHolder[n] # t
          BY <1>1, <2>1, <2>2, <3>1, <4>1 DEF HoldersKnown, OneAtMost
        <4>3. w \in ToSet(mutexWaiting[n])
          BY <2>5, <3>1
        <4>4. QED
          BY <2>1, <2>2, <2>4, <3>1, <4>1, <4>2, <4>3 DEF HolderUrgent
      <3>2. QED
        BY <3>1 DEF HolderUrgent
    <2>8. TakerUrgent'
      <3>1. ASSUME NEW n \in mutex.mutexes, xMutexHolder'[n] = Nobody,
                   ToSet(mutexWaiting'[n]) # {}
            PROVE  \E u \in Mutex!Callers :
                     /\ mutexCall'[u].pc \in Trying /\ mutexCall'[u].mutex = n
                     /\ \A w \in ToSet(mutexWaiting'[n]) : uxPriority'[u] >= uxPriority'[w]
        <4>1. CASE n # m
          <5>1. PICK u \in Mutex!Callers :
                  /\ mutexCall[u].pc \in Trying /\ mutexCall[u].mutex = n
                  /\ \A w \in ToSet(mutexWaiting[n]) : uxPriority[u] >= uxPriority[w]
            BY <2>1, <2>2, <2>5, <3>1, <4>1 DEF TakerUrgent
          <5>2. mutexCall'[u] = mutexCall[u]
            BY <5>1, GiveWakes DEF Trying
          <5>3. uxPriority'[u] = uxPriority[u]
            BY <2>2, <5>1 DEF Trying
          <5>4. QED
            BY <2>4, <2>5, <3>1, <5>1, <5>2, <5>3
        <4>2. CASE n = m
          <5>1. /\ 1 \in 1 .. Len(mutexWaiting[m])
                /\ mutexCall'[mutexWaiting[m][1]].pc = "try"
                /\ mutexCall'[mutexWaiting[m][1]].mutex = m
            <6>1. ToSet(mutexWaiting'[m]) # {}
              BY <3>1, <4>2
            <6>2. QED
              BY <6>1, GiveWakes
          <5>2. PICK u \in Mutex!Callers : u = mutexWaiting[m][1] /\ uxPriority[u] \in Nat
                                           /\ uxPriority'[u] = uxPriority[u]
            <6>1. mutexWaiting[m][1] \in ToSet(mutexWaiting[m])
              BY <1>1, <5>1, Waiters
            <6>2. QED
              BY <2>4, <6>1
          <5>3. ASSUME NEW w \in ToSet(mutexWaiting'[n])
                PROVE  uxPriority'[u] >= uxPriority'[w]
            <6>1. w \in ToSet(mutexWaiting[m])
              BY <2>5, <4>2, <5>3
            <6>2. PICK k \in 1 .. Len(mutexWaiting[m]) : w = mutexWaiting[m][k]
              <7>1. mutexWaiting[m] \in Seq(Mutex!Callers)
                BY <1>1, Waiters
              <7>2. QED
                BY <6>1, <7>1, Indices
            <6>3. uxPriority[u] >= uxPriority[w]
              <7>1. CASE k = 1
                BY <5>2, <6>2, <7>1
              <7>2. CASE 1 < k
                BY <2>1, <5>1, <5>2, <6>2, <7>2 DEF UrgentFirst
              <7>3. QED
                BY <6>2, <7>1, <7>2
            <6>4. QED
              BY <2>4, <5>2, <6>1, <6>3
          <5>4. QED
            BY <4>2, <5>1, <5>2, <5>3 DEF Trying
        <4>3. QED
          BY <4>1, <4>2
      <3>2. QED
        BY <1>2, <3>1 DEF TakerUrgent
    <2>9. QED
      BY <2>3, <2>6, <2>7, <2>8 DEF FlatInv
  <1>8. QED
    BY <1>2, <1>4, <1>5, <1>6, <1>7 DEF MutexInv

\* A priority that is set: what was inherited is kept if it is higher.
LEMMA MutexSets ==
  ASSUME MutexInv, UNCHANGED mutex, NEW u \in Mutex!Callers, NEW p \in mutex.settings,
         Mutex!vTaskPrioritySet(u, p)
  PROVE  MutexInv'
  <1>1. HoldersKnown /\ WaitersKnown /\ Mutex!BaseRestored
    BY DEF MutexInv
  <1>2. /\ uxBasePriority' = [uxBasePriority EXCEPT ![u] = p]
        /\ \/ uxPriority' = [uxPriority EXCEPT ![u] = p]
           \/ /\ uxPriority' = [uxPriority EXCEPT ![u] = uxPriority[u]]
              /\ uxBasePriority[u] # uxPriority[u] /\ ~(p > uxPriority[u])
        /\ value' = [value EXCEPT ![u] = p]
        /\ UNCHANGED <<xMutexHolder, mutexWaiting, uxMutexesHeld, mutexCall>>
    BY DEF Mutex!vTaskPrioritySet, Mutex!SetPriority
  <1>3. p \in Nat
    BY <1>1, MutexUsed DEF HoldersKnown
  <1>4. Mutex!Callers' = Mutex!Callers /\ Calls' = Calls /\ Flat' = Flat /\ ~Flat
    BY DEF Mutex!Callers, Calls, Flat
  <1>5. /\ uxPriority \in [Mutex!Callers -> Nat] /\ value \in [Mutex!Callers -> Nat]
        /\ uxBasePriority \in [Mutex!Callers -> Nat]
    BY <1>1 DEF HoldersKnown
  <1>6. \A v : Mutex!Holds(v)' = Mutex!Holds(v)
    BY <1>2 DEF Mutex!Holds
  <1>7. HoldersKnown'
    <2>1. /\ uxPriority' \in [Mutex!Callers -> Nat] /\ value' \in [Mutex!Callers -> Nat]
          /\ uxBasePriority' \in [Mutex!Callers -> Nat]
      BY <1>2, <1>3, <1>5
    <2>2. UNCHANGED <<xMutexHolder, mutexWaiting, uxMutexesHeld, mutexCall>>
      BY <1>2
    <2>3. QED
      BY <1>1, <1>4, <1>6, <2>1, <2>2 DEF HoldersKnown
  <1>8. WaitersKnown'
    BY <1>1, <1>2 DEF WaitersKnown
  <1>9. Mutex!BaseRestored'
    <2>1. ASSUME NEW t \in Mutex!Callers
          PROVE  /\ uxPriority'[t] >= uxBasePriority'[t]
                 /\ Mutex!Holds(t)' = {} => uxPriority'[t] = uxBasePriority'[t]
      <3>1. /\ uxPriority[t] >= uxBasePriority[t]
            /\ Mutex!Holds(t) = {} => uxPriority[t] = uxBasePriority[t]
            /\ uxPriority[t] \in Nat /\ uxBasePriority[t] \in Nat
        BY <1>1, <1>5 DEF Mutex!BaseRestored
      <3>2. CASE t = u
        <4>1. uxBasePriority'[t] = p
          BY <1>2, <1>5, <3>2
        <4>2. CASE uxPriority' = [uxPriority EXCEPT ![u] = p]
          <5>1. uxPriority'[t] = p
            BY <1>5, <3>2, <4>2
          <5>2. QED
            BY <1>3, <4>1, <5>1
        <4>3. CASE /\ uxPriority' = [uxPriority EXCEPT ![u] = uxPriority[u]]
                   /\ uxBasePriority[u] # uxPriority[u] /\ ~(p > uxPriority[u])
          <5>1. uxPriority'[t] = uxPriority[t]
            BY <1>5, <3>2, <4>3
          <5>2. QED
            BY <1>3, <1>6, <3>1, <3>2, <4>1, <4>3, <5>1
        <4>4. QED
          BY <1>2, <4>2, <4>3
      <3>3. CASE t # u
        <4>1. uxPriority'[t] = uxPriority[t] /\ uxBasePriority'[t] = uxBasePriority[t]
          BY <1>2, <1>5, <3>3
        <4>2. QED
          BY <1>6, <3>1, <4>1
      <3>4. QED
        BY <3>2, <3>3
    <2>2. QED
      BY <1>4, <2>1 DEF Mutex!BaseRestored
  <1>10. QED
    BY <1>4, <1>7, <1>8, <1>9 DEF MutexInv

LEMMA MutexStep == ASSUME MutexInv, [Mutex!Next]_Mutex!vars PROVE MutexInv'
  <1>1. CASE UNCHANGED Mutex!vars
    <2>1. UNCHANGED <<mutex, xMutexHolder, mutexWaiting, uxMutexesHeld, uxPriority,
                      uxBasePriority, value, mutexCall>>
      BY <1>1 DEF Mutex!vars
    <2>2. /\ HoldersKnown' = HoldersKnown /\ WaitersKnown' = WaitersKnown
          /\ Mutex!BaseRestored' = Mutex!BaseRestored /\ Flat' = Flat
      BY <2>1 DEF HoldersKnown, WaitersKnown, Mutex!BaseRestored, Flat, Mutex!Callers,
                  Mutex!Holds, Calls
    <2>3. FlatInv' = FlatInv
      BY <2>1 DEF FlatInv, OneAtMost, UrgentFirst, HolderUrgent, TakerUrgent, Mutex!Callers
    <2>4. QED
      BY <2>2, <2>3 DEF MutexInv
  <1>2. ASSUME UNCHANGED mutex, NEW t \in Mutex!Callers,
               \/ Mutex!Sleep(t) \/ Mutex!WakeUp(t) \/ Mutex!Late(t) \/ Mutex!LookAgain(t)
        PROVE  MutexInv'
    BY <1>2, MutexMoves
  <1>3. ASSUME UNCHANGED mutex, NEW t \in Mutex!Callers, Mutex!Take(t)
        PROVE  MutexInv'
    BY <1>3, MutexTaken, MutexMoves
  <1>4. ASSUME UNCHANGED mutex, NEW t \in Mutex!Callers, Mutex!Block(t)
        PROVE  MutexInv'
    BY <1>4, MutexBlocks, MutexMoves
  <1>5. ASSUME UNCHANGED mutex, NEW t \in Mutex!Callers,
               Mutex!TimePasses(t) \/ Mutex!Disinherit(t)
        PROVE  MutexInv'
    BY <1>5, MutexTimePasses, MutexDisinherits
  <1>6. ASSUME UNCHANGED mutex, NEW t \in Mutex!Callers, NEW m \in mutex.mutexes,
               Mutex!Call(t, m) \/ Mutex!Give(t, m)
        PROVE  MutexInv'
    BY <1>6, MutexCalled, MutexGives
  <1>7. ASSUME UNCHANGED mutex, NEW u \in Mutex!Callers, NEW p \in mutex.settings,
               Mutex!vTaskPrioritySet(u, p)
        PROVE  MutexInv'
    BY <1>7, MutexSets
  <1>8. QED
    BY <1>1, <1>2, <1>3, <1>4, <1>5, <1>6, <1>7 DEF Mutex!Next

LEMMA MutexSound == ASSUME MutexInv PROVE Mutex!Inheritance
  <1>1. Mutex!BaseRestored
    BY DEF MutexInv
  <1>2. Mutex!NoInversion
    <2>1. ASSUME Flat, NEW m \in mutex.mutexes, NEW t \in Mutex!Callers,
                 t \in Mutex!ToSet(mutexWaiting[m]), xMutexHolder[m] # Nobody
          PROVE  uxPriority[xMutexHolder[m]] >= uxPriority[t]
      <3>1. t \in ToSet(mutexWaiting[m])
        BY <2>1, MutexLists
      <3>2. QED
        BY <2>1, <3>1 DEF MutexInv, FlatInv, HolderUrgent
    <2>2. QED
      BY <2>1 DEF Mutex!NoInversion, Flat
  <1>3. QED
    BY <1>1, <1>2 DEF Mutex!Inheritance

\* What is inherited is enough and is given back: the holder of a mutex is at least as
\* urgent as each task that waits for it, where nobody waits while he holds another and
\* no priority is set, and whoever holds none has the priority it was made with or that
\* vTaskPrioritySet gave it.
THEOREM PrioritiesAreInherited == servicesSpec => []Inheritance
  <1>1. Mutex!Spec => []MutexInv
    <2>1. Mutex!Init => MutexInv
      BY MutexInit
    <2>2. MutexInv /\ [Mutex!Next]_Mutex!vars => MutexInv'
      BY MutexStep
    <2>3. QED
      BY <2>1, <2>2, PTL DEF Mutex!Spec
  <1>2. MutexInv => Inheritance
    BY MutexSound DEF Inheritance
  <1>3. QED
    BY <1>1, <1>2, EachAlone, PTL

-----------------------------------------------------------------------------
(* heap_1. *)

\* What pvPortMalloc adds to a size makes it a multiple of the alignment; a size that
\* it cannot round up it takes for nothing.
LEMMA HeapRounds ==
  ASSUME Heap!HeapAssumption, NEW n \in 0 .. SizeMax
  PROVE  /\ Heap!Rounded(n) \in Nat /\ Heap!Rounded(n) % Align = 0
         /\ Heap!Rounded(n) > 0 => 0 < n /\ n <= Heap!Rounded(n)
  <1>0. Align \in Nat \ {0} /\ n \in Nat
    BY DEF Heap!HeapAssumption
  <1>1. PICK q \in Nat, r \in 0 .. Align - 1 : n = Align * q + r /\ n % Align = r
    BY <1>0, Division
  <1>2. Align * q \in Nat /\ Align \in Nat \ {0}
    BY <1>1 DEF Heap!HeapAssumption
  <1>3. Heap!Missing(n) \in 0 .. Align - 1 /\ (r = 0 => Heap!Missing(n) = 0)
           /\ (r # 0 => Heap!Missing(n) = Align - r)
    BY <1>1, <1>2 DEF Heap!Missing
  <1>4. (n + Heap!Missing(n)) \in Nat /\ (n + Heap!Missing(n)) % Align = 0
    <2>1. CASE r = 0
      <3>1. /\ n + Heap!Missing(n) = Align * q /\ n + Heap!Missing(n) \in Nat
            /\ q \in Int
        BY <1>1, <1>2, <1>3, <2>1
      <3>2. QED
        BY <1>2, <3>1, Multiple
    <2>2. CASE r # 0
      <3>1. n + Heap!Missing(n) = Align * q + Align /\ n + Heap!Missing(n) \in Nat
        BY <1>1, <1>2, <1>3, <2>2
      <3>2. Align * q + Align = Align * (q + 1) /\ q + 1 \in Int
        BY <1>1, <1>2
      <3>3. QED
        BY <1>2, <3>1, <3>2, Multiple
    <2>3. QED
      BY <2>1, <2>2
  <1>5. 0 % Align = 0
    BY <1>2
  <1>6. n = 0 => Heap!Missing(n) = 0
    BY <1>5 DEF Heap!Missing
  <1>7. QED
    BY <1>3, <1>4, <1>5, <1>6 DEF Heap!Rounded

Adjusted == HeapSize - Align

\* Every block lies in the part of the array that is used, which is aligned and ends
\* before the array does.
HeapInv ==
    /\ Heap!TypeOK
    /\ xNextFreeByte % Align = 0 /\ xNextFreeByte <= Adjusted
    /\ \A b \in blocks :
         /\ Heap!pucAlignedHeap <= b.at /\ b.at + b.size <= Heap!pucAlignedHeap + xNextFreeByte
         /\ b.at % Align = 0 /\ b.size > 0
    /\ \A b, c \in blocks : b # c => Heap!Apart(b, c)

\* The aligned array begins in the array, less than one alignment behind its start.
LEMMA HeapAligned ==
  ASSUME Heap!HeapAssumption, ucHeap \in 0 .. Align - 1
  PROVE  /\ Heap!pucAlignedHeap \in Nat /\ Heap!pucAlignedHeap % Align = 0
         /\ ucHeap <= Heap!pucAlignedHeap /\ Heap!pucAlignedHeap < ucHeap + Align
  <1>1. (ucHeap + Align - 1) \in Nat /\ Align \in Nat \ {0} /\ ucHeap \in Nat
    BY DEF Heap!HeapAssumption
  <1>2. PICK a \in Nat : a = ucHeap + Align - 1
    BY <1>1
  <1>3. Heap!pucAlignedHeap = a - (a % Align)
    BY <1>2 DEF Heap!pucAlignedHeap
  <1>4. /\ a - (a % Align) \in Nat /\ a - (a % Align) > a - Align /\ a - (a % Align) <= a
        /\ (a - (a % Align)) % Align = 0
    BY <1>1, RoundedDown
  <1>5. /\ Heap!pucAlignedHeap \in Nat /\ Heap!pucAlignedHeap % Align = 0
        /\ Heap!pucAlignedHeap > a - Align /\ Heap!pucAlignedHeap <= a
    BY <1>3, <1>4
  <1>6. QED
    BY <1>1, <1>2, <1>5

\* No block has been given out.
LEMMA HeapInit == ASSUME Heap!HeapAssumption, Heap!Init PROVE HeapInv
  <1>1. 0 % Align = 0 /\ Align \in Nat /\ HeapSize \in Nat /\ Align < HeapSize
    BY DEF Heap!HeapAssumption
  <1>2. QED
    BY <1>1 DEF Heap!Init, HeapInv, Heap!TypeOK, Adjusted

\* A block is cut off behind all others, and aligned because they are.
LEMMA HeapMalloc ==
  ASSUME Heap!HeapAssumption, HeapInv, NEW n \in 0 .. SizeMax, Heap!pvPortMalloc(n)
  PROVE  HeapInv'
  <1> DEFINE b0 == [at |-> Heap!pucAlignedHeap + xNextFreeByte, size |-> n]
             rounded == Heap!Rounded(n)
  <1>1. /\ rounded \in Nat /\ rounded % Align = 0 /\ rounded > 0 /\ 0 < n /\ n <= rounded
    BY HeapRounds DEF Heap!pvPortMalloc, Heap!CanTake
  <1>2. /\ Heap!pucAlignedHeap \in Nat /\ Heap!pucAlignedHeap % Align = 0
        /\ Align \in Nat \ {0} /\ xNextFreeByte \in Nat /\ HeapSize \in Nat
        /\ Align < HeapSize /\ SizeMax \in Nat
    BY HeapAligned DEF HeapInv, Heap!TypeOK, Heap!HeapAssumption
  <1>3. /\ blocks' = blocks \union {b0} /\ xNextFreeByte' = xNextFreeByte + rounded
        /\ ucHeap' = ucHeap /\ Heap!pucAlignedHeap' = Heap!pucAlignedHeap
    BY DEF Heap!pvPortMalloc, Heap!pucAlignedHeap
  <1>4. xNextFreeByte + rounded < HeapSize - Align
    BY DEF Heap!pvPortMalloc, Heap!CanTake, Heap!configADJUSTED_HEAP_SIZE
  <1>5. /\ b0.at = Heap!pucAlignedHeap + xNextFreeByte /\ b0.size = n
        /\ b0 \in [at : Nat, size : 0 .. SizeMax]
    BY <1>2
  <1>6. Heap!TypeOK'
    BY <1>1, <1>2, <1>3, <1>4, <1>5 DEF HeapInv, Heap!TypeOK
  <1>7. xNextFreeByte' % Align = 0 /\ xNextFreeByte' <= Adjusted'
    <2>1. xNextFreeByte % Align = 0
      BY DEF HeapInv
    <2>2. (xNextFreeByte + rounded) % Align = 0
      BY <1>1, <1>2, <2>1, SumOfMultiples
    <2>3. xNextFreeByte + rounded <= HeapSize - Align
      BY <1>1, <1>2, <1>4
    <2>4. QED
      BY <1>3, <2>2, <2>3 DEF Adjusted
  <1>8. b0.at % Align = 0
    BY <1>2, <1>5, SumOfMultiples DEF HeapInv
  <1>9. ASSUME NEW b \in blocks
        PROVE  /\ b.at \in Nat /\ b.size \in Nat
               /\ Heap!pucAlignedHeap <= b.at /\ b.at + b.size <= b0.at
               /\ b.at % Align = 0 /\ b.size > 0
    BY <1>5 DEF HeapInv, Heap!TypeOK
  <1>10. \A b \in blocks' :
           /\ Heap!pucAlignedHeap' <= b.at
           /\ b.at + b.size <= Heap!pucAlignedHeap' + xNextFreeByte'
           /\ b.at % Align = 0 /\ b.size > 0
    <2>1. ASSUME NEW b \in blocks'
          PROVE  /\ Heap!pucAlignedHeap <= b.at
                 /\ b.at + b.size <= Heap!pucAlignedHeap + xNextFreeByte + rounded
                 /\ b.at % Align = 0 /\ b.size > 0
      <3>1. CASE b = b0
        BY <3>1, <1>1, <1>2, <1>5, <1>8
      <3>2. CASE b \in blocks
        BY <3>2, <1>1, <1>2, <1>5, <1>9
      <3>3. QED
        BY <3>1, <3>2, <1>3
    <2>2. Heap!pucAlignedHeap' + xNextFreeByte' = Heap!pucAlignedHeap + xNextFreeByte + rounded
      BY <1>1, <1>2, <1>3
    <2>3. QED
      BY <2>1, <2>2, <1>3
  <1>11. \A b, c \in blocks' : b # c => Heap!Apart(b, c)
    <2>1. ASSUME NEW b \in blocks', NEW c \in blocks', b # c
          PROVE  Heap!Apart(b, c)
      <3>1. CASE b \in blocks /\ c \in blocks
        BY <3>1, <2>1 DEF HeapInv
      <3>2. CASE b \in blocks /\ c = b0
        BY <3>2, <1>9 DEF Heap!Apart
      <3>3. CASE b = b0 /\ c \in blocks
        BY <3>3, <1>9 DEF Heap!Apart
      <3>4. QED
        BY <3>1, <3>2, <3>3, <2>1, <1>3
    <2>2. QED
      BY <2>1
  <1>12. QED
    BY <1>6, <1>7, <1>10, <1>11 DEF HeapInv, Heap!Apart

\* A new block lies behind all others, in the array.
LEMMA HeapStep == ASSUME Heap!HeapAssumption, HeapInv, [Heap!Next]_(Heap!vars) PROVE HeapInv'
  <1>1. CASE UNCHANGED Heap!vars
    BY <1>1 DEF HeapInv, Heap!TypeOK, Heap!vars, Heap!pucAlignedHeap, Heap!Apart, Adjusted
  <1>2. ASSUME NEW n \in 0 .. SizeMax, Heap!pvPortMalloc(n) PROVE HeapInv'
    BY <1>2, HeapMalloc
  <1>3. ASSUME NEW n \in 0 .. SizeMax, Heap!Refuse(n) PROVE HeapInv'
    BY <1>1, <1>3 DEF Heap!Refuse
  <1>4. QED
    BY <1>1, <1>2, <1>3 DEF Heap!Next

\* What is used of the aligned array is in the array, wherever that begins.
LEMMA HeapInside == ASSUME Heap!HeapAssumption, HeapInv PROVE Heap!BlocksApart
  <1>1. /\ Heap!pucAlignedHeap \in Nat /\ ucHeap \in Nat /\ Align \in Nat /\ HeapSize \in Nat
        /\ ucHeap <= Heap!pucAlignedHeap /\ Heap!pucAlignedHeap < ucHeap + Align
        /\ xNextFreeByte \in Nat /\ xNextFreeByte <= HeapSize - Align
    BY HeapAligned DEF HeapInv, Heap!TypeOK, Heap!HeapAssumption, Adjusted
  <1>2. ASSUME NEW b \in blocks
        PROVE  /\ ucHeap <= b.at /\ b.at + b.size <= ucHeap + HeapSize
               /\ b.at % Align = 0 /\ b.size > 0
    <2>1. /\ b.at \in Nat /\ b.size \in Nat /\ Heap!pucAlignedHeap <= b.at
          /\ b.at + b.size <= Heap!pucAlignedHeap + xNextFreeByte
          /\ b.at % Align = 0 /\ b.size > 0
      BY DEF HeapInv, Heap!TypeOK
    <2>2. QED
      BY <1>1, <2>1
  <1>3. QED
    BY <1>2 DEF Heap!BlocksApart, HeapInv

\* Every block that pvPortMalloc gives out lies in the array, is aligned, has room for
\* what was asked for, and overlaps none of those given out before.
THEOREM BlocksStayApart == servicesSpec => []BlocksApart
  <1>1. Heap!Init => HeapInv
    BY HeapInit, ServicesAssumption
  <1>2. HeapInv /\ [Heap!Next]_(Heap!vars) => HeapInv'
    BY HeapStep, ServicesAssumption
  <1>3. HeapInv => BlocksApart
    BY HeapInside, ServicesAssumption DEF BlocksApart
  <1>4. QED
    BY <1>1, <1>2, <1>3, EachAlone, PTL DEF Heap!Spec

-----------------------------------------------------------------------------
(* The heap of lwIP, of which Mem_proofs is about. *)

MemProofs == INSTANCE Mem_proofs WITH blocks <- memBlocks

\* The areas of lwIP's heap stay linked, joined and apart from each other, and a caller
\* keeps what it was given, whatever mem_malloc, mem_free and mem_trim do.
THEOREM HeapStaysSound == servicesSpec => []HeapSound
  <1>1. MemProofs!MemAssumption
    BY ServicesAssumption DEF Mem!MemAssumption, MemProofs!MemAssumption
  <1>2. Mem!Init <=> MemProofs!Init
    BY DEF Mem!Init, MemProofs!Init, Mem!None, MemProofs!None
  <1>3. [Mem!Next]_(Mem!vars) <=> [MemProofs!Next]_(MemProofs!vars)
    BY DEF Mem!vars, MemProofs!vars, Mem!Sizes, MemProofs!Sizes, Mem!None,
           MemProofs!None, Mem!LWIP_MEM_ALIGN_SIZE, MemProofs!LWIP_MEM_ALIGN_SIZE,
           Mem!Expanded, MemProofs!Expanded, Mem!TooLarge, MemProofs!TooLarge, Mem!Room,
           MemProofs!Room, Mem!Split, MemProofs!Split, Mem!Join, MemProofs!Join,
           Mem!JoinsNext, MemProofs!JoinsNext, Mem!JoinsPrev, MemProofs!JoinsPrev,
           Mem!plug_holes, MemProofs!plug_holes, Mem!plug_holes_lfree,
           MemProofs!plug_holes_lfree, Mem!Fits, MemProofs!Fits, Mem!FreeFrom,
           MemProofs!FreeFrom, Mem!First, MemProofs!First, Mem!Taken, MemProofs!Taken,
           Mem!Refused, MemProofs!Refused, Mem!mem_malloc, MemProofs!mem_malloc,
           Mem!mem_link_valid, MemProofs!mem_link_valid, Mem!Lower, MemProofs!Lower,
           Mem!mem_free, MemProofs!mem_free, Mem!BeginTrim, MemProofs!BeginTrim,
           Mem!mem_trim, MemProofs!mem_trim, Mem!Next, MemProofs!Next
  <1>4. MemProofs!HeapSound <=> HeapSound
    BY DEF HeapSound, Mem!HeapSound, MemProofs!HeapSound, Mem!AreasLinked, MemProofs!AreasLinked,
           Mem!SearchStarts, MemProofs!SearchStarts, Mem!BlocksFit, MemProofs!BlocksFit,
           Mem!Room, MemProofs!Room, Mem!mem_link_valid, MemProofs!mem_link_valid
  <1>5. MemProofs!Init => MemProofs!IInv
    BY <1>1, MemProofs!InitIInv
  <1>6. MemProofs!IInv /\ [MemProofs!Next]_(MemProofs!vars) => MemProofs!IInv'
    BY <1>1, MemProofs!NextIInv
  <1>7. MemProofs!IInv => MemProofs!HeapSound
    BY <1>1, MemProofs!InvSound
  <1>8. QED
    BY <1>2, <1>3, <1>4, <1>5, <1>6, <1>7, EachAlone, PTL DEF Mem!Spec

-----------------------------------------------------------------------------
(* Task notifications. *)

\* The waiting task has the scheduler suspended from its first look until it has
\* blocked; it is marked as waiting from its second look on; once it is, whoever
\* notifies it readies it, or finds a suspended scheduler that will.
NotifyInv ==
    /\ Notification!TypeOK /\ Notification!NotificationsSeen
    /\ holder = "waiter" <=> notifyPc \in {"look", "block", "resume"}
    /\ notifyPc \in {"look", "block"} => list = "ready"
    /\ notifyPc = "look" => ~pending
    /\ notifyPc = "block" =>
         pending \/ (ucNotifyState = "waiting" /\ Notification!Empty(notifyCall.kind))
    /\ ucNotifyState = "waiting" => notifyPc \in {"block", "resume", "leave"} /\ ~suspended

LEMMA NotifyBound == MaxNotified \in Nat
  BY ServicesAssumption DEF ServicesAssumption, Notification!NotificationAssumption

\* Nobody waits at first.
LEMMA NotifyInit == ASSUME Notification!Init PROVE NotifyInv
  <1>1. 0 \in 0 .. MaxNotified
    BY NotifyBound
  <1>2. QED
    BY <1>1
    DEF Notification!Init, NotifyInv, Notification!TypeOK, Notification!NotificationsSeen,
        Notification!WaiterOnNoList, Notification!NoWakeUpLost,
        Notification!SuspendedStays, Notification!NoCall

\* What a notification adds up to stays in its range.
LEMMA NotifyValue ==
  ASSUME ulNotifiedValue \in 0 .. MaxNotified, Notification!Next
  PROVE  ulNotifiedValue' \in 0 .. MaxNotified
  <1>1. CASE UNCHANGED ulNotifiedValue
    BY <1>1
  <1>2. CASE ulNotifiedValue < MaxNotified /\ ulNotifiedValue' = ulNotifiedValue + 1
    BY <1>2, NotifyBound
  <1>3. CASE ulNotifiedValue' = 0
    BY <1>3, NotifyBound
  <1>4. ASSUME NEW cleared \in BOOLEAN, Notification!Leave(cleared)
        PROVE  ulNotifiedValue' \in 0 .. MaxNotified
    <2>1. \/ UNCHANGED ulNotifiedValue
          \/ ulNotifiedValue' = 0
          \/ ulNotifiedValue > 0 /\ ulNotifiedValue' = ulNotifiedValue - 1
      <3>1. ulNotifiedValue - 0 = ulNotifiedValue
        BY NotifyBound
      <3>2. \/ ulNotifiedValue' = 0
            \/ ulNotifiedValue' = ulNotifiedValue - 0
            \/ ulNotifiedValue > 0 /\ ulNotifiedValue' = ulNotifiedValue - 1
        BY <1>4, Zenon DEF Notification!Leave, Notification!Return
      <3>3. QED
        BY <3>1, <3>2
    <2>2. QED
      BY <2>1, NotifyBound
  <1>5. \/ UNCHANGED ulNotifiedValue
        \/ ulNotifiedValue < MaxNotified /\ ulNotifiedValue' = ulNotifiedValue + 1
        \/ ulNotifiedValue' = 0
        \/ \E cleared \in BOOLEAN : Notification!Leave(cleared)
    BY Zenon
    DEF Notification!Next, Notification!Waiter, Notification!Call, Notification!Look,
        Notification!Mark, Notification!Block, Notification!WaiterResumesAll,
        Notification!xTaskGenericNotify, Notification!xTaskGenericNotifyFromISR,
        Notification!Notify, Notification!xTaskGenericNotifyStateClear,
        Notification!ulTaskGenericNotifyValueClear, Notification!vTaskSuspend,
        Notification!Suspend, Notification!vTaskResume, Notification!xTaskResumeFromISR,
        Notification!OtherSuspendsAll, Notification!OtherResumesAll,
        Notification!TimePasses, Notification!data
  <1>6. QED
    BY <1>1, <1>2, <1>3, <1>4, <1>5

\* The calls of the waiting task.
LEMMA NotifyWaiter ==
  ASSUME NotifyInv,
         \/ \E kind \in {"take", "wait"}, wait \in {"none", "finite", "forever"} :
              Notification!Call(kind, wait)
         \/ Notification!Waiter
  PROVE  NotifyInv'
  <1> USE DEF NotifyInv, Notification!TypeOK, Notification!NotificationsSeen,
              Notification!WaiterOnNoList, Notification!NoWakeUpLost,
              Notification!SuspendedStays, Notification!Empty, Notification!data,
              Notification!lists
  <1>1. ASSUME NEW kind \in {"take", "wait"}, NEW wait \in {"none", "finite", "forever"},
               Notification!Call(kind, wait)
        PROVE  NotifyInv'
    BY <1>1 DEF Notification!Call, Notification!WaiterRuns
  <1>2. CASE Notification!Look
    BY <1>2 DEF Notification!Look, Notification!Mark
  <1>3. CASE Notification!Block
    BY <1>3 DEF Notification!Block
  <1>4. CASE Notification!WaiterResumesAll
    BY <1>4 DEF Notification!WaiterResumesAll, Notification!ReadyPending
  <1>5. ASSUME NEW cleared \in BOOLEAN, Notification!Leave(cleared)
        PROVE  NotifyInv'
    <2>1. ulNotifiedValue' \in 0 .. MaxNotified
      BY <1>5, NotifyValue DEF Notification!Next, Notification!Waiter
    <2>2. QED
      BY <1>5, <2>1 DEF Notification!Leave, Notification!Return, Notification!WaiterRuns,
                        Notification!NoCall
  <1>6. QED
    BY <1>1, <1>2, <1>3, <1>4, <1>5 DEF Notification!Waiter

\* What others do to it.
LEMMA NotifyOthers ==
  ASSUME NotifyInv,
         \/ Notification!xTaskGenericNotify \/ Notification!xTaskGenericNotifyFromISR
         \/ Notification!xTaskGenericNotifyStateClear
         \/ Notification!ulTaskGenericNotifyValueClear
         \/ Notification!vTaskSuspend \/ Notification!vTaskResume
         \/ Notification!xTaskResumeFromISR
         \/ Notification!OtherSuspendsAll \/ Notification!OtherResumesAll
         \/ Notification!TimePasses
  PROVE  NotifyInv'
  <1> USE DEF NotifyInv, Notification!TypeOK, Notification!NotificationsSeen,
              Notification!WaiterOnNoList, Notification!NoWakeUpLost,
              Notification!SuspendedStays, Notification!Empty, Notification!data,
              Notification!lists, Notification!OtherRuns
  <1>1. CASE Notification!xTaskGenericNotify \/ Notification!xTaskGenericNotifyFromISR
    <2>1. ulNotifiedValue' \in 0 .. MaxNotified
      BY <1>1, NotifyValue DEF Notification!Next
    <2>2. /\ ucNotifyState' = "received"
          /\ UNCHANGED <<holder, notifyPc, notifyCall, suspended>>
      BY <1>1
      DEF Notification!xTaskGenericNotify, Notification!xTaskGenericNotifyFromISR,
          Notification!Notify
    <2>3. \/ ucNotifyState # "waiting" /\ UNCHANGED <<list, pending>>
          \/ ucNotifyState = "waiting" /\ holder # "waiter" /\ list' = "ready" /\ UNCHANGED pending
          \/ ucNotifyState = "waiting" /\ holder # "nobody" /\ pending' = TRUE /\ UNCHANGED list
      BY <1>1
      DEF Notification!xTaskGenericNotify, Notification!xTaskGenericNotifyFromISR,
          Notification!Notify
    <2>4. Notification!TypeOK'
      BY <2>1, <2>2, <2>3
    <2>5. Notification!NotificationsSeen'
      <3>1. Notification!WaiterOnNoList'
        <4>1. pending' => pending \/ holder # "nobody"
          BY <2>3, Zenon
        <4>2. holder' = holder /\ ucNotifyState' # "waiting"
          BY <2>2
        <4>3. QED
          BY <4>1, <4>2, Zenon
      <3>2. Notification!NoWakeUpLost'
        BY <2>2, <2>3
      <3>3. Notification!SuspendedStays'
        BY <2>2, <2>3
      <3>4. QED
        BY <3>1, <3>2, <3>3, Zenon
    <2>6. QED
      BY <2>2, <2>3, <2>4, <2>5, Zenon
  <1>2. CASE \/ Notification!xTaskGenericNotifyStateClear
             \/ Notification!ulTaskGenericNotifyValueClear
    <2>1. ulNotifiedValue' \in 0 .. MaxNotified
      BY <1>2, NotifyValue DEF Notification!Next
    <2>2. /\ UNCHANGED <<list, pending, holder, notifyPc, notifyCall, suspended>>
          /\ holder # "waiter"
          /\ ucNotifyState' = ucNotifyState
               \/ (ucNotifyState = "received" /\ ucNotifyState' = "not waiting")
          /\ ulNotifiedValue' = ulNotifiedValue \/ ulNotifiedValue' = 0
      BY <1>2
      DEF Notification!xTaskGenericNotifyStateClear,
          Notification!ulTaskGenericNotifyValueClear
    <2>3. Notification!TypeOK'
      BY <2>1, <2>2
    <2>4. Notification!NotificationsSeen'
      BY <2>2, Zenon
    <2>5. QED
      BY <2>2, <2>3, <2>4, Zenon
  <1>3. CASE Notification!vTaskSuspend
    BY <1>3 DEF Notification!vTaskSuspend, Notification!Suspend
  <1>4. CASE Notification!vTaskResume \/ Notification!xTaskResumeFromISR
    BY <1>4 DEF Notification!vTaskResume, Notification!xTaskResumeFromISR,
                Notification!prvTaskIsTaskSuspended
  <1>5. CASE Notification!OtherSuspendsAll
    BY <1>5 DEF Notification!OtherSuspendsAll
  <1>8. CASE Notification!OtherResumesAll
    BY <1>8 DEF Notification!OtherResumesAll, Notification!ReadyPending
  <1>6. CASE Notification!TimePasses
    BY <1>6 DEF Notification!TimePasses
  <1>7. QED
    BY <1>1, <1>2, <1>3, <1>4, <1>5, <1>6, <1>8

LEMMA NotifyStep == ASSUME NotifyInv, [Notification!Next]_(Notification!vars) PROVE NotifyInv'
  <1>1. CASE UNCHANGED Notification!vars
    BY <1>1
    DEF NotifyInv, Notification!TypeOK, Notification!NotificationsSeen,
        Notification!WaiterOnNoList, Notification!NoWakeUpLost,
        Notification!SuspendedStays, Notification!Empty, Notification!vars,
        Notification!data, Notification!lists
  <1>2. QED
    BY <1>1, NotifyWaiter, NotifyOthers DEF Notification!Next

\* A task that waits for a notification gets it, also one that an interrupt sends
\* between its last look and its going to sleep; a task that is suspended is moved by
\* nothing but vTaskResume and xTaskResumeFromISR.
THEOREM NotificationsAreSeen == servicesSpec => []NotificationsSeen
  <1>1. NotifyInv => NotificationsSeen
    BY DEF NotifyInv, NotificationsSeen
  <1>2. QED
    BY <1>1, NotifyInit, NotifyStep, EachAlone, PTL DEF Notification!Spec

-----------------------------------------------------------------------------
(* Event groups. *)

\* What is always so of an event group, however it is used.  A rendezvous that is under
\* way has begun and not ended.
GroupInv ==
    /\ EventGroup!NoneMissed
    /\ group \in GroupUses /\ group \in [GroupTasks -> SUBSET EventGroup!Calls]
    /\ uxEventBits \subseteq Bits
    /\ groupPc \in [GroupTasks -> {"out", "waiting", "woken", "expired"}]
    /\ groupCall \in [GroupTasks -> EventGroup!Calls \union {EventGroup!NoCall}]
    /\ item \in [GroupTasks -> SUBSET Bits]
    /\ entered \in [GroupTasks -> 0 .. MaxRounds] /\ left \in [GroupTasks -> Nat]
    /\ \A t \in GroupTasks :
         /\ groupPc[t] = "out" => groupCall[t] = EventGroup!NoCall /\ left[t] <= entered[t]
         /\ groupPc[t] # "out" =>
              /\ groupCall[t] \in group[t]
              /\ left[t] + (IF groupCall[t].kind = "sync" THEN 1 ELSE 0) <= entered[t]

\* How often everybody has come to the rendezvous, as a task sees it that may have come
\* once more and waits.
Met(t) == entered[t] - (IF groupPc[t] = "waiting" THEN 1 ELSE 0)

\* Where tasks only meet, the bits that are set are those of the tasks that wait, who are
\* all one round ahead; the others have left the round or are about to.
MeetInv ==
    /\ uxEventBits = UNION {EventGroup!Own(t) : t \in EventGroup!Waiting}
    /\ \A t \in GroupTasks :
         /\ groupPc[t] \in {"out", "waiting", "woken"}
         /\ left[t] = entered[t] - (IF groupPc[t] = "out" THEN 0 ELSE 1)
    /\ \A t, u \in GroupTasks : Met(t) = Met(u)

LEMMA GroupBound == MaxRounds \in Nat /\ GroupUses \subseteq [GroupTasks -> SUBSET EventGroup!Calls]
  BY ServicesAssumption DEF ServicesAssumption, EventGroup!GroupAssumption

\* A call is none that is no call.
LEMMA CallsAreCalls ==
  ASSUME NEW c \in EventGroup!Calls
  PROVE  /\ c # EventGroup!NoCall
         /\ c.for \subseteq Bits /\ c.sets \subseteq Bits
         /\ c.kind = "sync" => c.all /\ c.clears
  BY DEF EventGroup!Calls, EventGroup!NoCall

LEMMA GroupInit == ASSUME EventGroup!Init PROVE GroupInv /\ (EventGroup!OnlyMeet => MeetInv)
  <1>1. 0 \in 0 .. MaxRounds
    BY GroupBound
  <1>2. GroupInv
    BY <1>1, GroupBound DEF GroupInv, EventGroup!Init, EventGroup!NoneMissed
  <1>3. EventGroup!Waiting = {}
    BY DEF EventGroup!Init, EventGroup!Waiting
  <1>4. UNION {EventGroup!Own(t) : t \in EventGroup!Waiting} = {}
    BY <1>3
  <1>5. QED
    BY <1>2, <1>4 DEF EventGroup!Init, MeetInv, Met

\* Fewer bits wake nobody.
LEMMA FewerBits ==
  ASSUME NEW bits, NEW fewer \in SUBSET bits, NEW c,
         EventGroup!prvTestWaitCondition(c, fewer)
  PROVE  EventGroup!prvTestWaitCondition(c, bits)
  BY DEF EventGroup!prvTestWaitCondition, EventGroup!Any

\* A task that has called, stays out or waits; those whom the bits wake do not.
LEMMA GroupCalls ==
  ASSUME GroupInv, NEW t \in GroupTasks, groupPc[t] = "out", NEW c \in group[t],
         UNCHANGED group,
         \/ EventGroup!xEventGroupSetBits(t, c) \/ EventGroup!xEventGroupClearBits(t, c)
         \/ EventGroup!xEventGroupSync(t, c) \/ EventGroup!xEventGroupWaitBits(t, c)
  PROVE  GroupInv'
  <1> USE DEF GroupInv, EventGroup!NoneMissed
  <1>1. c \in EventGroup!Calls /\ t \notin EventGroup!Waiting
    BY DEF EventGroup!Waiting
  <1>2. CASE EventGroup!xEventGroupClearBits(t, c)
    <2>1. uxEventBits' \in SUBSET uxEventBits
      BY <1>2 DEF EventGroup!xEventGroupClearBits
    <2>2. QED
      BY <1>2, <2>1, FewerBits DEF EventGroup!xEventGroupClearBits
  <1>3. CASE EventGroup!xEventGroupSetBits(t, c)
    <2> DEFINE bits == uxEventBits \union c.sets
    <2>1. /\ EventGroup!Wake(bits, groupPc)
          /\ uxEventBits' \in SUBSET bits /\ bits \in SUBSET Bits
          /\ UNCHANGED <<groupCall, entered, left>>
      BY <1>1, <1>3, CallsAreCalls DEF EventGroup!xEventGroupSetBits
    <2> HIDE DEF bits
    <2>2. \A u \in GroupTasks :
            \/ /\ u \in EventGroup!Woken(bits) /\ groupPc'[u] = "woken" /\ item'[u] = bits
            \/ /\ u \notin EventGroup!Woken(bits)
               /\ groupPc'[u] = groupPc[u] /\ item'[u] = item[u]
      BY <2>1 DEF EventGroup!Wake
    <2>3. \A u \in EventGroup!Woken(bits) :
            groupPc[u] = "waiting" /\ EventGroup!prvTestWaitCondition(groupCall[u], bits)
      BY DEF EventGroup!Woken, EventGroup!Waiting
    <2>4. \A u \in GroupTasks :
            groupPc'[u] = "waiting" =>
              /\ groupPc[u] = "waiting"
              /\ ~EventGroup!prvTestWaitCondition(groupCall[u], bits)
      BY <2>2 DEF EventGroup!Woken, EventGroup!Waiting
    <2>5. EventGroup!NoneMissed'
      BY <2>1, <2>2, <2>3, <2>4, FewerBits
    <2>6. /\ groupPc' \in [GroupTasks -> {"out", "waiting", "woken", "expired"}]
          /\ item' \in [GroupTasks -> SUBSET Bits]
      BY <2>1 DEF EventGroup!Wake
    <2>7. QED
      BY <2>1, <2>2, <2>3, <2>5, <2>6
  <1>4. CASE EventGroup!xEventGroupWaitBits(t, c)
    <2> DEFINE stay == ~EventGroup!prvTestWaitCondition(c, uxEventBits) /\ c.wait # "none"
    <2>1. /\ groupPc' = [groupPc EXCEPT ![t] = IF stay THEN "waiting" ELSE "out"]
          /\ groupCall' = [groupCall EXCEPT ![t] = IF stay THEN c ELSE EventGroup!NoCall]
          /\ uxEventBits' \in SUBSET uxEventBits
          /\ c.kind = "wait" /\ UNCHANGED <<item, entered, left>>
      BY <1>4 DEF EventGroup!xEventGroupWaitBits
    <2>2. stay => ~EventGroup!prvTestWaitCondition(c, uxEventBits)
      OBVIOUS
    <2> HIDE DEF stay
    <2>3. EventGroup!NoneMissed'
      BY <2>1, <2>2, FewerBits
    <2>4. QED
      BY <1>1, <2>1, <2>3
  <1>5. CASE EventGroup!xEventGroupSync(t, c)
    <2> DEFINE bits == uxEventBits \union c.sets
               stay == ~(c.for \subseteq bits) /\ c.wait # "none"
    <2>1. /\ EventGroup!Wake(bits, [groupPc EXCEPT ![t] = IF stay THEN "waiting" ELSE "out"])
          /\ uxEventBits' \in SUBSET bits /\ bits \in SUBSET Bits
          /\ groupCall' = [groupCall EXCEPT ![t] = IF stay THEN c ELSE EventGroup!NoCall]
          /\ c.kind = "sync" /\ entered[t] < MaxRounds
          /\ entered' = [entered EXCEPT ![t] = @ + 1]
          /\ \/ ~stay /\ left' = [left EXCEPT ![t] = @ + 1]
             \/ UNCHANGED left
      BY <1>1, <1>5, CallsAreCalls
      DEF EventGroup!xEventGroupSync, EventGroup!Enters, EventGroup!Leaves
    <2>2. stay => ~EventGroup!prvTestWaitCondition(c, bits)
      BY <1>1, <2>1, CallsAreCalls DEF EventGroup!prvTestWaitCondition
    <2> HIDE DEF bits, stay
    <2>3. /\ groupPc'[t] = IF stay THEN "waiting" ELSE "out"
          /\ groupCall'[t] = IF stay THEN c ELSE EventGroup!NoCall
          /\ item'[t] = item[t]
      BY <1>1, <2>1 DEF EventGroup!Wake, EventGroup!Woken
    <2>4. \A u \in GroupTasks \ {t} :
            \/ /\ u \in EventGroup!Woken(bits) /\ groupPc'[u] = "woken" /\ item'[u] = bits
            \/ /\ u \notin EventGroup!Woken(bits)
               /\ groupPc'[u] = groupPc[u] /\ item'[u] = item[u]
      BY <2>1 DEF EventGroup!Wake
    <2>5. \A u \in EventGroup!Woken(bits) :
            groupPc[u] = "waiting" /\ EventGroup!prvTestWaitCondition(groupCall[u], bits)
      BY DEF EventGroup!Woken, EventGroup!Waiting
    <2>6. \A u \in GroupTasks \ {t} :
            groupPc'[u] = "waiting" =>
              /\ groupPc[u] = "waiting"
              /\ ~EventGroup!prvTestWaitCondition(groupCall[u], bits)
      BY <2>4 DEF EventGroup!Woken, EventGroup!Waiting
    <2>7. \A u \in GroupTasks \ {t} :
            groupCall'[u] = groupCall[u] /\ entered'[u] = entered[u] /\ left'[u] = left[u]
      BY <2>1
    <2>8. EventGroup!NoneMissed'
      BY <2>1, <2>2, <2>3, <2>4, <2>5, <2>6, <2>7, FewerBits
    <2>9. /\ groupPc' \in [GroupTasks -> {"out", "waiting", "woken", "expired"}]
          /\ item' \in [GroupTasks -> SUBSET Bits]
      BY <2>1 DEF EventGroup!Wake
    <2>10. entered' \in [GroupTasks -> 0 .. MaxRounds] /\ left' \in [GroupTasks -> Nat]
      BY <2>1, GroupBound
    <2>11. groupCall' \in [GroupTasks -> EventGroup!Calls \union {EventGroup!NoCall}]
      BY <1>1, <2>1
    <2>12. /\ groupPc'[t] = "out" => groupCall'[t] = EventGroup!NoCall /\ left'[t] <= entered'[t]
           /\ groupPc'[t] # "out" =>
                groupCall'[t] \in group[t] /\ left'[t] + 1 <= entered'[t]
      BY <2>1, <2>3
    <2>13. QED
      BY <2>1, <2>3, <2>4, <2>5, <2>7, <2>8, <2>9, <2>10, <2>11, <2>12
  <1>6. QED
    BY <1>2, <1>3, <1>4, <1>5

\* A task goes on that waited.
LEMMA GroupReturns ==
  ASSUME GroupInv, NEW t \in GroupTasks, UNCHANGED group,
         EventGroup!TimePasses(t) \/ EventGroup!Return(t) \/ EventGroup!ReturnLate(t)
  PROVE  GroupInv'
  <1> USE DEF GroupInv, EventGroup!NoneMissed
  <1>1. CASE EventGroup!TimePasses(t)
    BY <1>1 DEF EventGroup!TimePasses, EventGroup!Expire
  <1>2. CASE EventGroup!Return(t)
    BY <1>2 DEF EventGroup!Return, EventGroup!Leave, EventGroup!Leaves
  <1>3. CASE EventGroup!ReturnLate(t)
    <2>1. /\ groupPc[t] = "expired"
          /\ groupPc' = [groupPc EXCEPT ![t] = "out"]
          /\ groupCall' = [groupCall EXCEPT ![t] = EventGroup!NoCall]
          /\ uxEventBits' \in SUBSET uxEventBits
          /\ \/ UNCHANGED left
             \/ groupCall[t].kind = "sync" /\ left' = [left EXCEPT ![t] = @ + 1]
          /\ UNCHANGED <<item, entered>>
      BY <1>3 DEF EventGroup!ReturnLate, EventGroup!Leaves
    <2>2. EventGroup!NoneMissed'
      BY <2>1, FewerBits
    <2>3. QED
      BY <2>1, <2>2
  <1>4. QED
    BY <1>1, <1>2, <1>3

\* The tasks that come to a rendezvous wait until all have come.
LEMMA GroupMeets ==
  ASSUME GroupInv, MeetInv, EventGroup!OnlyMeet, UNCHANGED group,
         NEW t \in GroupTasks, groupPc[t] = "out", NEW c \in group[t],
         EventGroup!xEventGroupSync(t, c)
  PROVE  MeetInv'
  <1> DEFINE bits == uxEventBits \union c.sets
  <1>1. /\ c.for = Bits /\ c.sets = EventGroup!Own(t) /\ c.wait = "forever"
        /\ \A u \in EventGroup!Waiting :
             /\ u \in GroupTasks \ {t}
             /\ EventGroup!prvTestWaitCondition(groupCall[u], bits) <=> Bits \subseteq bits
    <2>1. \A u \in EventGroup!Waiting : u \in GroupTasks \ {t} /\ groupCall[u] \in group[u]
      BY DEF EventGroup!Waiting, GroupInv
    <2>2. \A u \in EventGroup!Waiting : groupCall[u].for = Bits /\ groupCall[u].all
      BY <2>1, CallsAreCalls DEF EventGroup!OnlyMeet, GroupInv
    <2>3. c.for = Bits /\ c.sets = EventGroup!Own(t) /\ c.wait = "forever"
      BY DEF EventGroup!OnlyMeet
    <2>4. QED
      BY <2>1, <2>2, <2>3 DEF EventGroup!prvTestWaitCondition
  <1>2. /\ EventGroup!Wake(bits, [groupPc EXCEPT ![t] =
                             IF ~(Bits \subseteq bits) THEN "waiting" ELSE "out"])
        /\ uxEventBits' = bits \ (EventGroup!Cleared(bits)
                                   \union IF Bits \subseteq bits THEN Bits ELSE {})
        /\ entered' = [entered EXCEPT ![t] = @ + 1]
        /\ IF Bits \subseteq bits THEN left' = [left EXCEPT ![t] = @ + 1] ELSE UNCHANGED left
    BY <1>1 DEF EventGroup!xEventGroupSync, EventGroup!Enters, EventGroup!Leaves
  <1>3. bits = UNION {EventGroup!Own(u) : u \in EventGroup!Waiting \union {t}}
    BY <1>1 DEF MeetInv
  <1>4. \A u \in GroupTasks : EventGroup!Own(u)' = EventGroup!Own(u)
    BY DEF EventGroup!Own
  <1>5. \A u \in GroupTasks : entered[u] \in Nat /\ left[u] \in Nat
    BY GroupBound DEF GroupInv
  <1>6. CASE Bits \subseteq bits
    <2>1. EventGroup!Waiting = GroupTasks \ {t}
      <3>1. SUFFICES ASSUME NEW u \in GroupTasks \ {t}, u \notin EventGroup!Waiting
                     PROVE  FALSE
        BY <1>1
      <3>2. \E b : b \in EventGroup!Own(u) /\ b \in Bits
        BY DEF EventGroup!OnlyMeet
      <3>3. PICK b \in EventGroup!Own(u) : b \in bits
        BY <1>6, <3>2
      <3>4. PICK w \in EventGroup!Waiting \union {t} : b \in EventGroup!Own(w)
        BY <1>3, <3>3
      <3>5. w # u /\ w \in GroupTasks
        BY <1>1, <3>1, <3>4
      <3>6. QED
        BY <3>3, <3>4, <3>5 DEF EventGroup!OnlyMeet
    <2>2. EventGroup!Woken(bits) = GroupTasks \ {t}
      BY <1>1, <1>6, <2>1 DEF EventGroup!Woken
    <2>3. \A u \in GroupTasks : groupPc'[u] = IF u = t THEN "out" ELSE "woken"
      BY <1>2, <1>6, <2>2 DEF EventGroup!Wake, GroupInv
    <2>4. uxEventBits' = {}
      <3>1. bits \subseteq Bits
        BY <1>1, CallsAreCalls DEF GroupInv
      <3>2. QED
        BY <1>2, <1>6, <3>1
    <2>5. EventGroup!Waiting' = {}
      BY <2>3 DEF EventGroup!Waiting
    <2>6. uxEventBits' = (UNION {EventGroup!Own(u) : u \in EventGroup!Waiting})'
      BY <2>4, <2>5
    <2>7. \A u \in GroupTasks \ {t} : groupPc[u] = "waiting"
      BY <2>1 DEF EventGroup!Waiting
    <2>8. \A u \in GroupTasks : Met(u)' = Met(u) + 1
      BY <1>2, <1>5, <2>3, <2>7 DEF Met, GroupInv
    <2>9. \A u \in GroupTasks :
            left'[u] = entered'[u] - (IF groupPc'[u] = "out" THEN 0 ELSE 1)
      BY <1>2, <1>5, <1>6, <2>3, <2>7 DEF MeetInv, GroupInv
    <2>10. QED
      BY <2>3, <2>6, <2>8, <2>9 DEF MeetInv
  <1>7. CASE ~(Bits \subseteq bits)
    <2>1. EventGroup!Woken(bits) = {}
      BY <1>1, <1>7 DEF EventGroup!Woken
    <2>2. \A u \in GroupTasks : groupPc'[u] = IF u = t THEN "waiting" ELSE groupPc[u]
      BY <1>2, <1>7, <2>1 DEF EventGroup!Wake, GroupInv
    <2>3. EventGroup!Cleared(bits) = {}
      BY <2>1 DEF EventGroup!Cleared
    <2>4. EventGroup!Waiting' = EventGroup!Waiting \union {t}
      BY <2>2 DEF EventGroup!Waiting
    <2>5. uxEventBits' = (UNION {EventGroup!Own(u) : u \in EventGroup!Waiting})'
      <3>1. uxEventBits' = UNION {EventGroup!Own(u) : u \in EventGroup!Waiting \union {t}}
        BY <1>2, <1>3, <1>7, <2>3
      <3>2. QED
        BY <1>1, <1>4, <2>4, <3>1
    <2>6. \A u \in GroupTasks : Met(u)' = Met(u)
      BY <1>2, <1>5, <2>2 DEF Met, GroupInv
    <2>7. \A u \in GroupTasks :
            left'[u] = entered'[u] - (IF groupPc'[u] = "out" THEN 0 ELSE 1)
      BY <1>2, <1>5, <1>7, <2>2 DEF MeetInv, GroupInv
    <2>8. QED
      BY <2>2, <2>5, <2>6, <2>7 DEF MeetInv
  <1>8. QED
    BY <1>6, <1>7

LEMMA GroupStep ==
  ASSUME GroupInv /\ (EventGroup!OnlyMeet => MeetInv), [EventGroup!Next]_(EventGroup!vars)
  PROVE  (GroupInv /\ (EventGroup!OnlyMeet => MeetInv))'
  <1>1. UNCHANGED group
    BY DEF EventGroup!Next, EventGroup!vars
  <1>2. EventGroup!OnlyMeet' => EventGroup!OnlyMeet
    <2>1. \A t \in GroupTasks : EventGroup!Own(t)' = EventGroup!Own(t)
      BY <1>1 DEF EventGroup!Own
    <2>2. (UNION {EventGroup!Own(t) : t \in GroupTasks})'
            = UNION {EventGroup!Own(t) : t \in GroupTasks}
      BY <2>1
    <2>3. QED
      BY <1>1, <2>1, <2>2 DEF EventGroup!OnlyMeet
  <1>3. CASE UNCHANGED EventGroup!vars
    BY <1>2, <1>3
    DEF EventGroup!vars, GroupInv, EventGroup!NoneMissed, MeetInv, Met, EventGroup!Waiting,
        EventGroup!Own
  <1>4. ASSUME NEW t \in GroupTasks, groupPc[t] = "out", NEW c \in group[t],
               \/ EventGroup!xEventGroupSetBits(t, c) \/ EventGroup!xEventGroupClearBits(t, c)
               \/ EventGroup!xEventGroupSync(t, c) \/ EventGroup!xEventGroupWaitBits(t, c)
        PROVE  (GroupInv /\ (EventGroup!OnlyMeet => MeetInv))'
    <2>1. EventGroup!OnlyMeet => c.kind = "sync"
      BY <1>4 DEF EventGroup!OnlyMeet
    <2>2. EventGroup!OnlyMeet => EventGroup!xEventGroupSync(t, c)
      BY <1>4, <2>1
      DEF EventGroup!xEventGroupSetBits, EventGroup!xEventGroupClearBits,
          EventGroup!xEventGroupWaitBits
    <2>3. QED
      BY <1>1, <1>2, <1>4, <2>2, GroupCalls, GroupMeets
  <1>5. ASSUME NEW t \in GroupTasks,
               EventGroup!TimePasses(t) \/ EventGroup!Return(t) \/ EventGroup!ReturnLate(t)
        PROVE  (GroupInv /\ (EventGroup!OnlyMeet => MeetInv))'
    <2>1. GroupInv'
      BY <1>1, <1>5, GroupReturns
    <2>2. ASSUME EventGroup!OnlyMeet PROVE MeetInv'
      <3>1. groupPc[t] # "expired" /\ MeetInv
        BY <2>2 DEF MeetInv
      <3>2. groupPc[t] # "out" => groupCall[t].kind = "sync" /\ groupCall[t].wait = "forever"
        BY <2>2 DEF EventGroup!OnlyMeet, GroupInv
      <3>3. EventGroup!Return(t)
        BY <1>5, <3>1, <3>2
        DEF EventGroup!TimePasses, EventGroup!Expire, EventGroup!ReturnLate
      <3>4. /\ groupPc[t] = "woken" /\ groupPc' = [groupPc EXCEPT ![t] = "out"]
            /\ left' = [left EXCEPT ![t] = @ + 1]
            /\ UNCHANGED <<uxEventBits, entered>>
        BY <3>2, <3>3 DEF EventGroup!Return, EventGroup!Leave, EventGroup!Leaves
      <3>5. EventGroup!Waiting' = EventGroup!Waiting
        BY <3>4 DEF EventGroup!Waiting, GroupInv
      <3>6. (UNION {EventGroup!Own(u) : u \in EventGroup!Waiting})'
              = UNION {EventGroup!Own(u) : u \in EventGroup!Waiting}
        BY <1>1, <3>5 DEF EventGroup!Own
      <3>7. \A u \in GroupTasks : Met(u)' = Met(u)
        BY <3>4 DEF Met, GroupInv
      <3>8. \A u \in GroupTasks : entered[u] \in Nat /\ left[u] \in Nat
        BY GroupBound DEF GroupInv
      <3>9. \A u \in GroupTasks :
              /\ groupPc'[u] \in {"out", "waiting", "woken"}
              /\ left'[u] = entered'[u] - (IF groupPc'[u] = "out" THEN 0 ELSE 1)
        BY <3>1, <3>4, <3>8 DEF MeetInv, GroupInv
      <3>10. QED
        BY <3>1, <3>4, <3>6, <3>7, <3>9 DEF MeetInv
    <2>3. QED
      BY <1>2, <2>1, <2>2
  <1>6. CASE EventGroup!RoundsOver
    BY <1>3, <1>6 DEF EventGroup!RoundsOver
  <1>7. QED
    BY <1>3, <1>4, <1>5, <1>6 DEF EventGroup!Next

\* What has been counted is what Rendezvous asks for.
LEMMA GroupMet ==
  ASSUME GroupInv, EventGroup!OnlyMeet => MeetInv
  PROVE  EventGroup!Rendezvous
  <1>1. ASSUME EventGroup!OnlyMeet
        PROVE  /\ \A t, u \in GroupTasks : left[t] <= entered[u]
               /\ \A t \in EventGroup!Waiting : \E u \in GroupTasks : entered[u] < entered[t]
    <2>1. /\ \A u \in GroupTasks : entered[u] \in Nat /\ left[u] \in Nat
          /\ \A t, u \in GroupTasks : Met(t) = Met(u)
      BY <1>1, GroupBound DEF GroupInv, MeetInv
    <2>2. \A t \in GroupTasks : left[t] <= Met(t) /\ Met(t) <= entered[t]
      BY <1>1, <2>1 DEF Met, MeetInv
    <2>3. ASSUME NEW t \in GroupTasks, NEW u \in GroupTasks PROVE left[t] <= entered[u]
      <3>1. left[t] <= Met(t) /\ Met(t) = Met(u) /\ Met(u) <= entered[u]
        BY <2>1, <2>2
      <3>2. Met(u) \in Int
        BY <2>1 DEF Met
      <3>3. QED
        BY <2>1, <3>1, <3>2
    <2>4. ASSUME NEW t \in EventGroup!Waiting
          PROVE  \E u \in GroupTasks : entered[u] < entered[t]
      <3>1. t \in GroupTasks /\ groupPc[t] = "waiting" /\ groupCall[t] \in group[t]
        BY DEF EventGroup!Waiting, GroupInv
      <3>2. groupCall[t].for = Bits /\ groupCall[t].all
        BY <1>1, <3>1, CallsAreCalls DEF EventGroup!OnlyMeet, GroupInv
      <3>3. ~(Bits \subseteq uxEventBits)
        BY <3>1, <3>2 DEF GroupInv, EventGroup!NoneMissed, EventGroup!prvTestWaitCondition
      <3>4. EventGroup!Waiting # GroupTasks
        BY <1>1, <3>3 DEF MeetInv, EventGroup!OnlyMeet
      <3>5. PICK u \in GroupTasks : groupPc[u] # "waiting"
        BY <3>4 DEF EventGroup!Waiting
      <3>6. Met(t) = Met(u)
        BY <2>1, <3>1
      <3>7. entered[u] < entered[t]
        BY <2>1, <3>1, <3>5, <3>6 DEF Met
      <3>8. QED
        BY <3>7
    <2>5. QED
      BY <2>3, <2>4
  <1>2. QED
    BY <1>1 DEF EventGroup!Rendezvous, GroupInv

\* No task misses the bits it waits for; where tasks only meet, nobody leaves the
\* rendezvous before all have come to it, however fast some come back, and nobody waits
\* for those who have all come (xEventGroupSync).
THEOREM RendezvousIsKept == servicesSpec => []Rendezvous
  <1>1. GroupInv /\ (EventGroup!OnlyMeet => MeetInv) => Rendezvous
    BY GroupMet DEF Rendezvous
  <1>2. QED
    BY <1>1, GroupInit, GroupStep, EachAlone, PTL DEF EventGroup!Spec

-----------------------------------------------------------------------------
(* The timers of timeouts.c. *)

TimerRecords == [time : 0 .. Round - 1, h : {"arp", "tcp", "user"}, left : Int]

\* No timer is further away than this.
Longest == Timers!LWIP_MAX_TIMEOUT + 1 - ArpInterval - Slow

\* The time of a timer is that of the clock n and what is left; it is at most so late.
TimerKnown(timer, n, floor) ==
    /\ timer.time = (n + timer.left) % Round
    /\ timer.left >= floor /\ timer.left <= Longest
    /\ timer.h = "arp" => timer.left <= ArpInterval

InOrderOfTime(timers) ==
    \A i, j \in 1 .. Len(timers) : i < j => timers[i].left <= timers[j].left

TimersKnown(timers, n, floor) ==
    /\ timers \in Seq(TimerRecords)
    /\ \A i \in 1 .. Len(timers) : TimerKnown(timers[i], n, floor)
    /\ InOrderOfTime(timers)

Count(timers, h) == Cardinality({i \in 1 .. Len(timers) : timers[i].h = h})

\* How late a timer may be: asleep, tcpip_thread has not more to sleep than the ARP timer
\* takes; awake, it has been kept from sleeping for so long.
Floor == IF thread = "asleep" THEN sleeptime + 1 - ArpInterval ELSE 1 - ArpInterval - awake

PoolKnown(timers, active) ==
    /\ Count(timers, "arp") = 1
    /\ Count(timers, "tcp") = IF active THEN 1 ELSE 0
    /\ Count(timers, "user") <= UserTimers

\* When sys_check_timeouts looked at the clock.
ThreadKnown ==
    /\ thread \in {"fetch", "asleep", "message", "timeout", "check"}
    /\ sleeptime \in Nat /\ awake \in 0 .. Slow
    /\ thread = "asleep" => sleeptime <= ArpInterval /\ awake = 0
    /\ thread = "check" => \E c \in 0 .. awake : checked = (now - c) % Round

\* The list, the TCP timer on it if it is thought to be, and for the sake of whom.
TimersListed(timers, active, pcbs, n, floor) ==
    /\ TimersKnown(timers, n, floor)
    /\ PoolKnown(timers, active)
    /\ active \in BOOLEAN /\ pcbs \in BOOLEAN
    /\ pcbs => active

TimersInv ==
    /\ now \in 0 .. Round - 1
    /\ TimersListed(next_timeout, tcpip_tcp_timer_active, tcp_pcbs, now, Floor)
    /\ ThreadKnown
    /\ early \in Int /\ early <= 0

\* What is assumed of the clock and of the intervals.
LEMMA TimerBounds ==
  /\ Round \in Nat \ {0} /\ Slow \in Nat /\ TimerPool \in Nat /\ UserTimers \in Nat
  /\ UserTimers + 2 <= TimerPool
  /\ Timers!LWIP_MAX_TIMEOUT \in Nat /\ 2 * Timers!LWIP_MAX_TIMEOUT + 2 <= Round
  /\ ArpInterval \in Nat \ {0} /\ Longest \in Int
  /\ \A d \in Delays \union {TcpInterval, ArpInterval} : d \in Nat \ {0} /\ d <= Longest
  <1>1. Timers!TimeoutsAssumption
    BY ServicesAssumption DEF ServicesAssumption
  <1>2. /\ Round \in Nat /\ Slow \in Nat /\ TimerPool \in Nat /\ UserTimers \in Nat
        /\ UserTimers + 2 <= TimerPool
        /\ \A d \in Delays \union {TcpInterval, ArpInterval} :
             /\ d \in Nat \ {0} /\ 4 * d <= Round
             /\ d + ArpInterval + Slow <= Timers!LWIP_MAX_TIMEOUT + 1
    BY <1>1 DEF Timers!TimeoutsAssumption
  <1>3. ArpInterval \in Nat \ {0} /\ 4 * ArpInterval <= Round
    BY <1>2
  <1>4. Round \in Nat /\ Round >= 4
    BY <1>2, <1>3
  <1>5. PICK q \in Nat : q = Round \div 2 /\ 2 * q <= Round /\ q >= 1
    BY <1>4
  <1>6. Timers!LWIP_MAX_TIMEOUT = q - 1
    BY <1>5 DEF Timers!LWIP_MAX_TIMEOUT
  <1>7. QED
    BY <1>2, <1>3, <1>4, <1>5, <1>6 DEF Longest

\* Times that are not too far apart are compared rightly, however the clock wraps.
LEMMA Compared ==
  ASSUME NEW n \in Int, NEW a \in Int, NEW b \in Int,
         a - b <= Timers!LWIP_MAX_TIMEOUT, b - a <= Timers!LWIP_MAX_TIMEOUT
  PROVE  /\ Timers!TIME_LESS_THAN((n + a) % Round, (n + b) % Round) <=> a < b
         /\ (n + a) % Round = (n + b) % Round <=> a = b
  <1>1. PICK max \in Nat : max = Timers!LWIP_MAX_TIMEOUT /\ 2 * max + 2 <= Round
    BY TimerBounds
  <1>2. Round \in Nat \ {0}
    BY TimerBounds
  <1>3. PICK d \in Int : d = a - b /\ d <= max /\ d >= -max
    BY <1>1
  <1>4. d < Round /\ d >= -Round
    BY <1>1, <1>2, <1>3
  <1>5. d % Round = IF d >= 0 THEN d ELSE d + Round
    BY <1>2, <1>4, SmallRemainder
  <1> DEFINE x == (n + a) % Round
             y == (n + b) % Round
  <1>6. (x - y) % Round = d % Round
    <2>1. PICK u \in Int, v \in Int : u = n + a /\ v = n + b
      OBVIOUS
    <2>2. u - v = d
      BY <1>3, <2>1
    <2>3. ((u % Round) - (v % Round)) % Round = (u - v) % Round
      BY <1>2, RemainderOfSum
    <2>4. QED
      BY <2>1, <2>2, <2>3
  <1>7. (x - y) % Round > max <=> d < 0
    BY <1>1, <1>2, <1>3, <1>5, <1>6
  <1>8. x = y <=> d = 0
    <2>1. ASSUME x = y PROVE d = 0
      <3>1. x \in 0 .. Round - 1
        <4>1. n + a \in Int
          OBVIOUS
        <4>2. QED
          BY <1>2, <4>1, Quotient
      <3>2. x - y = 0
        BY <1>2, <2>1, <3>1
      <3>3. 0 % Round = 0
        <4>1. 0 \in Int /\ 0 < Round /\ 0 >= -Round
          BY <1>2
        <4>2. QED
          BY <1>2, <4>1, SmallRemainder
      <3>4. d % Round = 0
        BY <1>6, <3>2, <3>3
      <3>5. QED
        BY <1>1, <1>2, <1>3, <1>5, <3>4
    <2>2. ASSUME d = 0 PROVE x = y
      <3>1. n + a = n + b
        BY <1>3, <2>2
      <3>2. QED
        BY <3>1
    <2>3. QED
      BY <2>1, <2>2
  <1>9. Timers!TIME_LESS_THAN(x, y) <=> d < 0
    BY <1>1, <1>7 DEF Timers!TIME_LESS_THAN
  <1> HIDE DEF x, y
  <1>10. QED
    BY <1>3, <1>8, <1>9 DEF x, y

\* The module of the timers has operators of its own on lists, which are these.
LEMMA TimersLists ==
  /\ \A queue, p, e : Timers!InsertAt(queue, p, e) = InsertAt(queue, p, e)
  /\ \A queue, p : Timers!RemoveAt(queue, p) = RemoveAt(queue, p)
  /\ \A S : Timers!Cardinality(S) = Cardinality(S)
  BY DEF Timers!InsertAt, Timers!RemoveAt, Timers!Cardinality, InsertAt, RemoveAt, Cardinality

\* Where the timers with one handler are.
Places(timers, h) == {i \in 1 .. Len(timers) : timers[i].h = h}

\* There are finitely many of them.
LEMMA PlacesFinite ==
  ASSUME NEW timers \in Seq(TimerRecords), NEW h
  PROVE  IsFiniteSet(Places(timers, h)) /\ Count(timers, h) = Cardinality(Places(timers, h))
         /\ Count(timers, h) \in Nat
  <1>1. Len(timers) \in Nat
    BY LenProperties
  <1>2. IsFiniteSet(1 .. Len(timers))
    BY <1>1, FS_Interval
  <1>3. IsFiniteSet(Places(timers, h))
    BY <1>2, FS_Subset DEF Places
  <1>4. QED
    BY <1>3, FS_CardinalityType DEF Count, Places

\* One more timer is one more with its handler.
LEMMA OneMore ==
  ASSUME NEW timers \in Seq(TimerRecords), NEW longer, NEW e \in TimerRecords,
         NEW p \in 1 .. Len(timers) + 1, Gains(TimerRecords, longer, timers, e, p), NEW h
  PROVE  Count(longer, h) = Count(timers, h) + IF e.h = h THEN 1 ELSE 0
  <1>1. Len(timers) \in Nat
    BY LenProperties
  <1>2. /\ longer \in Seq(TimerRecords) /\ Len(longer) = Len(timers) + 1
        /\ \A i \in 1 .. Len(timers) + 1 :
             longer[i] = IF i < p THEN timers[i] ELSE IF i = p THEN e ELSE timers[i - 1]
    BY DEF Gains
  <1> DEFINE S == Places(timers, h)
             T == Places(longer, h) \ {p}
             at(i) == IF i < p THEN i ELSE i + 1
             f == [i \in S |-> at(i)]
  <1>3. ASSUME NEW i \in S PROVE f[i] \in T
    <2>1. i \in 1 .. Len(timers) /\ timers[i].h = h
      BY DEF Places
    <2>2. at(i) \in 1 .. Len(timers) + 1 /\ at(i) # p /\ longer[at(i)] = timers[i]
      BY <1>1, <1>2, <2>1
    <2>3. QED
      BY <1>2, <2>1, <2>2 DEF Places
  <1>4. ASSUME NEW i \in S, NEW j \in S, f[i] = f[j] PROVE i = j
    <2>1. i \in 1 .. Len(timers) /\ j \in 1 .. Len(timers)
      BY DEF Places
    <2>2. at(i) = at(j)
      BY <1>4
    <2>3. QED
      BY <1>1, <2>1, <2>2
  <1>5. ASSUME NEW k \in T PROVE \E i \in S : f[i] = k
    <2>1. k \in 1 .. Len(timers) + 1 /\ k # p /\ longer[k].h = h
      BY <1>2 DEF Places
    <2>2. CASE k < p
      <3>1. k \in 1 .. Len(timers) /\ longer[k] = timers[k] /\ at(k) = k
        BY <1>1, <1>2, <2>1, <2>2
      <3>2. k \in S
        BY <2>1, <3>1 DEF Places
      <3>3. QED
        BY <3>1, <3>2
    <2>3. CASE k > p
      <3>1. k - 1 \in 1 .. Len(timers) /\ longer[k] = timers[k - 1] /\ at(k - 1) = k
        BY <1>1, <1>2, <2>1, <2>3
      <3>2. k - 1 \in S
        BY <2>1, <3>1 DEF Places
      <3>3. QED
        BY <3>1, <3>2
    <2>4. QED
      BY <1>1, <2>1, <2>2, <2>3
  <1>6. ExistsBijection(S, T)
    <2>1. f \in [S -> T]
      BY <1>3
    <2>2. f \in Bijection(S, T)
      BY <1>4, <1>5, <2>1 DEF Bijection, Injection, Surjection, IsInjective
    <2>3. QED
      BY <2>2 DEF ExistsBijection
  <1>7. Cardinality(T) = Count(timers, h) /\ IsFiniteSet(T)
    BY <1>6, PlacesFinite, FS_Bijection
  <1>8. p \in Places(longer, h) <=> e.h = h
    <2>1. p \in 1 .. Len(longer) /\ longer[p] = e
      BY <1>1, <1>2
    <2>2. QED
      BY <2>1 DEF Places
  <1>9. Count(longer, h) = Cardinality(Places(longer, h)) /\ Count(longer, h) \in Nat
        /\ IsFiniteSet(Places(longer, h))
    BY <1>2, PlacesFinite
  <1> HIDE DEF f, S
  <1>10. Cardinality(T) = IF p \in Places(longer, h) THEN Cardinality(Places(longer, h)) - 1
                          ELSE Cardinality(Places(longer, h))
    BY <1>9, FS_RemoveElement
  <1> HIDE DEF T
  <1>11. Count(timers, h) \in Nat
    BY PlacesFinite
  <1>12. QED
    BY <1>7, <1>8, <1>9, <1>10, <1>11

\* Every timer has one of the three handlers.
LEMMA AllCounted ==
  ASSUME NEW timers \in Seq(TimerRecords)
  PROVE  /\ Len(timers) = Count(timers, "arp") + Count(timers, "tcp") + Count(timers, "user")
         /\ \A h : Count(timers, h) \in Nat
         /\ \A i \in 1 .. Len(timers) : Count(timers, timers[i].h) >= 1
  <1> DEFINE A == Places(timers, "arp")
             B == Places(timers, "tcp")
             C == Places(timers, "user")
  <1>1. Len(timers) \in Nat /\ \A i \in 1 .. Len(timers) : timers[i] \in TimerRecords
    BY LenProperties, ElementOfSeq
  <1>2. \A i \in 1 .. Len(timers) : timers[i].h \in {"arp", "tcp", "user"}
    BY <1>1 DEF TimerRecords
  <1>3. A \cap B = {} /\ (A \cup B) \cap C = {} /\ (A \cup B) \cup C = 1 .. Len(timers)
    BY <1>2 DEF Places
  <1>4. IsFiniteSet(A) /\ IsFiniteSet(B) /\ IsFiniteSet(C)
    BY PlacesFinite
  <1>5. /\ Cardinality(A) = Count(timers, "arp") /\ Cardinality(B) = Count(timers, "tcp")
        /\ Cardinality(C) = Count(timers, "user") /\ \A h : Count(timers, h) \in Nat
    BY PlacesFinite
  <1>6. Cardinality(A) \in Nat /\ Cardinality(B) \in Nat /\ Cardinality(C) \in Nat
    BY <1>4, FS_CardinalityType
  <1>7. Cardinality({}) = 0
    BY FS_EmptySet
  <1> HIDE DEF A, B, C
  <1>8. IsFiniteSet(A \cup B) /\ Cardinality(A \cup B) = Cardinality(A) + Cardinality(B)
    <2>1. IsFiniteSet(A \cup B)
          /\ Cardinality(A \cup B) = Cardinality(A) + Cardinality(B) - Cardinality(A \cap B)
      BY <1>4, FS_Union
    <2>2. Cardinality(A \cap B) = 0
      BY <1>3, <1>7, Zenon
    <2>3. QED
      BY <1>6, <2>1, <2>2
  <1>9. Cardinality(1 .. Len(timers)) = Cardinality(A \cup B) + Cardinality(C)
    <2>1. Cardinality((A \cup B) \cup C)
            = Cardinality(A \cup B) + Cardinality(C) - Cardinality((A \cup B) \cap C)
      BY <1>4, <1>8, FS_Union
    <2>2. /\ Cardinality((A \cup B) \cap C) = 0
          /\ Cardinality((A \cup B) \cup C) = Cardinality(1 .. Len(timers))
      BY <1>3, <1>7, Zenon
    <2>3. QED
      BY <1>6, <1>8, <2>1, <2>2
  <1>10. Cardinality(1 .. Len(timers)) = Len(timers)
    <2>1. PICK n \in Nat : n = Len(timers)
      BY <1>1
    <2>2. Cardinality(1 .. n) = IF 1 > n THEN 0 ELSE n - 1 + 1
      BY FS_Interval
    <2>3. QED
      BY <2>1, <2>2
  <1>11. ASSUME NEW i \in 1 .. Len(timers) PROVE Count(timers, timers[i].h) >= 1
    <2>1. i \in Places(timers, timers[i].h)
      BY DEF Places
    <2>2. Cardinality(Places(timers, timers[i].h)) # 0
      BY <2>1, PlacesFinite, FS_EmptySet
    <2>3. QED
      BY <2>2, PlacesFinite
  <1>12. QED
    BY <1>5, <1>8, <1>9, <1>10, <1>11

\* A list is what is left with what was taken.
LEMMA TakenBack ==
  ASSUME NEW S, NEW queue \in Seq(S), NEW p \in 1 .. Len(queue)
  PROVE  /\ Gains(S, queue, RemoveAt(queue, p), queue[p], p) /\ RemoveAt(queue, p) \in Seq(S)
         /\ Len(queue) = Len(RemoveAt(queue, p)) + 1
         /\ p = 1 => RemoveAt(queue, p) = Tail(queue)
  <1> DEFINE shorter == RemoveAt(queue, p)
  <1>1. Len(queue) \in Nat
    BY LenProperties
  <1>2. /\ shorter \in Seq(S) /\ Len(shorter) = Len(queue) - 1
        /\ \A i \in 1 .. Len(queue) - 1 : shorter[i] = IF i < p THEN queue[i] ELSE queue[i + 1]
    BY Removed
  <1>3. ASSUME p = 1 PROVE shorter = Tail(queue)
    <2>1. queue # << >>
      BY <1>1
    <2>2. Tail(queue) \in Seq(S) /\ Len(Tail(queue)) = Len(queue) - 1
          /\ \A i \in 1 .. Len(Tail(queue)) : Tail(queue)[i] = queue[i + 1]
      BY <2>1, HeadTailProperties
    <2>3. \A i \in 1 .. Len(shorter) : shorter[i] = Tail(queue)[i]
      BY <1>1, <1>2, <1>3, <2>2
    <2> HIDE DEF shorter
    <2>4. QED
      BY <1>2, <2>2, <2>3, SeqEqual
  <1> HIDE DEF shorter
  <1>4. ASSUME NEW i \in 1 .. Len(shorter) + 1
        PROVE  queue[i] = IF i < p THEN shorter[i] ELSE IF i = p THEN queue[p] ELSE shorter[i - 1]
    <2>1. CASE i < p
      BY <1>1, <1>2, <2>1
    <2>2. CASE i > p
      <3>1. i - 1 \in 1 .. Len(queue) - 1 /\ ~(i - 1 < p) /\ (i - 1) + 1 = i
        BY <1>1, <1>2, <2>2
      <3>2. QED
        BY <1>2, <2>2, <3>1
    <2>3. QED
      BY <2>1, <2>2
  <1>5. Gains(S, queue, shorter, queue[p], p)
    BY <1>1, <1>2, <1>4 DEF Gains
  <1>6. QED
    BY <1>1, <1>2, <1>3, <1>5 DEF shorter

\* Timers that are known can be compared by what is left of them.
LEMMA TimersCompared ==
  ASSUME NEW n \in Int, NEW floor \in Int, floor >= 1 - ArpInterval - Slow,
         NEW e \in TimerRecords, NEW f \in TimerRecords,
         TimerKnown(e, n, floor), TimerKnown(f, n, floor)
  PROVE  /\ Timers!TIME_LESS_THAN(e.time, f.time) <=> e.left < f.left
         /\ e.left \in Int /\ f.left \in Int
  <1>1. PICK a \in Int, b \in Int : a = e.left /\ b = f.left
    BY DEF TimerRecords
  <1>2. /\ e.time = (n + a) % Round /\ a >= floor /\ a <= Longest
        /\ f.time = (n + b) % Round /\ b >= floor /\ b <= Longest
    BY <1>1 DEF TimerKnown
  <1>3. /\ Slow \in Nat /\ ArpInterval \in Nat /\ Timers!LWIP_MAX_TIMEOUT \in Nat
        /\ Longest = Timers!LWIP_MAX_TIMEOUT + 1 - ArpInterval - Slow
    BY TimerBounds DEF Longest
  <1>4. a - b <= Timers!LWIP_MAX_TIMEOUT /\ b - a <= Timers!LWIP_MAX_TIMEOUT
    BY <1>2, <1>3
  <1>5. Timers!TIME_LESS_THAN((n + a) % Round, (n + b) % Round) <=> a < b
    BY <1>4, Compared
  <1>6. QED
    BY <1>1, <1>2, <1>5

\* sys_timeout_abs keeps the queue in order.
LEMMA TimerInserted ==
  ASSUME NEW n \in Int, NEW floor \in Int, floor >= 1 - ArpInterval - Slow,
         NEW timers, TimersKnown(timers, n, floor), Len(timers) < TimerPool,
         NEW e \in TimerRecords, TimerKnown(e, n, floor)
  PROVE  /\ TimersKnown(Timers!sys_timeout_abs(timers, e), n, floor)
         /\ \A h : Count(Timers!sys_timeout_abs(timers, e), h)
                     = Count(timers, h) + IF e.h = h THEN 1 ELSE 0
  <1>1. /\ timers \in Seq(TimerRecords) /\ InOrderOfTime(timers)
        /\ \A i \in 1 .. Len(timers) : TimerKnown(timers[i], n, floor)
    BY DEF TimersKnown
  <1>2. /\ Len(timers) \in Nat /\ DOMAIN timers = 1 .. Len(timers) /\ TimerPool \in Nat
        /\ \A i \in 1 .. Len(timers) : timers[i] \in TimerRecords
    BY <1>1, LenProperties, ElementOfSeq, TimerBounds
  <1>3. /\ e.left \in Int
        /\ \A i \in 1 .. Len(timers) :
             /\ timers[i].left \in Int
             /\ Timers!TIME_LESS_THAN(e.time, timers[i].time) <=> e.left < timers[i].left
    <2>1. e.left \in Int
      BY DEF TimerRecords
    <2>2. QED
      BY <1>1, <1>2, <2>1, TimersCompared
  <1> DEFINE later == {i \in DOMAIN timers : Timers!TIME_LESS_THAN(e.time, timers[i].time)}
             Placed(i) == (i \in later \/ i = Len(timers) + 1) /\ \A j \in later : i <= j
             place == CHOOSE i \in 1 .. Len(timers) + 1 : Placed(i)
             longer == InsertAt(timers, place, e)
  <1>4. Timers!sys_timeout_abs(timers, e) = longer
    <2>1. ~(Len(timers) >= TimerPool)
      BY <1>2
    <2>2. QED
      BY <2>1, TimersLists DEF Timers!sys_timeout_abs
  <1>5. /\ place \in 1 .. Len(timers) + 1
        /\ \A i \in 1 .. Len(timers) : i < place => timers[i].left <= e.left
        /\ place <= Len(timers) => e.left < timers[place].left
    <2>1. /\ later \in SUBSET Nat
          /\ \A i \in 1 .. Len(timers) : i \in later <=> e.left < timers[i].left
          /\ \A i \in later : i \in 1 .. Len(timers)
      BY <1>2, <1>3
    <2> HIDE DEF later
    <2>2. \E i \in 1 .. Len(timers) + 1 : Placed(i)
      <3>1. CASE later = {}
        BY <1>2, <3>1
      <3>2. CASE later # {}
        <4>1. PICK i \in later : \A j \in later : i <= j
          BY <2>1, <3>2, Least
        <4>2. i \in 1 .. Len(timers) + 1
          BY <1>2, <2>1, <4>1
        <4>3. Placed(i)
          BY <4>1
        <4> HIDE DEF Placed
        <4>4. QED
          BY <4>2, <4>3
      <3>3. QED
        BY <3>1, <3>2
    <2> HIDE DEF Placed
    <2>3. place \in 1 .. Len(timers) + 1 /\ Placed(place)
      BY <2>2
    <2> HIDE DEF place
    <2>4. (place \in later \/ place = Len(timers) + 1) /\ \A j \in later : place <= j
      BY <2>3 DEF Placed
    <2>5. ASSUME NEW i \in 1 .. Len(timers), i < place PROVE timers[i].left <= e.left
      <3>1. i \notin later
        BY <1>2, <2>3, <2>4, <2>5
      <3>2. ~(e.left < timers[i].left)
        BY <2>1, <3>1
      <3>3. e.left \in Int /\ timers[i].left \in Int
        BY <1>3
      <3>4. QED
        BY <3>2, <3>3
    <2>6. QED
      BY <1>2, <2>1, <2>3, <2>4, <2>5
  <1> HIDE DEF later, Placed, place
  <1>6. Gains(TimerRecords, longer, timers, e, place)
    BY <1>1, <1>5, Inserted
  <1> HIDE DEF longer
  <1>7. /\ longer \in Seq(TimerRecords) /\ Len(longer) = Len(timers) + 1
        /\ \A i \in 1 .. Len(longer) :
             \/ i \in 1 .. Len(timers) /\ i < place /\ longer[i] = timers[i]
             \/ i = place /\ longer[i] = e
             \/ i - 1 \in 1 .. Len(timers) /\ i - 1 >= place /\ longer[i] = timers[i - 1]
    <2>1. /\ longer \in Seq(TimerRecords) /\ Len(longer) = Len(timers) + 1
          /\ \A i \in 1 .. Len(timers) + 1 :
               longer[i] = IF i < place THEN timers[i] ELSE IF i = place THEN e ELSE timers[i - 1]
      BY <1>6 DEF Gains
    <2>2. QED
      BY <1>2, <1>5, <2>1
  <1>8. \A i, j \in 1 .. Len(timers) : i < j => timers[i].left <= timers[j].left
    BY <1>1 DEF InOrderOfTime
  <1>9. ASSUME NEW i \in 1 .. Len(longer), NEW j \in 1 .. Len(longer), i < j
        PROVE  longer[i].left <= longer[j].left
    <2>1. i \in Int /\ j \in Int /\ place \in Int
      BY <1>5, <1>7
    <2>2. ASSUME NEW k \in 1 .. Len(timers), k >= place PROVE e.left <= timers[k].left
      <3>1. place \in 1 .. Len(timers) /\ e.left < timers[place].left
        BY <1>2, <1>5, <2>2
      <3>2. timers[place].left <= timers[k].left
        <4>1. CASE k = place
          BY <1>3, <3>1, <4>1
        <4>2. CASE place < k
          BY <1>8, <3>1, <4>2
        <4>3. QED
          BY <2>1, <2>2, <4>1, <4>2
      <3>3. QED
        BY <1>3, <2>1, <3>1, <3>2
    <2>3. CASE i \in 1 .. Len(timers) /\ i < place /\ longer[i] = timers[i]
      <3>1. CASE j \in 1 .. Len(timers) /\ j < place /\ longer[j] = timers[j]
        BY <1>8, <1>9, <2>3, <3>1
      <3>2. CASE j = place /\ longer[j] = e
        BY <1>5, <2>3, <3>2
      <3>3. CASE j - 1 \in 1 .. Len(timers) /\ j - 1 >= place /\ longer[j] = timers[j - 1]
        <4>1. i < j - 1
          BY <2>1, <2>3, <3>3
        <4>2. QED
          BY <1>8, <2>3, <3>3, <4>1
      <3>4. QED
        BY <1>7, <3>1, <3>2, <3>3
    <2>4. CASE i = place /\ longer[i] = e
      <3>1. j - 1 \in 1 .. Len(timers) /\ j - 1 >= place /\ longer[j] = timers[j - 1]
        BY <1>7, <1>9, <2>1, <2>4
      <3>2. QED
        BY <2>2, <2>4, <3>1
    <2>5. CASE i - 1 \in 1 .. Len(timers) /\ i - 1 >= place /\ longer[i] = timers[i - 1]
      <3>1. j - 1 \in 1 .. Len(timers) /\ longer[j] = timers[j - 1]
        BY <1>7, <1>9, <2>1, <2>5
      <3>2. i - 1 < j - 1
        BY <1>9, <2>1
      <3>3. QED
        BY <1>8, <2>5, <3>1, <3>2
    <2>6. QED
      BY <1>7, <2>3, <2>4, <2>5
  <1>10. \A i \in 1 .. Len(longer) : TimerKnown(longer[i], n, floor)
    BY <1>1, <1>7
  <1>11. TimersKnown(longer, n, floor)
    BY <1>7, <1>9, <1>10 DEF TimersKnown, InOrderOfTime
  <1>12. ASSUME NEW h PROVE Count(longer, h) = Count(timers, h) + IF e.h = h THEN 1 ELSE 0
    BY <1>1, <1>5, <1>6, OneMore
  <1>13. QED
    BY <1>4, <1>11, <1>12

\* So does taking one off it.
LEMMA TimerTaken ==
  ASSUME NEW n, NEW floor, NEW timers, TimersKnown(timers, n, floor),
         NEW p \in 1 .. Len(timers)
  PROVE  /\ TimersKnown(RemoveAt(timers, p), n, floor)
         /\ Len(timers) = Len(RemoveAt(timers, p)) + 1
         /\ \A h : Count(timers, h)
                     = Count(RemoveAt(timers, p), h) + IF timers[p].h = h THEN 1 ELSE 0
  <1> DEFINE shorter == RemoveAt(timers, p)
  <1>1. /\ timers \in Seq(TimerRecords) /\ InOrderOfTime(timers)
        /\ \A i \in 1 .. Len(timers) : TimerKnown(timers[i], n, floor)
    BY DEF TimersKnown
  <1>2. Len(timers) \in Nat /\ timers[p] \in TimerRecords
    BY <1>1, LenProperties, ElementOfSeq
  <1>3. /\ Gains(TimerRecords, timers, shorter, timers[p], p) /\ shorter \in Seq(TimerRecords)
        /\ Len(timers) = Len(shorter) + 1
    BY <1>1, TakenBack
  <1>4. \A i \in 1 .. Len(shorter) : shorter[i] = IF i < p THEN timers[i] ELSE timers[i + 1]
    BY <1>1, <1>2, <1>3, Removed
  <1> HIDE DEF shorter
  <1>5. Len(shorter) \in Nat
    BY <1>3, LenProperties
  <1>6. InOrderOfTime(shorter)
    <2>1. ASSUME NEW i \in 1 .. Len(shorter), NEW j \in 1 .. Len(shorter), i < j
          PROVE  shorter[i].left <= shorter[j].left
      <3>1. PICK k \in 1 .. Len(timers) : shorter[i] = timers[k] /\ k = IF i < p THEN i ELSE i + 1
        BY <1>3, <1>4, <1>5
      <3>2. PICK l \in 1 .. Len(timers) : shorter[j] = timers[l] /\ l = IF j < p THEN j ELSE j + 1
        BY <1>3, <1>4, <1>5
      <3>3. k < l
        BY <1>2, <1>5, <2>1, <3>1, <3>2
      <3>4. QED
        BY <1>1, <3>1, <3>2, <3>3 DEF InOrderOfTime
    <2>2. QED
      BY <2>1 DEF InOrderOfTime
  <1>7. \A i \in 1 .. Len(shorter) : TimerKnown(shorter[i], n, floor)
    BY <1>1, <1>3, <1>4, <1>5
  <1>8. ASSUME NEW h PROVE Count(timers, h) = Count(shorter, h) + IF timers[p].h = h THEN 1 ELSE 0
    <2>1. p \in 1 .. Len(shorter) + 1
      BY <1>3
    <2>2. QED
      BY <1>2, <1>3, <2>1, OneMore
  <1>9. QED
    BY <1>3, <1>6, <1>7, <1>8 DEF TimersKnown, shorter

\* How late is possible is bounded by how long the thread is kept.
LEMMA FloorBounds ==
  ASSUME ThreadKnown
  PROVE  Floor \in Int /\ Floor >= 1 - ArpInterval - Slow /\ Floor <= 1
  <1>1. ArpInterval \in Nat \ {0} /\ Slow \in Nat
    BY TimerBounds
  <1>2. /\ sleeptime \in Nat /\ awake \in 0 .. Slow
        /\ thread = "asleep" => sleeptime <= ArpInterval /\ awake = 0
    BY DEF ThreadKnown
  <1>3. CASE thread = "asleep"
    <2>1. Floor = sleeptime + 1 - ArpInterval
      BY <1>3 DEF Floor
    <2>2. QED
      BY <1>1, <1>2, <1>3, <2>1
  <1>4. CASE thread # "asleep"
    <2>1. Floor = 1 - ArpInterval - awake
      BY <1>4 DEF Floor
    <2>2. QED
      BY <1>1, <1>2, <2>1
  <1>5. QED
    BY <1>3, <1>4

\* A timer that is started now.
LEMMA TimerStarted ==
  ASSUME NEW n \in Int, NEW floor \in Int, NEW h \in {"arp", "tcp", "user"},
         NEW d \in Nat \ {0}, floor <= 1, d <= Longest, h = "arp" => d <= ArpInterval
  PROVE  /\ Timers!Timeout(n + d, h, d) \in TimerRecords
         /\ TimerKnown(Timers!Timeout(n + d, h, d), n, floor)
         /\ Timers!Timeout(n + d, h, d).h = h
  <1>1. n + d \in Int /\ Round \in Nat \ {0} /\ d \in Int /\ d >= floor
    BY TimerBounds
  <1>2. (n + d) % Round \in 0 .. Round - 1
    BY <1>1, Quotient
  <1>3. QED
    BY <1>1, <1>2 DEF Timers!Timeout, TimerRecords, TimerKnown

\* sys_timeout, with room in the pool.
LEMMA TimerSet ==
  ASSUME now \in Int, NEW floor \in Int, floor >= 1 - ArpInterval - Slow, floor <= 1,
         NEW timers, TimersKnown(timers, now, floor), Len(timers) < TimerPool,
         NEW h \in {"tcp", "user"}, NEW d \in Delays \union {TcpInterval}
  PROVE  /\ TimersKnown(Timers!sys_timeout(timers, d, h), now, floor)
         /\ \A k : Count(Timers!sys_timeout(timers, d, h), k)
                     = Count(timers, k) + IF h = k THEN 1 ELSE 0
  <1>1. d \in Nat \ {0} /\ d <= Longest
    BY TimerBounds
  <1> DEFINE e == Timers!Timeout(now + d, h, d)
  <1>2. e \in TimerRecords /\ TimerKnown(e, now, floor) /\ e.h = h
    <2>1. h \in {"arp", "tcp", "user"} /\ h # "arp"
      OBVIOUS
    <2>2. QED
      BY <1>1, <2>1, TimerStarted
  <1>3. Timers!sys_timeout(timers, d, h) = Timers!sys_timeout_abs(timers, e)
    BY DEF Timers!sys_timeout
  <1> HIDE DEF e
  <1>4. QED
    BY <1>2, <1>3, TimerInserted

\* How many of which the list has, and how long it is.
LEMMA TimersHad ==
  ASSUME NEW timers, NEW active, NEW n, NEW floor, TimersKnown(timers, n, floor),
         PoolKnown(timers, active)
  PROVE  /\ timers \in Seq(TimerRecords) /\ Len(timers) \in Nat /\ Len(timers) >= 1
         /\ Len(timers) = 1 + (IF active THEN 1 ELSE 0) + Count(timers, "user")
         /\ Count(timers, "user") \in 0 .. UserTimers
         /\ \A h : Count(timers, h) \in Nat
  <1>1. timers \in Seq(TimerRecords)
    BY DEF TimersKnown
  <1>2. /\ Len(timers) = Count(timers, "arp") + Count(timers, "tcp") + Count(timers, "user")
        /\ Count(timers, "user") \in Nat /\ \A h : Count(timers, h) \in Nat
    BY <1>1, AllCounted
  <1>3. /\ Count(timers, "arp") = 1 /\ Count(timers, "tcp") = IF active THEN 1 ELSE 0
        /\ Count(timers, "user") <= UserTimers
    BY DEF PoolKnown
  <1>4. Len(timers) \in Nat /\ UserTimers \in Nat
    BY <1>1, LenProperties, TimerBounds
  <1>5. QED
    BY <1>1, <1>2, <1>3, <1>4

\* Whoever works under the lock leaves the list in order.
LEMMA WorkKeeps ==
  ASSUME now \in Int, NEW floor \in Int, floor >= 1 - ArpInterval - Slow, floor <= 1,
         TimersListed(next_timeout, tcpip_tcp_timer_active, tcp_pcbs, now, floor),
         Timers!Work
  PROVE  TimersListed(next_timeout', tcpip_tcp_timer_active', tcp_pcbs', now, floor)
  <1> DEFINE timers == next_timeout
             active == tcpip_tcp_timer_active
  <1>1. /\ TimersKnown(timers, now, floor) /\ PoolKnown(timers, active)
        /\ active \in BOOLEAN /\ tcp_pcbs \in BOOLEAN /\ (tcp_pcbs => active)
    BY DEF TimersListed
  <1>2. /\ timers \in Seq(TimerRecords) /\ Len(timers) \in Nat
        /\ Len(timers) = 1 + (IF active THEN 1 ELSE 0) + Count(timers, "user")
        /\ Count(timers, "user") \in 0 .. UserTimers
    BY <1>1, TimersHad
  <1>3. /\ Count(timers, "arp") = 1 /\ Count(timers, "tcp") = IF active THEN 1 ELSE 0
        /\ UserTimers \in Nat /\ TimerPool \in Nat /\ UserTimers + 2 <= TimerPool
    BY <1>1, TimerBounds DEF PoolKnown
  <1>4. CASE Timers!RegisterPcb
    <2>1. tcp_pcbs' = TRUE /\ active' = TRUE
      BY <1>4 DEF Timers!RegisterPcb
    <2>2. CASE active
      <3>1. timers' = timers
        BY <1>4, <2>2 DEF Timers!RegisterPcb
      <3>2. QED
        BY <1>1, <2>1, <2>2, <3>1 DEF TimersListed
    <2>3. CASE ~active
      <3>1. timers' = Timers!sys_timeout(timers, TcpInterval, "tcp")
        BY <1>4, <2>3 DEF Timers!RegisterPcb
      <3>2. Len(timers) < TimerPool
        BY <1>2, <1>3, <2>3
      <3>3. /\ TimersKnown(timers', now, floor)
            /\ \A k : Count(timers', k) = Count(timers, k) + IF "tcp" = k THEN 1 ELSE 0
        BY <1>1, <3>1, <3>2, TimerSet
      <3>4. PoolKnown(timers', TRUE)
        <4>1. /\ Count(timers', "arp") = Count(timers, "arp") + 0
              /\ Count(timers', "tcp") = Count(timers, "tcp") + 1
              /\ Count(timers', "user") = Count(timers, "user") + 0
          BY <3>3
        <4>2. QED
          BY <1>2, <1>3, <2>3, <4>1 DEF PoolKnown
      <3>5. QED
        BY <2>1, <3>3, <3>4 DEF TimersListed
    <2>4. QED
      BY <2>2, <2>3
  <1>5. CASE Timers!RemovePcbs
    <2>1. timers' = timers /\ active' = active /\ tcp_pcbs' = FALSE
      BY <1>5 DEF Timers!RemovePcbs
    <2>2. QED
      BY <1>1, <2>1 DEF TimersListed
  <1>6. CASE Timers!SetTimer
    <2>1. PICK d \in Delays : timers' = Timers!sys_timeout(timers, d, "user")
      BY <1>6 DEF Timers!SetTimer
    <2>2. Count(timers, "user") < UserTimers /\ active' = active /\ tcp_pcbs' = tcp_pcbs
      <3>1. /\ Timers!Cardinality(Timers!TimersOf("user")) < UserTimers
            /\ active' = active /\ tcp_pcbs' = tcp_pcbs
        BY <1>6 DEF Timers!SetTimer, Timers!UserMay
      <3>2. Timers!TimersOf("user") = {i \in 1 .. Len(timers) : timers[i].h = "user"}
        BY <1>2, LenProperties DEF Timers!TimersOf
      <3>3. QED
        BY <3>1, <3>2, TimersLists DEF Count
    <2>3. Len(timers) < TimerPool
      BY <1>2, <1>3, <2>2
    <2>4. /\ TimersKnown(timers', now, floor)
          /\ \A k : Count(timers', k) = Count(timers, k) + IF "user" = k THEN 1 ELSE 0
      BY <1>1, <2>1, <2>3, TimerSet
    <2>5. PoolKnown(timers', active)
      <3>1. /\ Count(timers', "arp") = Count(timers, "arp") + 0
            /\ Count(timers', "tcp") = Count(timers, "tcp") + 0
            /\ Count(timers', "user") = Count(timers, "user") + 1
        BY <2>4
      <3>2. QED
        BY <1>2, <1>3, <2>2, <3>1 DEF PoolKnown
    <2>6. QED
      BY <1>1, <2>2, <2>4, <2>5 DEF TimersListed
  <1>7. CASE Timers!CancelTimer
    <2> DEFINE those == {i \in DOMAIN timers : timers[i].h = "user"}
               place == CHOOSE i \in those : \A j \in those : i <= j
    <2>1. /\ timers' = IF those = {} THEN timers ELSE RemoveAt(timers, place)
          /\ active' = active /\ tcp_pcbs' = tcp_pcbs
      BY <1>7, TimersLists DEF Timers!CancelTimer, Timers!sys_untimeout
    <2>2. CASE those = {}
      <3>1. timers' = timers
        BY <2>1, <2>2
      <3>2. QED
        BY <1>1, <2>1, <3>1 DEF TimersListed
    <2>3. CASE those # {}
      <3>1. timers' = RemoveAt(timers, place)
        BY <2>1, <2>3
      <3>2. DOMAIN timers = 1 .. Len(timers)
        BY <1>2, LenProperties
      <3>3. those \in SUBSET Nat
        BY <1>2, <3>2
      <3>4. place \in those
        BY <2>3, <3>3, Least
      <3>5. place \in 1 .. Len(timers) /\ timers[place].h = "user"
        BY <3>2, <3>4
      <3> HIDE DEF place
      <3>6. /\ TimersKnown(timers', now, floor)
            /\ \A h : Count(timers, h) = Count(timers', h) + IF "user" = h THEN 1 ELSE 0
        BY <1>1, <3>1, <3>5, TimerTaken
      <3>7. \A h : Count(timers', h) \in Nat
        BY <3>6, AllCounted DEF TimersKnown
      <3>8. PoolKnown(timers', active)
        <4>1. /\ Count(timers, "arp") = Count(timers', "arp") + 0
              /\ Count(timers, "tcp") = Count(timers', "tcp") + 0
              /\ Count(timers, "user") = Count(timers', "user") + 1
          BY <3>6
        <4>2. /\ Count(timers', "arp") \in Nat /\ Count(timers', "tcp") \in Nat
              /\ Count(timers', "user") \in Nat
          BY <3>7
        <4>3. QED
          BY <1>2, <1>3, <4>1, <4>2 DEF PoolKnown
      <3>9. QED
        BY <1>1, <2>1, <3>6, <3>8 DEF TimersListed
    <2>4. QED
      BY <2>2, <2>3
  <1>8. QED
    BY <1>4, <1>5, <1>6, <1>7 DEF Timers!Work

\* What the clock and the intervals leave of room between the times.
LEMMA ClockFacts ==
  /\ ArpInterval \in Nat \ {0} /\ Slow \in Nat /\ Round \in Nat \ {0}
  /\ Longest = Timers!LWIP_MAX_TIMEOUT + 1 - ArpInterval - Slow
  /\ Timers!LWIP_MAX_TIMEOUT \in Nat /\ ArpInterval <= Longest
  /\ \A n \in 0 .. Round - 1 : n \in Int /\ (n + 0) % Round = n
  <1>1. /\ ArpInterval \in Nat \ {0} /\ Slow \in Nat /\ Round \in Nat \ {0}
        /\ Timers!LWIP_MAX_TIMEOUT \in Nat
    BY TimerBounds
  <1>2. ArpInterval <= Longest
    <2>1. ArpInterval \in Delays \union {TcpInterval, ArpInterval}
      OBVIOUS
    <2>2. QED
      BY <2>1, TimerBounds
  <1>3. ASSUME NEW n \in 0 .. Round - 1 PROVE n \in Int /\ (n + 0) % Round = n
    <2>1. n \in Int /\ n < Round /\ n >= -Round /\ n >= 0 /\ n + 0 = n
      BY <1>1
    <2>2. n % Round = n
      BY <1>1, <2>1, SmallRemainder
    <2>3. QED
      BY <2>1, <2>2
  <1>4. QED
    BY <1>1, <1>2, <1>3 DEF Longest

\* What is known of the list and of the thread while it calls handlers.
LEMMA HandlerStarts ==
  ASSUME TimersInv, Timers!CallHandler
  PROVE  /\ next_timeout[1] \in TimerRecords /\ next_timeout[1].left <= 0
         /\ TimerKnown(next_timeout[1], now, Floor)
         /\ TimersKnown(Timers!Rest, now, Floor)
         /\ Len(next_timeout) = Len(Timers!Rest) + 1
         /\ \A h : Count(next_timeout, h)
                     = Count(Timers!Rest, h) + IF next_timeout[1].h = h THEN 1 ELSE 0
         /\ \A h : Count(Timers!Rest, h) \in Nat
         /\ Count(next_timeout, next_timeout[1].h) >= 1
  <1> DEFINE head == next_timeout[1]
  <1>1. /\ now \in 0 .. Round - 1 /\ ThreadKnown /\ thread = "check"
        /\ TimersKnown(next_timeout, now, Floor)
        /\ PoolKnown(next_timeout, tcpip_tcp_timer_active)
    BY DEF TimersInv, TimersListed, Timers!CallHandler
  <1>2. /\ next_timeout \in Seq(TimerRecords) /\ Len(next_timeout) \in Nat
        /\ 1 \in 1 .. Len(next_timeout)
    BY <1>1, TimersHad
  <1>3. /\ TimerKnown(head, now, Floor) /\ head \in TimerRecords /\ head.left \in Int
    <2>1. TimerKnown(head, now, Floor)
      BY <1>1, <1>2 DEF TimersKnown
    <2>2. head \in TimerRecords
      BY <1>2, ElementOfSeq
    <2>3. QED
      BY <2>1, <2>2 DEF TimerRecords
  <1>4. Timers!Rest = RemoveAt(next_timeout, 1)
    BY <1>2, TakenBack DEF Timers!Rest
  <1>5. /\ TimersKnown(Timers!Rest, now, Floor)
        /\ Len(next_timeout) = Len(Timers!Rest) + 1
        /\ \A h : Count(next_timeout, h) = Count(Timers!Rest, h) + IF head.h = h THEN 1 ELSE 0
    BY <1>1, <1>2, <1>4, TimerTaken
  <1>6. \A h : Count(Timers!Rest, h) \in Nat
    BY <1>5, AllCounted DEF TimersKnown
  <1>7. Count(next_timeout, head.h) >= 1
    BY <1>2, AllCounted
  <1>8. head.left <= 0
    <2>1. PICK c \in 0 .. awake : checked = (now - c) % Round
      BY <1>1 DEF ThreadKnown
    <2>2. PICK a \in Int, b \in Int : a = -c /\ b = head.left
      BY <1>1, <1>3, <2>1 DEF ThreadKnown
    <2>3. /\ ArpInterval \in Nat \ {0} /\ Slow \in Nat /\ awake \in 0 .. Slow
          /\ Longest = Timers!LWIP_MAX_TIMEOUT + 1 - ArpInterval - Slow
          /\ Timers!LWIP_MAX_TIMEOUT \in Nat /\ ArpInterval <= Longest /\ now \in Int
      BY <1>1, ClockFacts DEF ThreadKnown
    <2>4. Floor \in Int /\ Floor >= 1 - ArpInterval - Slow /\ b >= Floor /\ b <= Longest
          /\ head.time = (now + b) % Round
      BY <1>1, <1>3, <2>2, FloorBounds DEF TimerKnown
    <2>5. a - b <= Timers!LWIP_MAX_TIMEOUT /\ b - a <= Timers!LWIP_MAX_TIMEOUT
      BY <2>1, <2>2, <2>3, <2>4
    <2>6. checked = (now + a) % Round
      <3>1. now - c = now + a
        BY <2>1, <2>2, <2>3
      <3>2. QED
        BY <2>1, <3>1
    <2>7. Timers!TIME_LESS_THAN(checked, head.time) <=> a < b
      <3>1. now \in Int
        BY <2>3
      <3>2. Timers!TIME_LESS_THAN((now + a) % Round, (now + b) % Round) <=> a < b
        BY <2>5, <3>1, Compared
      <3>3. QED
        BY <2>4, <2>6, <3>2
    <2>8. ~Timers!TIME_LESS_THAN(checked, head.time)
      BY DEF Timers!CallHandler, Timers!Expired
    <2>9. QED
      BY <2>1, <2>2, <2>7, <2>8
  <1>9. QED
    BY <1>3, <1>5, <1>6, <1>7, <1>8

\* lwip_cyclic_timer reckons from when the timer was due.
LEMMA NextCyclicKnown ==
  ASSUME now \in 0 .. Round - 1, NEW floor \in Int,
         floor >= 1 - ArpInterval - Slow, floor <= 1,
         NEW e \in TimerRecords, TimerKnown(e, now, floor), e.left <= 0
  PROVE  /\ Timers!NextCyclic(e) \in TimerRecords
         /\ TimerKnown(Timers!NextCyclic(e), now, floor)
         /\ Timers!NextCyclic(e).h = "arp"
  <1> DEFINE time == (e.time + ArpInterval) % Round
  <1>1. /\ ArpInterval \in Nat \ {0} /\ Slow \in Nat /\ Round \in Nat \ {0} /\ now \in Int
        /\ Longest = Timers!LWIP_MAX_TIMEOUT + 1 - ArpInterval - Slow
        /\ Timers!LWIP_MAX_TIMEOUT \in Nat /\ ArpInterval <= Longest
    BY ClockFacts
  <1>2. PICK b \in Int : b = e.left
    BY DEF TimerRecords
  <1>3. b >= floor /\ b <= 0 /\ e.time = (now + b) % Round
    BY <1>2 DEF TimerKnown
  <1>4. PICK a \in Int : a = b + ArpInterval
    BY <1>1
  <1>5. time = (now + a) % Round /\ time \in 0 .. Round - 1
    <2>1. PICK u \in Int : u = now + b
      BY <1>1
    <2>2. ((u % Round) + ArpInterval) % Round = (u + ArpInterval) % Round
      <3>1. ArpInterval \in Int /\ Round \in Nat \ {0}
        BY <1>1
      <3>2. QED
        BY <3>1, RemainderOfSum
    <2>3. u + ArpInterval = now + a
      BY <1>1, <1>4, <2>1
    <2>4. now + a \in Int
      BY <1>1
    <2>5. (now + a) % Round \in 0 .. Round - 1
      BY <1>1, <2>4, Quotient
    <2>6. QED
      BY <1>3, <2>1, <2>2, <2>3, <2>5
  <1>6. Timers!TIME_LESS_THAN(time, now) <=> a < 0
    <2>1. a - 0 <= Timers!LWIP_MAX_TIMEOUT /\ 0 - a <= Timers!LWIP_MAX_TIMEOUT
      BY <1>1, <1>3, <1>4
    <2>2. Timers!TIME_LESS_THAN((now + a) % Round, (now + 0) % Round) <=> a < 0
      <3>1. now \in Int
        BY <1>1
      <3>2. PICK z \in Int : z = 0
        OBVIOUS
      <3>3. a - z <= Timers!LWIP_MAX_TIMEOUT /\ z - a <= Timers!LWIP_MAX_TIMEOUT
        BY <2>1, <3>2
      <3>4. Timers!TIME_LESS_THAN((now + a) % Round, (now + z) % Round) <=> a < z
        BY <3>1, <3>3, Compared
      <3>5. QED
        BY <3>2, <3>4
    <2>3. (now + 0) % Round = now
      BY ClockFacts
    <2>4. QED
      BY <1>5, <2>2, <2>3
  <1>7. CASE a < 0
    <2>1. Timers!NextCyclic(e) = Timers!Timeout(now + ArpInterval, "arp", ArpInterval)
      BY <1>6, <1>7 DEF Timers!NextCyclic
    <2>2. /\ "arp" \in {"arp", "tcp", "user"}
          /\ now \in Int /\ ArpInterval \in Nat \ {0} /\ floor <= 1
          /\ ArpInterval <= Longest /\ ArpInterval <= ArpInterval
      BY <1>1
    <2>3. /\ Timers!Timeout(now + ArpInterval, "arp", ArpInterval) \in TimerRecords
          /\ TimerKnown(Timers!Timeout(now + ArpInterval, "arp", ArpInterval), now, floor)
          /\ Timers!Timeout(now + ArpInterval, "arp", ArpInterval).h = "arp"
      BY <2>2, TimerStarted
    <2>4. QED
      BY <2>1, <2>3, Zenon
  <1>8. CASE ~(a < 0)
    <2>1. Timers!NextCyclic(e) = Timers!Timeout(e.time + ArpInterval, "arp", e.left + ArpInterval)
      BY <1>6, <1>8 DEF Timers!NextCyclic
    <2>2. Timers!NextCyclic(e) = [time |-> time, h |-> "arp", left |-> a]
      BY <1>2, <1>4, <2>1 DEF Timers!Timeout
    <2>3. a <= Longest /\ a >= floor /\ a <= ArpInterval
      BY <1>1, <1>3, <1>4, <1>8
    <2> HIDE DEF time
    <2>4. QED
      BY <1>5, <2>2, <2>3 DEF TimerRecords, TimerKnown
  <1>9. QED
    BY <1>4, <1>7, <1>8

\* A handler is called when it is due, and leaves the list in order.
LEMMA HandlerKeeps ==
  ASSUME TimersInv, Timers!CallHandler
  PROVE  TimersInv'
  <1> DEFINE head == next_timeout[1]
             rest == Timers!Rest
             active == tcpip_tcp_timer_active
  <1>1. /\ now \in 0 .. Round - 1 /\ ThreadKnown /\ thread = "check"
        /\ PoolKnown(next_timeout, active) /\ TimersKnown(next_timeout, now, Floor)
        /\ active \in BOOLEAN /\ tcp_pcbs \in BOOLEAN /\ (tcp_pcbs => active)
    BY DEF TimersInv, TimersListed, Timers!CallHandler
  <1>2. /\ UNCHANGED <<now, thread, sleeptime, checked, awake>> /\ early' = head.left
    BY DEF Timers!CallHandler
  <1>3. /\ head \in TimerRecords /\ head.left <= 0
        /\ TimerKnown(head, now, Floor) /\ TimersKnown(rest, now, Floor)
        /\ Len(next_timeout) = Len(rest) + 1
        /\ \A h : Count(next_timeout, h) = Count(rest, h) + IF head.h = h THEN 1 ELSE 0
        /\ \A h : Count(rest, h) \in Nat
        /\ Count(next_timeout, head.h) >= 1
    BY HandlerStarts
  <1>4. /\ Len(next_timeout) \in Nat
        /\ Len(next_timeout) = 1 + (IF active THEN 1 ELSE 0) + Count(next_timeout, "user")
        /\ Count(next_timeout, "user") \in 0 .. UserTimers
        /\ Count(next_timeout, "arp") = 1
        /\ Count(next_timeout, "tcp") = IF active THEN 1 ELSE 0
        /\ UserTimers \in Nat /\ TimerPool \in Nat /\ UserTimers + 2 <= TimerPool
    BY <1>1, TimersHad, TimerBounds DEF PoolKnown
  <1>5. /\ Count(next_timeout, "arp") = Count(rest, "arp") + (IF head.h = "arp" THEN 1 ELSE 0)
        /\ Count(next_timeout, "tcp") = Count(rest, "tcp") + (IF head.h = "tcp" THEN 1 ELSE 0)
        /\ Count(next_timeout, "user") = Count(rest, "user") + (IF head.h = "user" THEN 1 ELSE 0)
        /\ Count(rest, "arp") \in Nat /\ Count(rest, "tcp") \in Nat /\ Count(rest, "user") \in Nat
    BY <1>3
  <1>6. /\ Floor \in Int /\ Floor >= 1 - ArpInterval - Slow /\ Floor <= 1 /\ now \in Int
    BY <1>1, FloorBounds, ClockFacts
  <1>7. head.h \in {"arp", "tcp", "user"} /\ head.left \in Int
    BY <1>3 DEF TimerRecords
  <1>8. Len(rest) \in Nat
    BY <1>3, LenProperties DEF TimersKnown
  <1> HIDE DEF head, rest
  <1>9. TimersListed(next_timeout', active', tcp_pcbs', now, Floor)
    <2>1. CASE head.h = "tcp"
      <3>1. Timers!tcpip_tcp_timer
        BY <2>1 DEF Timers!CallHandler, head
      <3>2. /\ tcp_pcbs' \in {FALSE, tcp_pcbs} /\ active' = tcp_pcbs'
            /\ next_timeout' = IF tcp_pcbs' THEN Timers!sys_timeout(rest, TcpInterval, "tcp")
                               ELSE rest
        BY <3>1 DEF Timers!tcpip_tcp_timer, rest
      <3>3. /\ Count(rest, "arp") = 1 /\ Count(rest, "tcp") = 0
            /\ Count(rest, "user") <= UserTimers /\ Len(rest) < TimerPool
        BY <1>3, <1>4, <1>5, <1>8, <2>1
      <3>4. tcp_pcbs' \in BOOLEAN
        BY <1>1, <3>2
      <3>5. CASE tcp_pcbs'
        <4>1. next_timeout' = Timers!sys_timeout(rest, TcpInterval, "tcp") /\ active' = TRUE
          BY <3>2, <3>4, <3>5
        <4>2. /\ TimersKnown(next_timeout', now, Floor)
              /\ \A k : Count(next_timeout', k) = Count(rest, k) + IF "tcp" = k THEN 1 ELSE 0
          BY <1>3, <1>6, <3>3, <4>1, TimerSet
        <4>3. /\ Count(next_timeout', "arp") = Count(rest, "arp") + 0
              /\ Count(next_timeout', "tcp") = Count(rest, "tcp") + 1
              /\ Count(next_timeout', "user") = Count(rest, "user") + 0
          BY <4>2
        <4>4. PoolKnown(next_timeout', active')
          BY <1>5, <3>3, <4>1, <4>3 DEF PoolKnown
        <4>5. QED
          BY <3>4, <4>1, <4>2, <4>4 DEF TimersListed
      <3>6. CASE ~tcp_pcbs'
        <4>1. next_timeout' = rest /\ active' = FALSE /\ tcp_pcbs' = FALSE
          BY <3>2, <3>4, <3>6
        <4>2. PoolKnown(rest, FALSE)
          BY <3>3 DEF PoolKnown
        <4>3. QED
          BY <1>3, <4>1, <4>2 DEF TimersListed
      <3>7. QED
        BY <3>4, <3>5, <3>6
    <2>2. CASE head.h = "arp"
      <3>1. /\ next_timeout' = Timers!sys_timeout_abs(rest, Timers!NextCyclic(head))
            /\ active' = active /\ tcp_pcbs' = tcp_pcbs
        BY <2>2 DEF Timers!CallHandler, Timers!lwip_cyclic_timer, head, rest
      <3>2. /\ Count(rest, "arp") = 0 /\ Len(rest) < TimerPool
            /\ Count(rest, "tcp") = IF active THEN 1 ELSE 0
            /\ Count(rest, "user") <= UserTimers
        BY <1>1, <1>3, <1>4, <1>5, <1>8, <2>2
      <3>3. /\ Timers!NextCyclic(head) \in TimerRecords
            /\ TimerKnown(Timers!NextCyclic(head), now, Floor)
            /\ Timers!NextCyclic(head).h = "arp"
        BY <1>1, <1>3, <1>6, NextCyclicKnown
      <3>4. /\ TimersKnown(next_timeout', now, Floor)
            /\ \A k : Count(next_timeout', k)
                        = Count(rest, k) + IF Timers!NextCyclic(head).h = k THEN 1 ELSE 0
        BY <1>3, <1>6, <3>1, <3>2, <3>3, TimerInserted
      <3>5. /\ Count(next_timeout', "arp") = Count(rest, "arp") + 1
            /\ Count(next_timeout', "tcp") = Count(rest, "tcp") + 0
            /\ Count(next_timeout', "user") = Count(rest, "user") + 0
        BY <3>3, <3>4
      <3>6. PoolKnown(next_timeout', active')
        BY <1>1, <1>5, <3>1, <3>2, <3>5 DEF PoolKnown
      <3>7. QED
        BY <1>1, <3>1, <3>4, <3>6 DEF TimersListed
    <2>3. CASE head.h = "user"
      <3>1. /\ next_timeout' \in {rest} \union {Timers!sys_timeout(rest, d, "user") : d \in Delays}
            /\ active' = active /\ tcp_pcbs' = tcp_pcbs
        BY <2>3 DEF Timers!CallHandler, Timers!UserHandler, head, rest
      <3>2. /\ Count(rest, "arp") = 1 /\ Len(rest) < TimerPool
            /\ Count(rest, "tcp") = IF active THEN 1 ELSE 0
            /\ Count(rest, "user") + 1 <= UserTimers
        BY <1>1, <1>3, <1>4, <1>5, <1>8, <2>3
      <3>3. CASE next_timeout' = rest
        <4>1. PoolKnown(rest, active)
          BY <1>4, <1>5, <3>2 DEF PoolKnown
        <4>2. QED
          BY <1>1, <1>3, <3>1, <3>3, <4>1 DEF TimersListed
      <3>4. ASSUME NEW d \in Delays, next_timeout' = Timers!sys_timeout(rest, d, "user")
            PROVE  TimersListed(next_timeout', active', tcp_pcbs', now, Floor)
        <4>1. /\ TimersKnown(next_timeout', now, Floor)
              /\ \A k : Count(next_timeout', k) = Count(rest, k) + IF "user" = k THEN 1 ELSE 0
          BY <1>3, <1>6, <3>2, <3>4, TimerSet
        <4>2. /\ Count(next_timeout', "arp") = Count(rest, "arp") + 0
              /\ Count(next_timeout', "tcp") = Count(rest, "tcp") + 0
              /\ Count(next_timeout', "user") = Count(rest, "user") + 1
          BY <4>1
        <4>3. PoolKnown(next_timeout', active')
          BY <1>1, <1>5, <3>1, <3>2, <4>2 DEF PoolKnown
        <4>4. QED
          BY <1>1, <3>1, <4>1, <4>3 DEF TimersListed
      <3>5. QED
        BY <3>1, <3>3, <3>4
    <2>4. QED
      BY <1>7, <2>1, <2>2, <2>3
  <1>10. ThreadKnown' /\ Floor' = Floor
    BY <1>1, <1>2 DEF ThreadKnown, Floor
  <1>11. QED
    BY <1>1, <1>2, <1>3, <1>7, <1>9, <1>10 DEF TimersInv

\* Later by the clock, the same timers are nearer.
LEMMA TimersNearer ==
  ASSUME now \in 0 .. Round - 1, NEW floor \in Int, NEW active,
         TimersKnown(next_timeout, now, floor), PoolKnown(next_timeout, active), Timers!Tick
  PROVE  /\ now' \in 0 .. Round - 1
         /\ TimersKnown(next_timeout', now', floor - 1) /\ PoolKnown(next_timeout', active)
         /\ \A c \in Nat : (now - c) % Round = (now' - (c + 1)) % Round
  <1> DEFINE timers == next_timeout
  <1>1. /\ timers \in Seq(TimerRecords) /\ InOrderOfTime(timers)
        /\ \A i \in 1 .. Len(timers) : TimerKnown(timers[i], now, floor)
    BY DEF TimersKnown
  <1>2. /\ Len(timers) \in Nat /\ DOMAIN timers = 1 .. Len(timers)
        /\ \A i \in 1 .. Len(timers) : timers[i] \in TimerRecords
    BY <1>1, LenProperties, ElementOfSeq
  <1>3. /\ now' = (now + 1) % Round
        /\ timers' = [i \in 1 .. Len(timers) |-> [timers[i] EXCEPT !.left = @ - 1]]
    BY <1>2 DEF Timers!Tick
  <1>4. Round \in Nat \ {0} /\ now \in Int
    BY ClockFacts
  <1>5. now' \in 0 .. Round - 1
    <2>1. now + 1 \in Int
      BY <1>4
    <2>2. QED
      BY <1>3, <1>4, <2>1, Quotient
  <1>6. \A a \in Int : (now + a) % Round = (now' + (a - 1)) % Round
    <2>1. ASSUME NEW a \in Int PROVE (now + a) % Round = (now' + (a - 1)) % Round
      <3>1. PICK u \in Int, b \in Int : u = now + 1 /\ b = a - 1
        BY <1>4
      <3>2. ((u % Round) + b) % Round = (u + b) % Round
        BY <1>4, RemainderOfSum
      <3>3. u + b = now + a
        BY <1>4, <3>1
      <3>4. QED
        BY <1>3, <3>1, <3>2, <3>3
    <2>2. QED
      BY <2>1
  <1>7. \A i \in 1 .. Len(timers) :
          /\ timers'[i] \in TimerRecords /\ timers'[i].h = timers[i].h
          /\ timers'[i].time = timers[i].time /\ timers'[i].left = timers[i].left - 1
          /\ timers[i].left \in Int
    <2>1. ASSUME NEW i \in 1 .. Len(timers)
          PROVE  /\ timers'[i] \in TimerRecords /\ timers'[i].h = timers[i].h
                 /\ timers'[i].time = timers[i].time /\ timers'[i].left = timers[i].left - 1
                 /\ timers[i].left \in Int
      <3>1. timers[i] \in TimerRecords /\ timers'[i] = [timers[i] EXCEPT !.left = @ - 1]
        BY <1>2, <1>3
      <3>2. QED
        BY <3>1 DEF TimerRecords
    <2>2. QED
      BY <2>1
  <1>8. timers' \in Seq(TimerRecords) /\ Len(timers') = Len(timers)
    <2>1. DOMAIN timers' = 1 .. Len(timers)
      BY <1>3
    <2>2. timers' \in [1 .. Len(timers) -> TimerRecords]
      BY <1>3, <1>7, <2>1
    <2>3. QED
      BY <1>2, <2>1, <2>2
  <1>9. InOrderOfTime(timers')
    BY <1>1, <1>7, <1>8 DEF InOrderOfTime
  <1>10. ASSUME NEW i \in 1 .. Len(timers) PROVE TimerKnown(timers'[i], now', floor - 1)
    <2>1. /\ timers'[i].h = timers[i].h /\ timers'[i].time = timers[i].time
          /\ timers'[i].left = timers[i].left - 1 /\ timers[i].left \in Int
      BY <1>7
    <2>2. PICK a \in Int : a = timers[i].left
      BY <2>1
    <2>3. /\ timers[i].time = (now + a) % Round /\ a >= floor /\ a <= Longest
          /\ timers[i].h = "arp" => a <= ArpInterval
      BY <1>1, <2>2 DEF TimerKnown
    <2>4. timers'[i].time = (now' + (a - 1)) % Round
      BY <1>6, <2>1, <2>3
    <2>5. Longest \in Int /\ ArpInterval \in Int
      BY TimerBounds
    <2>6. QED
      BY <2>1, <2>2, <2>3, <2>4, <2>5 DEF TimerKnown
  <1>11. TimersKnown(timers', now', floor - 1)
    BY <1>8, <1>9, <1>10 DEF TimersKnown
  <1>12. \A h : Count(timers', h) = Count(timers, h)
    <2>1. ASSUME NEW h PROVE Count(timers', h) = Count(timers, h)
      <3>1. {i \in 1 .. Len(timers') : timers'[i].h = h} = {i \in 1 .. Len(timers) : timers[i].h = h}
        BY <1>7, <1>8
      <3>2. QED
        BY <3>1, Zenon DEF Count
    <2>2. QED
      BY <2>1
  <1>13. PoolKnown(timers', active)
    BY <1>12 DEF PoolKnown
  <1>14. ASSUME NEW c \in Nat PROVE (now - c) % Round = (now' - (c + 1)) % Round
    <2>1. PICK a \in Int : a = -c
      OBVIOUS
    <2>2. (now + a) % Round = (now' + (a - 1)) % Round
      BY <1>6
    <2>3. now + a = now - c /\ now' + (a - 1) = now' - (c + 1)
      BY <1>4, <1>5, <2>1
    <2>4. QED
      BY <2>2, <2>3
  <1>15. QED
    BY <1>5, <1>11, <1>13, <1>14

\* How long it is from one time to another that is not before it.
LEMMA TimeBetween ==
  ASSUME NEW n \in Int, NEW d \in Int, d >= 0, d <= Timers!LWIP_MAX_TIMEOUT,
         n = n % Round
  PROVE  (((n + d) % Round) - n) % Round = d
  <1>1. /\ Round \in Nat \ {0} /\ Timers!LWIP_MAX_TIMEOUT \in Nat
        /\ 2 * Timers!LWIP_MAX_TIMEOUT + 2 <= Round
    BY TimerBounds
  <1>2. PICK u \in Int : u = n + d
    OBVIOUS
  <1>3. ((u % Round) - (n % Round)) % Round = (u - n) % Round
    BY <1>1, RemainderOfSum
  <1>4. u - n = d /\ d < Round /\ d >= -Round
    BY <1>1, <1>2
  <1>5. d % Round = d
    BY <1>1, <1>4, SmallRemainder
  <1>6. QED
    BY <1>2, <1>3, <1>4, <1>5

\* tcpip_thread decides how long to sleep.
LEMMA FetchKeeps ==
  ASSUME TimersInv, Timers!Fetch
  PROVE  TimersInv'
  <1> DEFINE head == next_timeout[1]
  <1>1. /\ now \in 0 .. Round - 1 /\ ThreadKnown /\ thread = "fetch" /\ early \in Int
        /\ early <= 0
        /\ TimersListed(next_timeout, tcpip_tcp_timer_active, tcp_pcbs, now, Floor)
        /\ TimersKnown(next_timeout, now, Floor)
        /\ PoolKnown(next_timeout, tcpip_tcp_timer_active)
    BY DEF TimersInv, TimersListed, Timers!Fetch
  <1>2. /\ sleeptime' = (head.time - now) % Round
        /\ thread' = "asleep" /\ awake' = 0 /\ ~Timers!Due
        /\ UNCHANGED <<now, next_timeout, tcpip_tcp_timer_active, tcp_pcbs, checked, early>>
    BY DEF Timers!Fetch
  <1>3. /\ ArpInterval \in Nat \ {0} /\ Slow \in Nat /\ Round \in Nat \ {0} /\ now \in Int
        /\ Longest = Timers!LWIP_MAX_TIMEOUT + 1 - ArpInterval - Slow
        /\ Timers!LWIP_MAX_TIMEOUT \in Nat /\ (now + 0) % Round = now
        /\ ArpInterval <= Longest
    BY <1>1, ClockFacts
  <1>4. /\ next_timeout \in Seq(TimerRecords) /\ Len(next_timeout) \in Nat
        /\ 1 \in 1 .. Len(next_timeout)
    BY <1>1, TimersHad
  <1>5. /\ \A i \in 1 .. Len(next_timeout) :
             /\ TimerKnown(next_timeout[i], now, Floor) /\ next_timeout[i].left \in Int
             /\ head.left <= next_timeout[i].left
    <2>1. \A i \in 1 .. Len(next_timeout) :
            /\ TimerKnown(next_timeout[i], now, Floor) /\ next_timeout[i].left \in Int
      <3>1. \A i \in 1 .. Len(next_timeout) :
              TimerKnown(next_timeout[i], now, Floor) /\ next_timeout[i] \in TimerRecords
        BY <1>1, <1>4, ElementOfSeq DEF TimersKnown
      <3>2. QED
        BY <3>1 DEF TimerRecords
    <2>2. \A i \in 1 .. Len(next_timeout) : 1 < i => head.left <= next_timeout[i].left
      BY <1>1, <1>4 DEF TimersKnown, InOrderOfTime
    <2>3. head.left \in Int
      BY <1>4, <2>1
    <2>4. \A i \in 1 .. Len(next_timeout) : i = 1 \/ 1 < i
      BY <1>4
    <2>5. QED
      BY <2>1, <2>2, <2>3, <2>4
  <1>6. PICK b \in Int : b = head.left
    BY <1>4, <1>5
  <1>7. /\ head.time = (now + b) % Round /\ b <= Longest /\ b >= 1 - ArpInterval - Slow
    <2>1. Floor \in Int /\ Floor >= 1 - ArpInterval - Slow
      BY <1>1, FloorBounds
    <2>2. TimerKnown(head, now, Floor)
      BY <1>4, <1>5
    <2>3. QED
      BY <1>3, <1>6, <2>1, <2>2 DEF TimerKnown
  <1>8. b <= ArpInterval
    <2>1. PICK i \in 1 .. Len(next_timeout) : next_timeout[i].h = "arp"
      <3>1. Count(next_timeout, "arp") # 0
        BY <1>1 DEF PoolKnown
      <3>2. Places(next_timeout, "arp") # {}
        BY <1>4, <3>1, PlacesFinite, FS_EmptySet
      <3>3. QED
        BY <3>2 DEF Places
    <2>2. next_timeout[i].left <= ArpInterval
      BY <1>5, <2>1 DEF TimerKnown
    <2>3. QED
      BY <1>3, <1>5, <1>6, <2>2
  <1>9. b > 0 /\ sleeptime' = b
    <2>1. PICK z \in Int : z = 0
      OBVIOUS
    <2>2. b - z <= Timers!LWIP_MAX_TIMEOUT /\ z - b <= Timers!LWIP_MAX_TIMEOUT
      BY <1>3, <1>7, <2>1
    <2>3. now \in Int
      BY <1>3
    <2>4. /\ Timers!TIME_LESS_THAN((now + b) % Round, (now + z) % Round) <=> b < z
          /\ (now + b) % Round = (now + z) % Round <=> b = z
      BY <2>2, <2>3, Compared
    <2>5. (now + z) % Round = now
      BY <1>3, <2>1
    <2>6. ~(head.time = now) /\ ~Timers!TIME_LESS_THAN(head.time, now)
      BY <1>2 DEF Timers!Due
    <2>7. ~(b < z) /\ ~(b = z)
      BY <1>7, <2>4, <2>5, <2>6
    <2>8. b > 0
      BY <2>1, <2>7
    <2>9. (((now + b) % Round) - now) % Round = b
      <3>1. b <= Timers!LWIP_MAX_TIMEOUT /\ now = now % Round /\ b >= 0
        BY <1>3, <1>7, <2>1, <2>2, <2>5, <2>8
      <3>2. QED
        BY <2>3, <3>1, TimeBetween
    <2>10. QED
      BY <1>2, <1>7, <2>8, <2>9
  <1>10. ThreadKnown' /\ Floor' = b + 1 - ArpInterval
    <2>1. Floor' = b + 1 - ArpInterval
      BY <1>2, <1>9 DEF Floor
    <2>2. QED
      BY <1>2, <1>3, <1>8, <1>9, <2>1 DEF ThreadKnown
  <1>11. \A i \in 1 .. Len(next_timeout) : TimerKnown(next_timeout[i], now, b + 1 - ArpInterval)
    <2>1. ASSUME NEW i \in 1 .. Len(next_timeout)
          PROVE  TimerKnown(next_timeout[i], now, b + 1 - ArpInterval)
      <3>1. PICK a \in Int : a = next_timeout[i].left /\ b <= a
        BY <1>5, <1>6
      <3>2. a >= b + 1 - ArpInterval
        BY <1>3, <3>1
      <3>3. TimerKnown(next_timeout[i], now, Floor)
        BY <1>5
      <3>4. QED
        BY <3>1, <3>2, <3>3 DEF TimerKnown
    <2>2. QED
      BY <2>1
  <1>12. TimersListed(next_timeout, tcpip_tcp_timer_active, tcp_pcbs, now, b + 1 - ArpInterval)
    BY <1>1, <1>11 DEF TimersListed, TimersKnown
  <1>13. TimersListed(next_timeout, tcpip_tcp_timer_active, tcp_pcbs, now, Floor)'
    BY <1>2, <1>10, <1>12
  <1>14. QED
    BY <1>1, <1>2, <1>10, <1>13 DEF TimersInv

\* A lower bound is known too.
LEMMA LowerFloor ==
  ASSUME NEW timers, NEW active, NEW pcbs, NEW n, NEW floor \in Int, NEW lower \in Int,
         lower <= floor, TimersListed(timers, active, pcbs, n, floor)
  PROVE  TimersListed(timers, active, pcbs, n, lower)
  <1>1. /\ timers \in Seq(TimerRecords)
        /\ \A i \in 1 .. Len(timers) : TimerKnown(timers[i], n, floor)
    BY DEF TimersListed, TimersKnown
  <1>2. \A i \in 1 .. Len(timers) : timers[i].left \in Int
    <2>1. \A i \in 1 .. Len(timers) : timers[i] \in TimerRecords
      BY <1>1, ElementOfSeq
    <2>2. QED
      BY <2>1 DEF TimerRecords
  <1>3. \A i \in 1 .. Len(timers) : TimerKnown(timers[i], n, lower)
    BY <1>1, <1>2 DEF TimerKnown
  <1>4. QED
    BY <1>3 DEF TimersListed, TimersKnown

\* A tick of the clock brings every timer nearer.
LEMMA TickKeeps ==
  ASSUME TimersInv, Timers!Tick
  PROVE  TimersInv'
  <1>1. /\ now \in 0 .. Round - 1 /\ ThreadKnown /\ early \in Int /\ early <= 0
        /\ TimersKnown(next_timeout, now, Floor)
        /\ PoolKnown(next_timeout, tcpip_tcp_timer_active)
        /\ tcpip_tcp_timer_active \in BOOLEAN /\ tcp_pcbs \in BOOLEAN
        /\ tcp_pcbs => tcpip_tcp_timer_active
    BY DEF TimersInv, TimersListed
  <1>2. /\ UNCHANGED <<tcpip_tcp_timer_active, tcp_pcbs, thread, checked, early>>
        /\ IF thread = "asleep"
             THEN sleeptime > 0 /\ sleeptime' = sleeptime - 1 /\ UNCHANGED awake
             ELSE awake < Slow /\ awake' = awake + 1 /\ UNCHANGED sleeptime
    BY DEF Timers!Tick
  <1>3. /\ ArpInterval \in Nat \ {0} /\ Slow \in Nat /\ Floor \in Int
    BY <1>1, ClockFacts, FloorBounds
  <1>4. /\ now' \in 0 .. Round - 1
        /\ TimersKnown(next_timeout', now', Floor - 1)
        /\ PoolKnown(next_timeout', tcpip_tcp_timer_active)
        /\ \A c \in Nat : (now - c) % Round = (now' - (c + 1)) % Round
    BY <1>1, <1>3, TimersNearer
  <1>5. /\ sleeptime \in Nat /\ awake \in 0 .. Slow
        /\ thread \in {"fetch", "asleep", "message", "timeout", "check"}
        /\ thread = "asleep" => sleeptime <= ArpInterval /\ awake = 0
        /\ thread = "check" => \E c \in 0 .. awake : checked = (now - c) % Round
    BY <1>1 DEF ThreadKnown
  <1>6. Floor' = Floor - 1
    <2>1. CASE thread = "asleep"
      BY <1>2, <1>3, <1>5, <2>1 DEF Floor
    <2>2. CASE thread # "asleep"
      BY <1>2, <1>3, <1>5, <2>2 DEF Floor
    <2>3. QED
      BY <2>1, <2>2
  <1>7. ThreadKnown'
    <2>1. CASE thread = "asleep"
      BY <1>2, <1>3, <1>5, <2>1 DEF ThreadKnown
    <2>2. CASE thread # "asleep"
      <3>1. sleeptime' \in Nat /\ awake' \in 0 .. Slow /\ awake' = awake + 1
        BY <1>2, <1>3, <1>5, <2>2
      <3>2. ASSUME thread = "check"
            PROVE  \E c \in 0 .. awake' : checked' = (now' - c) % Round
        <4>1. PICK c \in 0 .. awake : checked = (now - c) % Round
          BY <1>5, <3>2
        <4>2. c \in Nat /\ c + 1 \in 0 .. awake'
          BY <1>5, <3>1
        <4>3. checked' = (now' - (c + 1)) % Round
          BY <1>2, <1>4, <4>1, <4>2
        <4>4. QED
          BY <4>2, <4>3
      <3>3. QED
        BY <1>2, <1>5, <2>2, <3>1, <3>2 DEF ThreadKnown
    <2>3. QED
      BY <2>1, <2>2
  <1>8. TimersListed(next_timeout, tcpip_tcp_timer_active, tcp_pcbs, now, Floor)'
    BY <1>1, <1>2, <1>4, <1>6 DEF TimersListed
  <1>9. QED
    BY <1>1, <1>2, <1>4, <1>7, <1>8 DEF TimersInv

\* The list that sys_timeouts_init makes.
LEMMA TimersInit == ASSUME Timers!Init PROVE TimersInv
  <1>1. /\ now = 0 /\ next_timeout = <<Timers!Timeout(now + ArpInterval, "arp", ArpInterval)>>
        /\ tcpip_tcp_timer_active = FALSE /\ tcp_pcbs = FALSE
        /\ thread = "fetch" /\ sleeptime = 0 /\ awake = 0 /\ early = 0
    BY DEF Timers!Init
  <1>2. /\ ArpInterval \in Nat \ {0} /\ ArpInterval <= Longest /\ Round \in Nat \ {0}
        /\ Slow \in Nat /\ UserTimers \in Nat
    BY ClockFacts, TimerBounds
  <1>3. ThreadKnown /\ now \in 0 .. Round - 1
    BY <1>1, <1>2 DEF ThreadKnown
  <1>4. Floor \in Int /\ Floor <= 1 /\ now \in Int
    BY <1>1, <1>3, FloorBounds
  <1> DEFINE e == Timers!Timeout(now + ArpInterval, "arp", ArpInterval)
  <1>5. e \in TimerRecords /\ TimerKnown(e, now, Floor) /\ e.h = "arp"
    <2>1. PICK n \in Int, floor \in Int, d \in Nat \ {0} :
            n = now /\ floor = Floor /\ d = ArpInterval
      BY <1>2, <1>4
    <2>2. "arp" \in {"arp", "tcp", "user"} /\ d <= Longest /\ d <= ArpInterval /\ floor <= 1
      BY <1>2, <1>4, <2>1
    <2>3. /\ Timers!Timeout(n + d, "arp", d) \in TimerRecords
          /\ TimerKnown(Timers!Timeout(n + d, "arp", d), n, floor)
          /\ Timers!Timeout(n + d, "arp", d).h = "arp"
      BY <2>2, TimerStarted
    <2>4. QED
      BY <2>1, <2>3
  <1>6. next_timeout = <<e>>
    BY <1>1
  <1> HIDE DEF e
  <1>7. /\ next_timeout \in Seq(TimerRecords) /\ Len(next_timeout) = 1 /\ next_timeout[1] = e
    BY <1>5, <1>6
  <1>8. TimersKnown(next_timeout, now, Floor)
    BY <1>5, <1>7 DEF TimersKnown, InOrderOfTime
  <1>9. PoolKnown(next_timeout, FALSE)
    <2>1. /\ {i \in 1 .. Len(next_timeout) : next_timeout[i].h = "arp"} = {1}
          /\ {i \in 1 .. Len(next_timeout) : next_timeout[i].h = "tcp"} = {}
          /\ {i \in 1 .. Len(next_timeout) : next_timeout[i].h = "user"} = {}
      BY <1>5, <1>7
    <2>2. Cardinality({1}) = 1 /\ Cardinality({}) = 0
      BY FS_Singleton, FS_EmptySet
    <2>3. /\ Count(next_timeout, "arp") = 1 /\ Count(next_timeout, "tcp") = 0
          /\ Count(next_timeout, "user") = 0
      BY <2>1, <2>2, Zenon DEF Count
    <2>4. QED
      BY <1>2, <2>3 DEF PoolKnown
  <1>10. TimersListed(next_timeout, tcpip_tcp_timer_active, tcp_pcbs, now, Floor)
    BY <1>1, <1>8, <1>9 DEF TimersListed
  <1>11. QED
    BY <1>1, <1>3, <1>10 DEF TimersInv

\* The invariant is inductive.
LEMMA TimersStep == ASSUME TimersInv, [Timers!Next]_timersVars PROVE TimersInv'
  <1>1. /\ now \in 0 .. Round - 1 /\ ThreadKnown /\ early \in Int /\ early <= 0
        /\ TimersListed(next_timeout, tcpip_tcp_timer_active, tcp_pcbs, now, Floor)
    BY DEF TimersInv
  <1>2. /\ ArpInterval \in Nat \ {0} /\ Slow \in Nat /\ Round \in Nat \ {0} /\ now \in Int
        /\ (now - 0) % Round = now
    <2>1. /\ ArpInterval \in Nat \ {0} /\ Slow \in Nat /\ Round \in Nat \ {0} /\ now \in Int
          /\ (now + 0) % Round = now
      BY <1>1, ClockFacts
    <2>2. now - 0 = now + 0
      BY <2>1
    <2>3. QED
      BY <2>1, <2>2
  <1>3. /\ sleeptime \in Nat /\ awake \in 0 .. Slow
        /\ thread = "asleep" => sleeptime <= ArpInterval /\ awake = 0
    BY <1>1 DEF ThreadKnown
  <1>4. Floor \in Int /\ Floor >= 1 - ArpInterval - Slow /\ Floor <= 1
    BY <1>1, FloorBounds
  <1>5. CASE Timers!Fetch
    BY <1>5, FetchKeeps
  <1>6. CASE Timers!FetchNothing \/ Timers!LockAfterTimeout
    <2>1. /\ thread \in {"fetch", "timeout"} /\ thread' = "check" /\ checked' = now
          /\ UNCHANGED <<now, next_timeout, tcpip_tcp_timer_active, tcp_pcbs, sleeptime, awake,
                         early>>
      BY <1>6 DEF Timers!FetchNothing, Timers!LockAfterTimeout
    <2>2. Floor' = Floor
      BY <2>1 DEF Floor
    <2>3. checked' = (now' - 0) % Round /\ 0 \in 0 .. awake'
      BY <1>2, <1>3, <2>1
    <2>4. ThreadKnown'
      BY <1>3, <2>1, <2>3 DEF ThreadKnown
    <2>5. TimersListed(next_timeout, tcpip_tcp_timer_active, tcp_pcbs, now, Floor)'
      BY <1>1, <2>1, <2>2
    <2>6. QED
      BY <1>1, <2>1, <2>4, <2>5 DEF TimersInv
  <1>7. CASE Timers!Wake
    <2>1. /\ thread = "asleep" /\ thread' \in {"message", "timeout"} /\ sleeptime' = 0
          /\ UNCHANGED <<now, next_timeout, tcpip_tcp_timer_active, tcp_pcbs, checked, awake,
                         early>>
      BY <1>7 DEF Timers!Wake
    <2>2. Floor' \in Int /\ Floor' <= Floor
      BY <1>2, <1>3, <2>1 DEF Floor
    <2>3. ThreadKnown'
      BY <1>3, <2>1 DEF ThreadKnown
    <2>4. TimersListed(next_timeout, tcpip_tcp_timer_active, tcp_pcbs, now, Floor')
      BY <1>1, <1>4, <2>2, LowerFloor
    <2>5. TimersListed(next_timeout, tcpip_tcp_timer_active, tcp_pcbs, now, Floor)'
      BY <2>1, <2>4
    <2>6. QED
      BY <1>1, <2>1, <2>3, <2>5 DEF TimersInv
  <1>8. CASE Timers!tcpip_thread_handle_msg \/ Timers!OtherThread
    <2>1. /\ Timers!Work /\ UNCHANGED <<now, sleeptime, checked, awake, early>>
          /\ (thread' = thread /\ thread # "check") \/ (thread = "message" /\ thread' = "fetch")
      BY <1>8 DEF Timers!tcpip_thread_handle_msg, Timers!OtherThread, Timers!LockFree
    <2>2. TimersListed(next_timeout', tcpip_tcp_timer_active', tcp_pcbs', now, Floor)
      BY <1>1, <1>2, <1>4, <2>1, WorkKeeps
    <2>3. Floor' = Floor
      BY <2>1 DEF Floor
    <2>4. ThreadKnown'
      BY <1>1, <2>1 DEF ThreadKnown
    <2>5. TimersListed(next_timeout, tcpip_tcp_timer_active, tcp_pcbs, now, Floor)'
      BY <2>1, <2>2, <2>3
    <2>6. QED
      BY <1>1, <2>1, <2>4, <2>5 DEF TimersInv
  <1>9. CASE Timers!CallHandler
    BY <1>9, HandlerKeeps
  <1>10. CASE Timers!CheckEnds
    <2>1. /\ thread = "check" /\ thread' = "fetch" /\ early' = 0
          /\ UNCHANGED <<now, next_timeout, tcpip_tcp_timer_active, tcp_pcbs, sleeptime, awake>>
      BY <1>10 DEF Timers!CheckEnds
    <2>2. Floor' = Floor
      BY <2>1 DEF Floor
    <2>3. ThreadKnown'
      BY <1>3, <2>1 DEF ThreadKnown
    <2>4. TimersListed(next_timeout, tcpip_tcp_timer_active, tcp_pcbs, now, Floor)'
      BY <1>1, <2>1, <2>2
    <2>5. QED
      BY <1>1, <2>1, <2>3, <2>4 DEF TimersInv
  <1>11. CASE Timers!Tick
    BY <1>11, TickKeeps
  <1>12. CASE UNCHANGED timersVars
    <2>1. Floor' = Floor /\ ThreadKnown'
      BY <1>1, <1>12 DEF Floor, ThreadKnown, timersVars
    <2>2. QED
      BY <1>1, <1>12, <2>1 DEF TimersInv, timersVars
  <1>13. QED
    BY <1>5, <1>6, <1>7, <1>8, <1>9, <1>10, <1>11, <1>12 DEF Timers!Next

\* timeouts.c: the list stays in the order of time however the clock wraps, no handler is
\* called early, none is overdue by more than the thread slept and was kept, and the
\* timers of ARP and TCP are neither lost nor doubled, whoever starts timers meanwhile.
THEOREM TimersKeepTime == servicesSpec => []TimersOnTime
  <1>1. TimersInv => TimersOnTime
    <2> SUFFICES ASSUME TimersInv PROVE TimersOnTime
      OBVIOUS
    <2>1. /\ ThreadKnown /\ early <= 0
          /\ TimersKnown(next_timeout, now, Floor)
          /\ PoolKnown(next_timeout, tcpip_tcp_timer_active)
          /\ tcp_pcbs => tcpip_tcp_timer_active
      BY DEF TimersInv, TimersListed
    <2>2. next_timeout \in Seq(TimerRecords) /\ DOMAIN next_timeout = 1 .. Len(next_timeout)
      BY <2>1, LenProperties DEF TimersKnown
    <2>3. \A i, j \in DOMAIN next_timeout : i < j => next_timeout[i].left <= next_timeout[j].left
      BY <2>1, <2>2 DEF TimersKnown, InOrderOfTime
    <2>4. \A i \in DOMAIN next_timeout : next_timeout[i].left >= -Timers!Latest
      <3>1. ASSUME NEW i \in 1 .. Len(next_timeout)
            PROVE  next_timeout[i].left >= -Timers!Latest
        <4>1. next_timeout[i].left \in Int /\ next_timeout[i].left >= Floor
          <5>1. next_timeout[i] \in TimerRecords /\ TimerKnown(next_timeout[i], now, Floor)
            BY <2>1, <2>2, ElementOfSeq DEF TimersKnown
          <5>2. QED
            BY <5>1 DEF TimerKnown, TimerRecords
        <4>2. /\ Floor \in Int /\ Floor >= 1 - ArpInterval - Slow
              /\ ArpInterval \in Int /\ Slow \in Int
          BY <2>1, FloorBounds, ClockFacts
        <4>3. QED
          BY <4>1, <4>2 DEF Timers!Latest
      <3>2. QED
        BY <2>2, <3>1
    <2>5. /\ Timers!Cardinality(Timers!TimersOf("arp")) = 1
          /\ Timers!Cardinality(Timers!TimersOf("tcp"))
               = IF tcpip_tcp_timer_active THEN 1 ELSE 0
      <3>1. \A h : Timers!TimersOf(h) = {i \in 1 .. Len(next_timeout) : next_timeout[i].h = h}
        BY <2>2 DEF Timers!TimersOf
      <3>2. \A h : Timers!Cardinality(Timers!TimersOf(h)) = Count(next_timeout, h)
        BY <3>1, TimersLists DEF Count
      <3>3. QED
        BY <2>1, <3>2 DEF PoolKnown
    <2>6. QED
      BY <2>1, <2>3, <2>4, <2>5 DEF TimersOnTime, Timers!TimersOnTime
  <1>2. QED
    BY <1>1, TimersInit, TimersStep, EachAlone, PTL DEF Timers!Spec, Timers!vars, timersVars

-----------------------------------------------------------------------------
(* The table of etharp.c. *)

ArpState == {"empty", "pending", "stable", "rerequesting 1", "rerequesting 2"}

\* What is said of one entry, whatever the others are: of an empty one nothing is left,
\* what waits goes to its host, and an address is the one last heard.
EntryOk(e, told) ==
    /\ e \in [state : ArpState, ip : Hosts \union {Nobody}, mac : Macs \union {Nobody},
              q : Hosts \union {Nobody}, ctime : 0 .. MaxAge - 1]
    /\ e.state = "empty" => e.ip = Nobody /\ e.q = Nobody
    /\ e.state = "pending" => e.ip \in Hosts /\ e.q \in {Nobody, e.ip} /\ e.ctime < MaxPending
    /\ Arp!Stable(e) => e.ip \in Hosts /\ e.mac = told[e.ip] /\ e.q = Nobody

\* No two entries have one host.
Single(table) ==
    \A i, j \in Arp!Indices :
      i # j /\ table[i].state # "empty" => table[i].ip # table[j].ip

SentRight(frames, told) ==
    \A f \in frames : f.mac = Arp!Everybody \/ f.mac = told[f.host]

ArpInv ==
    /\ DOMAIN arp_table = Arp!Indices /\ DOMAIN heard = Hosts
    /\ \A i \in Arp!Indices : EntryOk(arp_table[i], heard)
    /\ Single(arp_table)
    /\ SentRight(sent, heard)

LEMMA ArpBounds ==
  /\ ARP_TABLE_SIZE \in Nat \ {0} /\ MaxAge \in Nat \ {0} /\ MaxPending \in Nat \ {0}
  /\ Nobody \notin Hosts /\ Gateway \in Hosts \union {Nobody}
  BY ServicesAssumption DEF ServicesAssumption, Arp!ArpAssumption

LEMMA MinIsIn == ASSUME NEW S \in SUBSET Arp!Indices, S # {} PROVE Arp!Min(S) \in S
  <1>1. S \in SUBSET Nat
    BY ArpBounds DEF Arp!Indices
  <1>2. \E x \in S : \A y \in S : x <= y
    BY <1>1, Least
  <1>3. QED
    BY <1>2 DEF Arp!Min

\* The oldest of some entries, of those the last, is one of them.
LEMMA OldestIsIn ==
  ASSUME ArpInv, NEW S \in SUBSET Arp!Indices, S # {}
  PROVE  Arp!Oldest(S) \in S
  <1>1. \A i \in S : i \in 1 .. ARP_TABLE_SIZE /\ arp_table[i].ctime \in 0 .. MaxAge - 1
    BY DEF ArpInv, EntryOk, Arp!Indices
  <1> DEFINE Young == {MaxAge - arp_table[i].ctime : i \in S}
  <1>2. PICK x \in Young : \A y \in Young : x <= y
    <2>1. Young \in SUBSET Nat /\ Young # {}
      BY <1>1, ArpBounds
    <2>2. QED
      BY <2>1, Least
  <1> DEFINE Olds == {i \in S : MaxAge - arp_table[i].ctime = x}
             FromEnd == {ARP_TABLE_SIZE - i : i \in Olds}
  <1>3. PICK z \in FromEnd : \A y \in FromEnd : z <= y
    <2>1. FromEnd \in SUBSET Nat /\ FromEnd # {}
      BY <1>1, <1>2, ArpBounds
    <2>2. QED
      BY <2>1, Least
  <1>4. PICK i \in Olds : z = ARP_TABLE_SIZE - i
    OBVIOUS
  <1>5. ASSUME NEW j \in S
        PROVE  \/ arp_table[j].ctime < arp_table[i].ctime
               \/ arp_table[j].ctime = arp_table[i].ctime /\ j <= i
    <2>1. MaxAge - arp_table[i].ctime <= MaxAge - arp_table[j].ctime
      BY <1>2
    <2>2. CASE j \in Olds
      <3>1. ARP_TABLE_SIZE - i <= ARP_TABLE_SIZE - j
        BY <1>3, <1>4, <2>2
      <3>2. QED
        BY <1>1, <2>1, <2>2, <3>1, ArpBounds
    <2>3. CASE j \notin Olds
      BY <1>1, <2>1, <2>3, ArpBounds
    <2>4. QED
      BY <2>2, <2>3
  <1>6. \E k \in S : \A j \in S :
          \/ arp_table[j].ctime < arp_table[k].ctime
          \/ arp_table[j].ctime = arp_table[k].ctime /\ j <= k
    BY <1>5
  <1>7. QED
    BY <1>6 DEF Arp!Oldest

\* What etharp_find_entry gives is in the table, and if it is not the host's, the host
\* has none.
LEMMA FoundIsThere ==
  ASSUME ArpInv, NEW host \in Hosts, NEW findOnly \in BOOLEAN,
         NEW i \in Arp!Found(host, findOnly)
  PROVE  /\ i \in Arp!Indices
         /\ \/ arp_table[i].state # "empty" /\ arp_table[i].ip = host
                 /\ Arp!Entry(i, host) = arp_table[i]
            \/ /\ \A j \in Arp!Indices : arp_table[j].ip # host
               /\ Arp!Entry(i, host) = [Arp!Empty EXCEPT !.ip = host]
  <1>1. Arp!Matching(host) = {j \in Arp!Indices : arp_table[j].state # "empty" /\ arp_table[j].ip = host}
    BY DEF Arp!Matching, Arp!Entries
  <1>2. CASE Arp!Matching(host) # {}
    <2>1. Arp!Min(Arp!Matching(host)) \in Arp!Matching(host)
      BY <1>1, <1>2, MinIsIn
    <2>2. QED
      BY <1>1, <1>2, <2>1 DEF Arp!Entry, Arp!Found
  <1>3. CASE Arp!Matching(host) = {}
    <2>1. i = Arp!Recycled
      BY <1>3 DEF Arp!Found
    <2>2. Arp!Recycled \in Arp!Indices
      <3> DEFINE empty  == {j \in Arp!Indices : arp_table[j].state = "empty"}
                 stable == {j \in Arp!Indices : Arp!Stable(arp_table[j])}
                 idle   == {j \in Arp!Indices : arp_table[j].state = "pending"
                                                  /\ arp_table[j].q = Nobody}
      <3>1. Arp!Recycled = IF empty # {} THEN Arp!Min(empty)
                           ELSE IF stable # {} THEN Arp!Oldest(stable)
                           ELSE IF idle # {} THEN Arp!Oldest(idle)
                           ELSE Arp!Oldest(Arp!Indices)
        BY DEF Arp!Recycled, Arp!Entries
      <3>2. /\ empty \in SUBSET Arp!Indices /\ stable \in SUBSET Arp!Indices
            /\ idle \in SUBSET Arp!Indices
            /\ Arp!Indices \in SUBSET Arp!Indices /\ Arp!Indices # {}
        BY ArpBounds DEF Arp!Indices
      <3> HIDE DEF empty, stable, idle
      <3>3. QED
        BY <3>1, <3>2, MinIsIn, OldestIsIn
    <2>3. \A j \in Arp!Indices : arp_table[j].ip # host
      BY <1>1, <1>3, ArpBounds DEF ArpInv, EntryOk
    <2>4. QED
      BY <1>3, <2>1, <2>2, <2>3 DEF Arp!Entry
  <1>4. QED
    BY <1>2, <1>3

\* One entry is changed for the better, and the history with it: the others are as they
\* were.
LEMMA EntryChanges ==
  ASSUME ArpInv, NEW i \in Arp!Indices, NEW e, NEW told, NEW host \in Hosts,
         e.ip = host, e.state # "empty", EntryOk(e, told),
         \A j \in Arp!Indices \ {i} : arp_table[j].ip # host,
         \A h \in Hosts \ {host} : told[h] = heard[h],
         Arp!Becomes([arp_table EXCEPT ![i] = e], told),
         SentRight(sent', told), \A f \in sent' : f.host = host \/ f.mac = Arp!Everybody
  PROVE  ArpInv'
  <1>1. arp_table' = [arp_table EXCEPT ![i] = e]
    BY DEF Arp!Becomes
  <1>2. /\ DOMAIN arp_table' = Arp!Indices /\ arp_table'[i] = e
        /\ \A j \in Arp!Indices \ {i} : arp_table'[j] = arp_table[j]
    BY <1>1 DEF ArpInv
  <1>3. \A h \in Hosts :
          (\E j \in Arp!Indices : arp_table'[j].ip = h) => heard'[h] = told[h]
    BY <1>1 DEF Arp!Becomes
  <1>4. \A j \in Arp!Indices : EntryOk(arp_table'[j], heard')
    <2>1. EntryOk(arp_table'[i], heard')
      BY <1>2, <1>3 DEF EntryOk
    <2>2. ASSUME NEW j \in Arp!Indices \ {i} PROVE EntryOk(arp_table'[j], heard')
      BY <1>2, <1>3, <2>2 DEF EntryOk, ArpInv
    <2>3. QED
      BY <2>1, <2>2
  <1>5. Single(arp_table')
    BY <1>2 DEF Single, ArpInv
  <1>6. SentRight(sent', heard')
    BY <1>2, <1>3 DEF SentRight
  <1>7. DOMAIN heard' = Hosts
    BY DEF Arp!Becomes
  <1>8. QED
    BY <1>2, <1>4, <1>5, <1>6, <1>7 DEF ArpInv

\* An entry that was freed.
LEMMA FreedEntry ==
  ASSUME NEW host \in Hosts \union {Nobody}
  PROVE  LET e == [Arp!Empty EXCEPT !.ip = host]
         IN  /\ e \in [state : ArpState, ip : Hosts \union {Nobody},
                      mac : Macs \union {Nobody}, q : Hosts \union {Nobody},
                      ctime : 0 .. MaxAge - 1]
             /\ e.state = "empty" /\ e.ip = host /\ e.q = Nobody /\ e.ctime = 0
  <1>1. 0 \in 0 .. MaxAge - 1
    BY ArpBounds
  <1>2. QED
    BY <1>1 DEF Arp!Empty, ArpState

LEMMA EmptyOk == ASSUME NEW told PROVE EntryOk(Arp!Empty, told)
  <1>1. Arp!Empty = [Arp!Empty EXCEPT !.ip = Nobody]
    BY DEF Arp!Empty
  <1>2. QED
    BY <1>1, FreedEntry DEF EntryOk, Arp!Stable

LEMMA ArpInit == ASSUME Arp!Init PROVE ArpInv
  <1>1. /\ \A i \in Arp!Indices : EntryOk(arp_table[i], heard)
        /\ DOMAIN arp_table = Arp!Indices /\ DOMAIN heard = Hosts /\ sent = {}
    BY EmptyOk DEF Arp!Init
  <1>2. \A i \in Arp!Indices : arp_table[i].state = "empty"
    BY DEF Arp!Init, Arp!Empty
  <1>3. QED
    BY <1>1, <1>2 DEF ArpInv, Single, SentRight

\* A packet goes out, or waits.
LEMMA ArpOutput ==
  ASSUME ArpInv, NEW host \in Hosts, Arp!OutputTo(host)
  PROVE  ArpInv'
  <1> DEFINE mine == {i \in Arp!Matching(host) : Arp!Stable(arp_table[i])}
  <1>1. Arp!Matching(host) = {j \in Arp!Indices : arp_table[j].state # "empty" /\ arp_table[j].ip = host}
    BY DEF Arp!Matching, Arp!Entries
  <1>2. ASSUME NEW i \in mine, Arp!etharp_output_to_arp_index(i)
        PROVE  ArpInv'
    <2> DEFINE e == arp_table[i]
    <2>1. /\ i \in Arp!Indices /\ e.state # "empty" /\ e.ip = host /\ Arp!Stable(e)
          /\ EntryOk(e, heard) /\ e.mac = heard[host]
      BY <1>1 DEF ArpInv, EntryOk
    <2>2. PICK requests \in {{}, Arp!Rerequest(e)} :
            /\ sent' = {Arp!IP(e.ip, e.mac)} \union requests
            /\ Arp!Becomes([arp_table EXCEPT ![i].state =
                              IF requests = {} THEN @ ELSE "rerequesting 1"], heard)
      BY <1>2 DEF Arp!etharp_output_to_arp_index
    <2>3. PICK s \in ArpState :
            /\ s \in {"stable", "rerequesting 1", "rerequesting 2"}
            /\ Arp!Becomes([arp_table EXCEPT ![i] = [e EXCEPT !.state = s]], heard)
      <3>1. CASE requests = {}
        <4>1. [arp_table EXCEPT ![i].state = @] = [arp_table EXCEPT ![i] = [e EXCEPT !.state = e.state]]
          BY <2>1 DEF ArpInv
        <4>2. e.state \in ArpState /\ e.state \in {"stable", "rerequesting 1", "rerequesting 2"}
          BY <2>1 DEF EntryOk, Arp!Stable
        <4>3. QED
          BY <2>2, <3>1, <4>1, <4>2
      <3>2. CASE requests # {}
        <4>1. [arp_table EXCEPT ![i].state = "rerequesting 1"]
                = [arp_table EXCEPT ![i] = [e EXCEPT !.state = "rerequesting 1"]]
          BY <2>1 DEF ArpInv
        <4>2. QED
          BY <2>2, <3>2, <4>1 DEF ArpState
      <3>3. QED
        BY <3>1, <3>2
    <2> DEFINE d == [e EXCEPT !.state = s]
    <2>4. EntryOk(d, heard) /\ d.ip = host /\ d.state # "empty"
      BY <2>1, <2>3 DEF EntryOk, Arp!Stable
    <2>5. \A j \in Arp!Indices \ {i} : arp_table[j].ip # host
      BY <2>1 DEF ArpInv, Single
    <2>6. \A f \in sent' : f.host = host /\ f.mac \in {heard[host], Arp!Everybody}
      <3>1. \A f \in Arp!Rerequest(e) : f.host = e.ip /\ f.mac \in {e.mac, Arp!Everybody}
        <4>1. \/ Arp!Rerequest(e) = {}
              \/ Arp!Rerequest(e) = {Arp!etharp_request(e.ip)}
              \/ Arp!Rerequest(e) = {Arp!etharp_request_dst(e)}
          BY Zenon DEF Arp!Rerequest
        <4>2. QED
          BY <4>1 DEF Arp!etharp_request, Arp!etharp_request_dst
      <3>2. Arp!IP(e.ip, e.mac).host = e.ip /\ Arp!IP(e.ip, e.mac).mac = e.mac
        BY DEF Arp!IP
      <3>3. \A f \in sent' : f = Arp!IP(e.ip, e.mac) \/ f \in Arp!Rerequest(e)
        BY <2>2
      <3>4. QED
        BY <2>1, <3>1, <3>2, <3>3
    <2>7. SentRight(sent', heard)
      BY <2>6 DEF SentRight
    <2>8. \A f \in sent' : f.host = host \/ f.mac = Arp!Everybody
      BY <2>6
    <2>9. Arp!Becomes([arp_table EXCEPT ![i] = d], heard)
      BY <2>3
    <2> HIDE DEF d
    <2>10. QED
      BY <2>1, <2>4, <2>5, <2>7, <2>8, <2>9, EntryChanges
  <1>3. ASSUME mine = {}, Arp!etharp_query(host)
        PROVE  ArpInv'
    <2>1. PICK i \in Arp!Found(host, FALSE), queue \in BOOLEAN, ask \in BOOLEAN :
            LET e == Arp!Entry(i, host)
            IN  /\ sent' = IF e.state = "empty" /\ ask THEN {Arp!etharp_request(host)} ELSE {}
                /\ Arp!Becomes([arp_table EXCEPT ![i] =
                        [e EXCEPT !.state = "pending", !.q = IF queue THEN host ELSE @]],
                     heard)
      BY <1>3 DEF Arp!etharp_query
    <2> DEFINE e == Arp!Entry(i, host)
               d == [e EXCEPT !.state = "pending", !.q = IF queue THEN host ELSE @]
    <2>2. /\ i \in Arp!Indices
          /\ \/ arp_table[i].state # "empty" /\ arp_table[i].ip = host /\ e = arp_table[i]
             \/ /\ \A j \in Arp!Indices : arp_table[j].ip # host
                /\ e = [Arp!Empty EXCEPT !.ip = host]
      BY FoundIsThere
    <2>3. EntryOk(d, heard) /\ d.ip = host /\ d.state # "empty"
      <3>1. CASE arp_table[i].state # "empty" /\ arp_table[i].ip = host /\ e = arp_table[i]
        <4>1. EntryOk(e, heard)
          BY <2>2, <3>1 DEF ArpInv
        <4>2. e.state # "empty" /\ ~Arp!Stable(e)
          <5>1. i \in Arp!Matching(host)
            BY <1>1, <2>2, <3>1
          <5>2. ~Arp!Stable(arp_table[i])
            BY <1>3, <5>1
          <5>3. QED
            BY <3>1, <5>2
        <4>3. e.state \in ArpState /\ e.state = "pending"
          BY <4>1, <4>2 DEF EntryOk, Arp!Stable, ArpState
        <4>4. QED
          BY <3>1, <4>1, <4>3 DEF EntryOk, Arp!Stable
      <3>2. CASE e = [Arp!Empty EXCEPT !.ip = host]
        <4>1. /\ e \in [state : ArpState, ip : Hosts \union {Nobody},
                        mac : Macs \union {Nobody}, q : Hosts \union {Nobody},
                        ctime : 0 .. MaxAge - 1]
              /\ e.ip = host /\ e.q = Nobody /\ e.ctime < MaxPending
          BY <3>2, FreedEntry, ArpBounds
        <4>2. d.state = "pending" /\ d.ip = host /\ d.q \in {Nobody, host}
                /\ d.ctime = e.ctime /\ d.mac = e.mac
          BY <4>1
        <4>3. d \in [state : ArpState, ip : Hosts \union {Nobody},
                     mac : Macs \union {Nobody}, q : Hosts \union {Nobody},
                     ctime : 0 .. MaxAge - 1]
          BY <4>1 DEF ArpState
        <4>4. QED
          BY <4>1, <4>2, <4>3 DEF EntryOk, Arp!Stable
      <3>3. QED
        BY <2>2, <3>1, <3>2
    <2>4. \A j \in Arp!Indices \ {i} : arp_table[j].ip # host
      BY <2>2 DEF ArpInv, Single
    <2>5. \A f \in sent' : f.mac = Arp!Everybody
      BY <2>1 DEF Arp!etharp_request
    <2>6. Arp!Becomes([arp_table EXCEPT ![i] = d], heard)
      BY <2>1
    <2>7. SentRight(sent', heard)
      BY <2>5 DEF SentRight
    <2> HIDE DEF d
    <2>8. QED
      BY <2>2, <2>3, <2>4, <2>5, <2>6, <2>7, EntryChanges
  <1>4. CASE mine # {}
    <2>1. Arp!Min(mine) \in mine
      BY <1>1, <1>4, MinIsIn
    <2>2. QED
      BY <1>2, <1>4, <2>1, Zenon DEF Arp!OutputTo
  <1>5. QED
    BY <1>3, <1>4 DEF Arp!OutputTo

\* An ARP packet comes.
LEMMA ArpInput ==
  ASSUME ArpInv, NEW host \in Hosts, NEW mac \in Macs, NEW forUs \in BOOLEAN,
         Arp!etharp_update_arp_entry(host, mac, forUs)
  PROVE  ArpInv'
  <1>1. CASE Arp!Found(host, ~forUs) = {}
    BY <1>1 DEF Arp!etharp_update_arp_entry, ArpInv, SentRight
  <1>2. CASE Arp!Found(host, ~forUs) # {}
    <2> DEFINE told == [heard EXCEPT ![host] = mac]
    <2>1. PICK i \in Arp!Found(host, ~forUs) :
            LET e == Arp!Entry(i, host)
            IN  /\ sent' = IF e.q = Nobody THEN {} ELSE {Arp!IP(e.q, mac)}
                /\ Arp!Becomes([arp_table EXCEPT ![i] =
                               [e EXCEPT !.state = "stable", !.mac = mac, !.ctime = 0,
                                         !.q = Nobody]], told)
      BY <1>2 DEF Arp!etharp_update_arp_entry
    <2> DEFINE e == Arp!Entry(i, host)
               d == [e EXCEPT !.state = "stable", !.mac = mac, !.ctime = 0, !.q = Nobody]
    <2>2. (~forUs) \in BOOLEAN
      OBVIOUS
    <2>3. /\ i \in Arp!Indices
          /\ \/ arp_table[i].state # "empty" /\ arp_table[i].ip = host /\ e = arp_table[i]
             \/ /\ \A j \in Arp!Indices : arp_table[j].ip # host
                /\ e = [Arp!Empty EXCEPT !.ip = host]
      BY <2>2, FoundIsThere
    <2>4. /\ e \in [state : ArpState, ip : Hosts \union {Nobody}, mac : Macs \union {Nobody},
                    q : Hosts \union {Nobody}, ctime : 0 .. MaxAge - 1]
          /\ e.ip = host /\ e.q \in {Nobody, host}
      <3>1. CASE arp_table[i].state # "empty" /\ arp_table[i].ip = host /\ e = arp_table[i]
        BY <2>3, <3>1 DEF ArpInv, EntryOk, Arp!Stable, ArpState
      <3>2. CASE e = [Arp!Empty EXCEPT !.ip = host]
        BY <3>2, FreedEntry
      <3>3. QED
        BY <2>3, <3>1, <3>2
    <2>5. told[host] = mac /\ \A h \in Hosts \ {host} : told[h] = heard[h]
      BY DEF ArpInv
    <2>6. EntryOk(d, told) /\ d.ip = host /\ d.state # "empty"
      <3>1. 0 \in 0 .. MaxAge - 1 /\ "stable" \in ArpState
        BY ArpBounds DEF ArpState
      <3>2. d \in [state : ArpState, ip : Hosts \union {Nobody},
                   mac : Macs \union {Nobody}, q : Hosts \union {Nobody},
                   ctime : 0 .. MaxAge - 1]
        BY <2>4, <3>1
      <3>3. d.state = "stable" /\ d.ip = host /\ d.mac = mac /\ d.q = Nobody
        BY <2>4
      <3>4. QED
        BY <2>5, <3>2, <3>3 DEF EntryOk, Arp!Stable
    <2>7. \A j \in Arp!Indices \ {i} : arp_table[j].ip # host
      BY <2>3 DEF ArpInv, Single
    <2>8. \A f \in sent' : f.host = host /\ f.mac = told[host]
      BY <2>1, <2>4, <2>5 DEF Arp!IP
    <2>9. Arp!Becomes([arp_table EXCEPT ![i] = d], told)
      BY <2>1
    <2>10. SentRight(sent', told)
      BY <2>8 DEF SentRight
    <2> HIDE DEF d, told
    <2>11. QED
      BY <2>3, <2>5, <2>6, <2>7, <2>8, <2>9, <2>10, EntryChanges
  <1>3. QED
    BY <1>1, <1>2

\* The timer forgets hosts and changes no address.
LEMMA ArpTimer == ASSUME ArpInv, Arp!etharp_tmr PROVE ArpInv'
  <1> DEFINE table == [i \in Arp!Indices |-> Arp!Aged(arp_table[i])]
  <1>1. /\ Arp!Becomes(table, heard)
        /\ \A f \in sent' : f.mac = Arp!Everybody
    BY DEF Arp!etharp_tmr, Arp!etharp_request
  <1>2. \A i \in Arp!Indices :
          \/ table[i] = Arp!Empty
          \/ /\ EntryOk(table[i], heard) /\ table[i].ip = arp_table[i].ip
             /\ table[i].state # "empty" => arp_table[i].state # "empty"
    <2>1. SUFFICES ASSUME NEW i \in Arp!Indices, Arp!Aged(arp_table[i]) # Arp!Empty
                   PROVE  /\ EntryOk(table[i], heard) /\ table[i].ip = arp_table[i].ip
                          /\ table[i].state # "empty" => arp_table[i].state # "empty"
      OBVIOUS
    <2> DEFINE e == arp_table[i]
               older == [e EXCEPT !.ctime = @ + 1]
    <2>2. EntryOk(e, heard) /\ table[i] = Arp!Aged(e)
      BY DEF ArpInv
    <2>3. CASE e.state = "empty"
      BY <2>2, <2>3 DEF Arp!Aged
    <2>4. CASE e.state # "empty"
      <3>1. ~Arp!Old(older) /\ Arp!Aged(e) \in {older, [older EXCEPT !.state = "rerequesting 2"], [older EXCEPT !.state = "stable"]}
        BY <2>1, <2>4 DEF Arp!Aged
      <3>2. EntryOk(older, heard) /\ older.ip = e.ip /\ older.state = e.state
        <4>1. /\ older.ctime = e.ctime + 1 /\ e.ctime \in Nat
              /\ older.state = e.state /\ older.ip = e.ip /\ older.mac = e.mac
              /\ older.q = e.q
          BY <2>2, ArpBounds DEF EntryOk
        <4>2. /\ older.ctime \in 0 .. MaxAge - 1
              /\ e.state = "pending" => older.ctime < MaxPending
          BY <3>1, <4>1, ArpBounds DEF Arp!Old
        <4>3. older \in [state : ArpState, ip : Hosts \union {Nobody},
                         mac : Macs \union {Nobody}, q : Hosts \union {Nobody},
                         ctime : 0 .. MaxAge - 1]
          BY <2>2, <4>1, <4>2 DEF EntryOk
        <4>4. QED
          BY <2>2, <2>4, <4>1, <4>2, <4>3 DEF EntryOk, Arp!Stable
      <3>3. Arp!Aged(e) # older => Arp!Stable(e)
        BY <2>4, <3>1 DEF Arp!Aged, Arp!Stable
      <3>4. EntryOk(Arp!Aged(e), heard) /\ Arp!Aged(e).ip = e.ip
        BY <3>1, <3>2, <3>3 DEF EntryOk, Arp!Stable, ArpState
      <3>5. QED
        BY <2>2, <2>4, <3>4
    <2>5. QED
      BY <2>3, <2>4
  <1>3. arp_table' = table
    BY <1>1 DEF Arp!Becomes
  <1>4. \A h \in Hosts : (\E j \in Arp!Indices : table[j].ip = h) => heard'[h] = heard[h]
    BY <1>1 DEF Arp!Becomes
  <1> HIDE DEF table
  <1>5. EntryOk(Arp!Empty, heard') /\ Arp!Empty.state = "empty" /\ Arp!Empty.ip = Nobody
    BY EmptyOk DEF Arp!Empty
  <1>6. \A i \in Arp!Indices : EntryOk(table[i], heard')
    BY <1>2, <1>4, <1>5 DEF EntryOk
  <1>7. Single(table)
    <2>1. \A i \in Arp!Indices :
            table[i].state # "empty" =>
              /\ table[i].ip \in Hosts /\ table[i].ip = arp_table[i].ip
              /\ arp_table[i].state # "empty"
      BY <1>2, <1>5, <1>6 DEF EntryOk, ArpState, Arp!Stable
    <2>2. \A j \in Arp!Indices : table[j].ip \in {arp_table[j].ip, Nobody}
      BY <1>2, <1>5
    <2>3. QED
      BY <2>1, <2>2, ArpBounds DEF Single, ArpInv
  <1>8. DOMAIN table = Arp!Indices /\ DOMAIN heard' = Hosts
    BY <1>1 DEF Arp!Becomes, table
  <1>9. QED
    BY <1>1, <1>3, <1>6, <1>7, <1>8 DEF ArpInv, SentRight

LEMMA ArpStep == ASSUME ArpInv, [Arp!Next]_(Arp!vars) PROVE ArpInv'
  <1>1. CASE UNCHANGED Arp!vars
    BY <1>1 DEF Arp!vars, ArpInv
  <1>2. CASE Arp!etharp_output
    <2>1. CASE sent' = {Arp!IP(Arp!Everybody, Arp!Everybody)} /\ UNCHANGED <<arp_table, heard>>
      BY <2>1 DEF ArpInv, SentRight, Arp!IP
    <2>2. CASE \E host \in Hosts : Arp!OutputTo(host)
      BY <2>2, ArpOutput
    <2>3. CASE Gateway # Nobody /\ Arp!OutputTo(Gateway)
      BY <2>3, ArpOutput, ArpBounds
    <2>4. QED
      BY <1>2, <2>1, <2>2, <2>3 DEF Arp!etharp_output
  <1>3. CASE Arp!etharp_input
    BY <1>3, ArpInput DEF Arp!etharp_input
  <1>4. CASE Arp!etharp_cleanup_netif
    <2>1. sent' = {} /\ arp_table' = [i \in Arp!Indices |-> Arp!Empty]
      BY <1>4 DEF Arp!etharp_cleanup_netif, Arp!Becomes
    <2>2. /\ EntryOk(Arp!Empty, heard') /\ Arp!Empty.state = "empty"
          /\ DOMAIN heard' = Hosts
      BY <1>4, EmptyOk DEF Arp!Empty, Arp!etharp_cleanup_netif, Arp!Becomes
    <2>3. QED
      BY <2>1, <2>2 DEF ArpInv, Single, SentRight
  <1>5. QED
    BY <1>1, <1>2, <1>3, <1>4, ArpTimer DEF Arp!Next

\* A packet goes to the address its host has told last, at once or after it waited,
\* though entries are recycled and forgotten meanwhile.
THEOREM AddressesAreRight == servicesSpec => []RightAddress
  <1>1. ArpInv => RightAddress
    BY DEF ArpInv, EntryOk, Single, SentRight, RightAddress, Arp!RightAddress
  <1>2. QED
    BY <1>1, ArpInit, ArpStep, EachAlone, PTL DEF Arp!Spec

=============================================================================
