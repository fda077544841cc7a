---------------------------- MODULE Kernel_proofs ----------------------------
(***************************************************************************)
(* Proofs about the tick, the lists and the scheduling of FreeRTOS, for    *)
(* any tasks and priorities, any width of the tick and any delays.         *)
(***************************************************************************)
EXTENDS Kernel, FiniteSetTheorems, Lemmas

(* ---- the inductive invariant ---- *)

\* The tasks that are on a list of delayed or suspended tasks.
Asleep == ToSet(Owners(delayed)) \union ToSet(Owners(overflow)) \union ToSet(suspended)

\* A list of delayed tasks has each of them once and is in the order of their
\* wake times.
DelayList(list) ==
    /\ list \in Seq(Items) /\ IsInjective(Owners(list))
    /\ \A i \in 1 .. Len(list), j \in 1 .. Len(list) :
         i < j => list[i].value <= list[j].value

\* An event list has the tasks once and by descending priority.
EventList(list) ==
    /\ list \in Seq(Tasks) /\ IsInjective(list)
    /\ \A i \in 1 .. Len(list), j \in 1 .. Len(list) :
         i < j => Priority[list[i]] >= Priority[list[j]]

\* A ready list has the marker and tasks, each once.
RingList(list) ==
    list \in Seq(Tasks \union {End}) /\ IsInjective(list) /\ End \in ToSet(list)

\* Wake times of this round of the tick are to come and those of the next one
\* are before now, and no task is to be woken before xNextTaskUnblockTime.
TimeKnown ==
    /\ \A item \in ToSet(delayed) :
         xTickCount < item.value /\ xNextTaskUnblockTime <= item.value
    /\ \A item \in ToSet(overflow) : item.value < xTickCount

\* No task is twice on the lists of sleeping tasks.
SleepersKnown ==
    /\ DelayList(delayed) /\ DelayList(overflow) /\ IsInjective(suspended)
    /\ ToSet(Owners(delayed)) \intersect ToSet(Owners(overflow)) = {}
    /\ ToSet(Owners(delayed)) \intersect ToSet(suspended) = {}
    /\ ToSet(Owners(overflow)) \intersect ToSet(suspended) = {}

\* A ready list holds the marker and the tasks of its priority that are awake,
\* each once.
ReadyKnown ==
    /\ \A p \in Priorities :
         /\ RingList(ready[p])
         /\ ToSet(ready[p]) = {End} \union {t \in Tasks : Priority[t] = p /\ t \notin Asleep}
    /\ uxTopReadyPriority = {p \in Priorities : Len(ready[p]) > 1}

\* Who waits for an event, or whose event happened, is asleep; the first to be
\* woken is of the highest priority.
WaitersKnown ==
    /\ EventList(events) /\ IsInjective(xPendingReadyList)
    /\ ToSet(events) \union ToSet(xPendingReadyList) \subseteq Asleep
    /\ ToSet(xPendingReadyList) \intersect ToSet(events) = {}
    /\ uxSchedulerSuspended = 0 => xPendingReadyList = << >>

\* Where in the kernel the tasks are, and when the one that runs is awake.
CallsKnown ==
    LET at == pc[pxCurrentTCB]
    IN  /\ \A t \in Tasks \ {pxCurrentTCB} : pc[t] \in {"run", "yield"}
        /\ pc[Idle] # "add"
        /\ at \in {"add", "resume"} => uxSchedulerSuspended = 1
        /\ at \in {"unwind", "unwind in delay", "yield"} => uxSchedulerSuspended = 0
        /\ at \in {"add", "unwind"} => pxCurrentTCB \notin Asleep
        /\ at = "run" /\ (~switch \/ uxSchedulerSuspended > 0) =>
             pxCurrentTCB \notin Asleep

\* The idle task never sleeps, so that there is always a task to run.
IdleAwake == Idle \notin Asleep

\* Unless a switch is to come, no ready task has a higher priority.
UrgencyKnown == ~switch /\ ~xYieldPending => NoneHigher

KernelInv ==
    /\ TypeOK /\ TimeKnown /\ SleepersKnown /\ ReadyKnown /\ WaitersKnown
    /\ CallsKnown /\ IdleAwake /\ UrgencyKnown

(* ---- parts of lists ---- *)

\* A list made of some of the elements of another, each once.
LEMMA Rearranged ==
    ASSUME NEW S, NEW list \in Seq(S), NEW new \in Seq(S),
           NEW f \in [1 .. Len(new) -> 1 .. Len(list)],
           \A i \in 1 .. Len(new) : new[i] = list[f[i]],
           \A i \in 1 .. Len(new), j \in 1 .. Len(new) : f[i] = f[j] => i = j
    PROVE  /\ ToSet(new) = {list[f[i]] : i \in 1 .. Len(new)}
           /\ ToSet(new) \subseteq ToSet(list)
           /\ IsInjective(list) => IsInjective(new)
<1>1. ToSet(new) = {list[f[i]] : i \in 1 .. Len(new)}
  <2>1. \A x \in ToSet(new) : \E i \in 1 .. Len(new) : x = list[f[i]]
    BY Indices
  <2>2. \A i \in 1 .. Len(new) : list[f[i]] \in ToSet(new)
    BY Indices
  <2>3. QED
    BY <2>1, <2>2
<1>2. ToSet(new) \subseteq ToSet(list)
  <2>1. \A i \in 1 .. Len(new) : list[f[i]] \in ToSet(list)
    BY Indices
  <2>2. QED
    BY <1>1, <2>1
<1>3. ASSUME IsInjective(list)
      PROVE  IsInjective(new)
  <2>1. \A i \in 1 .. Len(list), j \in 1 .. Len(list) : list[i] = list[j] => i = j
    BY <1>3, Indices
  <2>2. \A i \in 1 .. Len(new), j \in 1 .. Len(new) : new[i] = new[j] => i = j
    BY <2>1
  <2>3. QED
    BY <2>2, Indices
<1>4. QED
  BY <1>1, <1>2, <1>3

\* Counting the positions up to each one numbers them.
LEMMA Ranked ==
    ASSUME NEW n \in Nat, NEW K \in SUBSET (1 .. n)
    PROVE  LET rank(i) == Cardinality({j \in K : j <= i})
           IN  /\ Cardinality(K) \in Nat
               /\ \A i \in K : rank(i) \in 1 .. Cardinality(K)
               /\ \A i \in K, j \in K : i < j => rank(i) < rank(j)
               /\ \A k \in 1 .. Cardinality(K) : \E i \in K : rank(i) = k
<1> DEFINE upTo(i) == {j \in K : j <= i}
           rank(i) == Cardinality(upTo(i))
<1>1. IsFiniteSet(K) /\ Cardinality(K) \in Nat
  <2>1. 1 \in Int /\ n \in Int
    OBVIOUS
  <2>2. IsFiniteSet(1 .. n)
    BY <2>1, FS_Interval, Zenon
  <2>3. QED
    BY <2>2, FS_Subset, FS_CardinalityType
<1> \A i \in K : i \in Int
  OBVIOUS
<1>2. \A i \in K : upTo(i) \in SUBSET K /\ i \in upTo(i) /\ upTo(i) # {}
  OBVIOUS
<1>3. ASSUME NEW i \in K, NEW j \in K, i < j
      PROVE  upTo(i) \in SUBSET upTo(j) /\ j \notin upTo(i)
  <2>1. \A k \in K : k <= i => k <= j
    BY <1>3
  <2>2. ~(j <= i)
    BY <1>3
  <2>3. QED
    BY <2>1, <2>2
<1> HIDE DEF upTo
<1>4. \A i \in K : IsFiniteSet(upTo(i)) /\ rank(i) \in Nat /\ rank(i) <= Cardinality(K)
  BY <1>1, <1>2, FS_Subset, FS_CardinalityType
<1>5. \A i \in K : rank(i) # 0
  BY <1>2, <1>4, FS_EmptySet
<1>6. \A i \in K : rank(i) \in 1 .. Cardinality(K)
  BY <1>1, <1>4, <1>5
<1>7. ASSUME NEW i \in K, NEW j \in K, i < j
      PROVE  rank(i) < rank(j)
  <2>1. upTo(i) \in SUBSET upTo(j) /\ upTo(i) # upTo(j)
    BY <1>2, <1>3, <1>7
  <2>2. rank(i) <= rank(j) /\ rank(i) # rank(j)
    BY <1>4, <2>1, FS_Subset
  <2>3. QED
    BY <1>4, <2>2
<1>8. ASSUME NEW k \in 1 .. Cardinality(K)
      PROVE  \E i \in K : rank(i) = k
  <2> DEFINE f == [i \in K |-> rank(i)]
             c == Cardinality(K)
  <2>1. f \in [K -> 1 .. c]
    BY <1>6
  <2>2. \A i, j \in K : f[i] = f[j] => i = j
    BY <1>4, <1>7
  <2>3. f \in Injection(K, 1 .. c)
    BY <2>1, <2>2 DEF Injection, IsInjective
  <2>4. IsFiniteSet(1 .. c) /\ Cardinality(1 .. c) = c
    BY <1>1, FS_Interval
  <2> HIDE DEF f
  <2>5. f \in Surjection(K, 1 .. c)
    BY <2>3, <2>4, FS_Injection
  <2>6. PICK i \in K : f[i] = k
    BY <2>5 DEF Surjection
  <2>7. QED
    BY <2>6 DEF f
<1>9. QED
  BY <1>1, <1>6, <1>7, <1>8 DEF upTo

\* Among takes exactly the elements at the positions, in their order.
LEMMA AmongSound ==
    ASSUME NEW S, NEW list \in Seq(S), NEW K \in SUBSET (1 .. Len(list))
    PROVE  LET new == Among(list, K)
           IN  /\ new \in Seq(S)
               /\ ToSet(new) = {list[i] : i \in K}
               /\ IsInjective(list) => IsInjective(new)
               /\ \A j \in 1 .. Len(new), k \in 1 .. Len(new) :
                    j < k => \E a \in K, b \in K :
                               a < b /\ new[j] = list[a] /\ new[k] = list[b]
<1> DEFINE rank(i) == Cardinality({j \in K : j <= i})
           c == Cardinality(K)
           nth(k) == CHOOSE i \in K : rank(i) = k
           f == [k \in 1 .. c |-> nth(k)]
           new == Among(list, K)
<1>1. Len(list) \in Nat /\ \A i \in 1 .. Len(list) : list[i] \in S
  BY LenProperties, ElementOfSeq
<1>2. /\ c \in Nat
      /\ \A i \in K : rank(i) \in 1 .. c
      /\ \A i \in K, j \in K : i < j => rank(i) < rank(j)
      /\ \A k \in 1 .. c : \E i \in K : rank(i) = k
  BY <1>1, Ranked
<1>3. new = [k \in 1 .. c |-> list[nth(k)]]
  BY DEF Among
<1> \A i \in K : i \in Int
  BY <1>1
<1> HIDE DEF rank
<1>4. \A k \in 1 .. c : nth(k) \in K /\ rank(nth(k)) = k
  BY <1>2
<1> HIDE DEF nth, c
<1>5. new \in Seq(S) /\ Len(new) = c
  <2>1. \A k \in 1 .. c : list[nth(k)] \in S
    BY <1>1, <1>4
  <2>2. [k \in 1 .. c |-> list[nth(k)]] \in [1 .. c -> S]
    BY <2>1
  <2>3. QED
    BY <1>2, <1>3, <2>2
<1>6. f \in [1 .. Len(new) -> 1 .. Len(list)]
  BY <1>4, <1>5
<1>7. \A k \in 1 .. Len(new) : new[k] = list[f[k]] /\ f[k] \in K
  BY <1>3, <1>4, <1>5
<1>8. ASSUME NEW j \in 1 .. Len(new), NEW k \in 1 .. Len(new), j < k
      PROVE  f[j] < f[k]
  <2>1. PICK a \in K, b \in K : a = nth(j) /\ b = nth(k) /\ rank(a) = j /\ rank(b) = k
    BY <1>4, <1>5
  <2>2. ~(rank(b) < rank(a)) /\ rank(a) # rank(b)
    BY <1>8, <2>1, <1>5, <1>2
  <2>3. ~(b < a) /\ a # b
    BY <1>2, <2>2
  <2>4. a < b
    BY <2>3
  <2>5. QED
    BY <1>5, <2>1, <2>4
<1>9. ASSUME NEW i \in K
      PROVE  \E k \in 1 .. Len(new) : f[k] = i
  <2>1. PICK k \in 1 .. c : k = rank(i)
    BY <1>2
  <2>2. PICK a \in K : a = nth(k) /\ rank(a) = rank(i)
    BY <1>4, <2>1
  <2>3. rank(i) \in 1 .. c /\ rank(a) = rank(i)
    BY <1>2, <2>2
  <2>4. ~(a < i) /\ ~(i < a)
    BY <1>2, <2>3
  <2>5. a = i
    BY <2>4
  <2>6. QED
    BY <1>5, <2>1, <2>2, <2>5
<1> HIDE DEF new, f
<1>10. ASSUME NEW i \in 1 .. Len(new), NEW j \in 1 .. Len(new), f[i] = f[j]
       PROVE  i = j
  <2>1. f[i] \in Int
    BY <1>1, <1>6
  <2>2. ~(i < j) /\ ~(j < i)
    BY <1>8, <1>10, <2>1
  <2>3. QED
    BY <1>2, <1>5, <2>2
<1>11. /\ ToSet(new) = {list[f[i]] : i \in 1 .. Len(new)}
       /\ IsInjective(list) => IsInjective(new)
  <2>1. \A i \in 1 .. Len(new) : new[i] = list[f[i]]
    BY <1>7
  <2>2. \A i \in 1 .. Len(new), j \in 1 .. Len(new) : f[i] = f[j] => i = j
    BY <1>10
  <2>3. ASSUME NEW l \in Seq(S), NEW g \in [1 .. Len(l) -> 1 .. Len(list)],
               l = new, g = f
        PROVE  /\ ToSet(l) = {list[g[i]] : i \in 1 .. Len(l)}
               /\ IsInjective(list) => IsInjective(l)
    <3>1. /\ \A i \in 1 .. Len(l) : l[i] = list[g[i]]
          /\ \A i \in 1 .. Len(l), j \in 1 .. Len(l) : g[i] = g[j] => i = j
      BY <2>1, <2>2, <2>3
    <3>2. QED
      BY <3>1, Rearranged, SMTT(40)
  <2>4. QED
    BY <1>5, <1>6, <2>3
<1>12. {list[f[i]] : i \in 1 .. Len(new)} = {list[i] : i \in K}
  BY <1>7, <1>9, Zenon
<1>13. QED
  BY <1>5, <1>7, <1>8, <1>11, <1>12 DEF new

\* An event list without some of its tasks.
LEMMA OthersSound ==
    ASSUME NEW list \in Seq(Tasks), NEW ts, IsInjective(list)
    PROVE  LET new == Others(list, ts)
           IN  /\ new \in Seq(Tasks) /\ IsInjective(new)
               /\ ToSet(new) = ToSet(list) \ ts
               /\ EventList(list) => EventList(new)
<1> DEFINE K == {i \in 1 .. Len(list) : list[i] \notin ts}
           new == Others(list, ts)
<1>1. Len(list) \in Nat /\ DOMAIN list = 1 .. Len(list)
  BY LenProperties
<1>2. new = Among(list, K)
  BY <1>1 DEF Others
<1>3. ToSet(list) \ ts = {list[i] : i \in K}
  BY <1>1 DEF ToSet
<1>4. K \in SUBSET (1 .. Len(list))
  OBVIOUS
<1> HIDE DEF K, new
<1>5. /\ new \in Seq(Tasks)
      /\ ToSet(new) = {list[i] : i \in K}
      /\ IsInjective(new)
      /\ \A j \in 1 .. Len(new), k \in 1 .. Len(new) :
           j < k => \E a \in K, b \in K :
                      a < b /\ new[j] = list[a] /\ new[k] = list[b]
  <2>1. LET l == Among(list, K)
        IN  /\ l \in Seq(Tasks)
            /\ ToSet(l) = {list[i] : i \in K}
            /\ IsInjective(list) => IsInjective(l)
            /\ \A j \in 1 .. Len(l), k \in 1 .. Len(l) :
                 j < k => \E a \in K, b \in K :
                            a < b /\ l[j] = list[a] /\ l[k] = list[b]
    BY <1>4, AmongSound
  <2>2. QED
    BY <1>2, <2>1
<1>6. ASSUME EventList(list), NEW i \in 1 .. Len(new), NEW j \in 1 .. Len(new), i < j
      PROVE  Priority[new[i]] >= Priority[new[j]]
  <2>1. PICK a \in K, b \in K : a < b /\ new[i] = list[a] /\ new[j] = list[b]
    BY <1>5, <1>6
  <2>2. QED
    BY <1>4, <1>6, <2>1 DEF EventList
<1>7. QED
  BY <1>3, <1>5, <1>6 DEF new, EventList

\* Of tasks, those of one priority.
LEMMA OfPrioritySound ==
    ASSUME NEW list \in Seq(Tasks), NEW p, IsInjective(list)
    PROVE  /\ OfPriority(list, p) \in Seq(Tasks)
           /\ ToSet(OfPriority(list, p)) = {t \in ToSet(list) : Priority[t] = p}
           /\ IsInjective(OfPriority(list, p))
<1> DEFINE K == {i \in 1 .. Len(list) : Priority[list[i]] = p}
<1>1. Len(list) \in Nat /\ DOMAIN list = 1 .. Len(list)
  BY LenProperties
<1>2. OfPriority(list, p) = Among(list, K)
  BY <1>1 DEF OfPriority
<1>3. {t \in ToSet(list) : Priority[t] = p} = {list[i] : i \in K}
  BY <1>1 DEF ToSet
<1>4. K \in SUBSET (1 .. Len(list))
  OBVIOUS
<1> HIDE DEF K
<1>5. QED
  BY <1>2, <1>3, <1>4, AmongSound

\* The wake times of the items of a list, whose owners are all different, are
\* those of their owners.
LEMMA OwnersSound ==
    ASSUME NEW list \in Seq(Items)
    PROVE  /\ Owners(list) \in Seq(Tasks) /\ Len(Owners(list)) = Len(list)
           /\ \A i \in 1 .. Len(list) :
                /\ list[i] \in Items /\ list[i].owner \in Tasks
                /\ Owners(list)[i] = list[i].owner
                /\ list[i].owner \in ToSet(Owners(list))
           /\ \A t \in ToSet(Owners(list)) : \E i \in 1 .. Len(list) : t = list[i].owner
           /\ IsInjective(Owners(list)) <=>
                \A i \in 1 .. Len(list), j \in 1 .. Len(list) :
                  list[i].owner = list[j].owner => i = j
           /\ IsInjective(Owners(list)) => IsInjective(list)
<1>1. /\ Len(list) \in Nat /\ DOMAIN list = 1 .. Len(list)
      /\ \A i \in 1 .. Len(list) : list[i] \in Items
  BY LenProperties, ElementOfSeq
<1>2. \A i \in 1 .. Len(list) : list[i].owner \in Tasks
  BY <1>1 DEF Items
<1>3. Owners(list) \in [1 .. Len(list) -> Tasks]
  BY <1>1, <1>2 DEF Owners
<1>4. Owners(list) \in Seq(Tasks) /\ Len(Owners(list)) = Len(list)
  BY <1>1, <1>3
<1>5. \A i \in 1 .. Len(list) : Owners(list)[i] = list[i].owner
  BY <1>1 DEF Owners
<1>6. /\ \A i \in 1 .. Len(list) : list[i].owner \in ToSet(Owners(list))
      /\ \A t \in ToSet(Owners(list)) : \E i \in 1 .. Len(list) : t = list[i].owner
  <2>1. PICK o \in Seq(Tasks) : o = Owners(list)
    BY <1>4
  <2>2. /\ \A i \in 1 .. Len(list) : o[i] \in ToSet(o)
        /\ \A t \in ToSet(o) : \E i \in 1 .. Len(list) : t = o[i]
    BY <1>4, <2>1, Indices
  <2>3. QED
    BY <1>5, <2>1, <2>2
<1>7. IsInjective(Owners(list)) <=>
        \A i \in 1 .. Len(list), j \in 1 .. Len(list) :
          list[i].owner = list[j].owner => i = j
  <2>1. IsInjective(Owners(list)) <=>
          \A i \in 1 .. Len(Owners(list)), j \in 1 .. Len(Owners(list)) :
            Owners(list)[i] = Owners(list)[j] => i = j
    BY <1>4, Indices
  <2>2. QED
    BY <1>4, <1>5, <2>1
<1>8. IsInjective(Owners(list)) => IsInjective(list)
  BY <1>7, Indices
<1>9. QED
  BY <1>1, <1>2, <1>4, <1>5, <1>6, <1>7, <1>8

\* A task has one item in a list of delayed tasks.
LEMMA ItemsSound ==
    ASSUME NEW list, DelayList(list)
    PROVE  /\ \A item \in ToSet(list) : item \in Items
           /\ ToSet(Owners(list)) = {item.owner : item \in ToSet(list)}
           /\ \A a \in ToSet(list), b \in ToSet(list) : a.owner = b.owner => a = b
<1>1. list \in Seq(Items) /\ IsInjective(Owners(list))
  BY DEF DelayList
<1>2. /\ \A i \in 1 .. Len(list) : list[i] \in Items /\ list[i] \in ToSet(list)
      /\ \A x \in ToSet(list) : \E i \in 1 .. Len(list) : x = list[i]
  BY <1>1, Indices
<1>3. /\ \A i \in 1 .. Len(list) : list[i].owner \in ToSet(Owners(list))
      /\ \A t \in ToSet(Owners(list)) : \E i \in 1 .. Len(list) : t = list[i].owner
      /\ \A i \in 1 .. Len(list), j \in 1 .. Len(list) :
           list[i].owner = list[j].owner => i = j
  BY <1>1, OwnersSound
<1>4. QED
  BY <1>2, <1>3

\* A list of delayed tasks without some of them.
LEMMA WithoutSound ==
    ASSUME NEW list, NEW ts, DelayList(list)
    PROVE  /\ DelayList(Without(list, ts))
           /\ ToSet(Without(list, ts)) = {item \in ToSet(list) : item.owner \notin ts}
<1> DEFINE K == {i \in 1 .. Len(list) : list[i].owner \notin ts}
           new == Without(list, ts)
<1>1. list \in Seq(Items) /\ IsInjective(Owners(list))
  BY DEF DelayList
<1>2. Len(list) \in Nat /\ DOMAIN list = 1 .. Len(list)
  BY <1>1, LenProperties
<1>3. new = Among(list, K)
  BY <1>2 DEF Without
<1>4. {item \in ToSet(list) : item.owner \notin ts} = {list[i] : i \in K}
  BY <1>2 DEF ToSet
<1>5. K \in SUBSET (1 .. Len(list))
  OBVIOUS
<1> HIDE DEF K, new
<1>6. /\ new \in Seq(Items)
      /\ ToSet(new) = {list[i] : i \in K}
      /\ \A j \in 1 .. Len(new), k \in 1 .. Len(new) :
           j < k => \E a \in K, b \in K :
                      a < b /\ new[j] = list[a] /\ new[k] = list[b]
  <2>1. LET l == Among(list, K)
        IN  /\ l \in Seq(Items)
            /\ ToSet(l) = {list[i] : i \in K}
            /\ IsInjective(list) => IsInjective(l)
            /\ \A j \in 1 .. Len(l), k \in 1 .. Len(l) :
                 j < k => \E a \in K, b \in K :
                            a < b /\ l[j] = list[a] /\ l[k] = list[b]
    BY <1>1, <1>5, AmongSound
  <2>2. QED
    BY <1>3, <2>1
<1>7. ASSUME NEW j \in 1 .. Len(new), NEW k \in 1 .. Len(new), j < k
      PROVE  new[j].value <= new[k].value /\ new[j].owner # new[k].owner
  <2>1. PICK a \in K, b \in K : a < b /\ new[j] = list[a] /\ new[k] = list[b]
    BY <1>6, <1>7
  <2>2. a # b /\ a \in 1 .. Len(list) /\ b \in 1 .. Len(list)
    BY <1>5, <2>1
  <2>3. list[a].value <= list[b].value
    BY <2>1, <2>2 DEF DelayList
  <2>4. list[a].owner # list[b].owner
    BY <1>1, <2>2, OwnersSound
  <2>5. QED
    BY <2>1, <2>3, <2>4
<1>8. IsInjective(Owners(new))
  <2>1. Len(new) \in Nat
    BY <1>6, LenProperties
  <2>2. ASSUME NEW j \in 1 .. Len(new), NEW k \in 1 .. Len(new),
               new[j].owner = new[k].owner
        PROVE  j = k
    <3>1. ~(j < k) /\ ~(k < j)
      BY <1>7, <2>2
    <3>2. QED
      BY <2>1, <3>1
  <2>3. QED
    BY <1>6, <2>2, OwnersSound
<1>9. QED
  BY <1>4, <1>6, <1>7, <1>8 DEF new, DelayList

\* vListInsert leaves a list of delayed tasks in order.
LEMMA LeadingSound ==
    ASSUME NEW list \in Seq(Items), NEW v \in Int
    PROVE  LET n == Leading(list, v)
           IN  /\ n \in 0 .. Len(list)
               /\ \A i \in 1 .. n : list[i].value <= v
               /\ n < Len(list) => list[n + 1].value > v
<1> DEFINE N == {n \in 0 .. Len(list) : n = Len(list) \/ list[n + 1].value > v}
<1>1. Len(list) \in Nat /\ \A i \in 1 .. Len(list) : list[i] \in Items
  BY LenProperties, ElementOfSeq
<1>2. \A i \in 1 .. Len(list) : list[i].value \in Int
  BY <1>1, KernelAssumption DEF Items
<1>3. N \in SUBSET Nat /\ N # {}
  BY <1>1
<1>4. PICK n \in N : \A m \in N : n <= m
  <2> HIDE DEF N
  <2>1. QED
    BY <1>3, Least
<1>5. ASSUME NEW i \in 1 .. n
      PROVE  list[i].value <= v
  <2>1. i - 1 \in 0 .. Len(list) /\ i - 1 < n /\ i - 1 # Len(list)
    BY <1>1, <1>4
  <2>2. i - 1 \notin N
    <3>1. ~(n <= i - 1)
      BY <1>1, <1>4
    <3> HIDE DEF N
    <3>2. QED
      BY <1>4, <3>1
  <2>3. ~(list[(i - 1) + 1].value > v)
    BY <2>1, <2>2
  <2>4. i \in 1 .. Len(list) /\ (i - 1) + 1 = i
    BY <1>1, <1>4
  <2>5. QED
    BY <1>2, <2>3, <2>4
<1>6. /\ n \in 0 .. Len(list)
      /\ \A i \in 1 .. n : list[i].value <= v
      /\ n < Len(list) => list[n + 1].value > v
  BY <1>1, <1>4, <1>5
<1>7. QED
  BY <1>6 DEF Leading

LEMMA InsertSound ==
    ASSUME NEW list, DelayList(list), NEW item \in Items,
           item.owner \notin ToSet(Owners(list))
    PROVE  /\ DelayList(Insert(list, item))
           /\ ToSet(Insert(list, item)) = ToSet(list) \union {item}
<1> DEFINE v == item.value
           p == Leading(list, v) + 1
           new == Insert(list, item)
<1>1. list \in Seq(Items) /\ IsInjective(Owners(list)) /\ Len(list) \in Nat
  BY LenProperties DEF DelayList
<1>2. v \in Int /\ item.owner \in Tasks
  BY KernelAssumption DEF Items
<1>3. /\ p \in 1 .. Len(list) + 1
      /\ \A i \in 1 .. p - 1 : list[i].value <= v
      /\ p <= Len(list) => list[p].value > v
  <2> HIDE DEF v
  <2>1. PICK n \in 0 .. Len(list) :
          /\ n = Leading(list, v)
          /\ \A i \in 1 .. n : list[i].value <= v
          /\ n < Len(list) => list[n + 1].value > v
    BY <1>1, <1>2, LeadingSound
  <2>2. p = n + 1 /\ p - 1 = n
    BY <2>1
  <2>3. QED
    BY <1>1, <2>1, <2>2
<1>4. \A i \in 1 .. Len(list) : list[i].value \in Int /\ list[i] \in Items
  <2>1. \A i \in 1 .. Len(list) : list[i] \in Items
    BY <1>1, ElementOfSeq
  <2>2. QED
    BY <2>1, KernelAssumption DEF Items
<1>5. \A i \in 1 .. Len(list) : IF i < p THEN list[i].value <= v ELSE v <= list[i].value
  <2>1. ASSUME NEW i \in 1 .. Len(list), ~(i < p)
        PROVE  v <= list[i].value
    <3>1. list[p].value <= list[i].value
      <4>1. CASE i = p
        BY <1>4, <4>1
      <4>2. CASE i # p
        BY <1>1, <1>3, <2>1, <4>2 DEF DelayList
      <4>3. QED
        BY <4>1, <4>2
    <3>2. list[p].value > v /\ p \in 1 .. Len(list)
      BY <1>1, <1>3, <2>1
    <3>3. QED
      BY <1>2, <1>4, <3>1, <3>2
  <2>2. ASSUME NEW i \in 1 .. Len(list), i < p
        PROVE  list[i].value <= v
    BY <1>1, <1>3, <2>2
  <2>3. QED
    BY <2>1, <2>2
<1>6. new = InsertAt(list, p, item)
  BY DEF Insert
<1> HIDE DEF p, v
<1> HIDE DEF new
<1>7. /\ Gains(Items, new, list, item, p)
      /\ new \in Seq(Items) /\ Len(new) = Len(list) + 1
      /\ \A i \in 1 .. Len(list) + 1 :
           new[i] = IF i < p THEN list[i] ELSE IF i = p THEN item ELSE list[i - 1]
  <2>1. Gains(Items, new, list, item, p)
    BY <1>1, <1>3, <1>6, Inserted
  <2>2. QED
    BY <2>1 DEF Gains
<1>8. ToSet(new) = ToSet(list) \union {item}
  BY <1>1, <1>3, <1>7, ListWith
<1>9. IsInjective(Owners(new))
  <2> DEFINE o == Owners(list)
             n == Owners(new)
  <2>1. /\ o \in Seq(Tasks) /\ Len(o) = Len(list)
        /\ \A i \in 1 .. Len(list) : o[i] = list[i].owner
    BY <1>1, OwnersSound
  <2>2. /\ n \in Seq(Tasks) /\ Len(n) = Len(list) + 1
        /\ \A i \in 1 .. Len(list) + 1 : n[i] = new[i].owner
    BY <1>7, OwnersSound
  <2>3. ASSUME NEW i \in 1 .. Len(o) + 1
        PROVE  n[i] = IF i < p THEN o[i] ELSE IF i = p THEN item.owner ELSE o[i - 1]
    <3>1. n[i] = new[i].owner /\ i \in 1 .. Len(list) + 1
      BY <2>1, <2>2
    <3>2. /\ i < p => i \in 1 .. Len(list)
          /\ i # p /\ ~(i < p) => i - 1 \in 1 .. Len(list)
      BY <1>1, <1>3, <3>1
    <3>3. QED
      BY <1>7, <2>1, <3>1, <3>2
  <2>4. p \in 1 .. Len(o) + 1 /\ IsInjective(o) /\ item.owner \notin ToSet(o)
    BY <1>1, <1>3, <2>1
  <2> HIDE DEF o, n
  <2>5. IsInjective(n)
    <3>1. Gains(Tasks, n, o, item.owner, p)
      BY <2>1, <2>2, <2>3 DEF Gains
    <3>2. QED
      BY <1>2, <2>1, <2>4, <3>1, ListWith
  <2>6. QED
    BY <2>5 DEF n
<1>10. ASSUME NEW i \in 1 .. Len(new), NEW j \in 1 .. Len(new), i < j
       PROVE  new[i].value <= new[j].value
  <2>1. i \in 1 .. Len(list) + 1 /\ j \in 1 .. Len(list) + 1
    BY <1>7
  <2>2. CASE i = p
    <3>1. j - 1 \in 1 .. Len(list) /\ ~(j - 1 < p) /\ new[j] = list[j - 1]
      BY <1>1, <1>3, <1>7, <1>10, <2>1, <2>2
    <3>2. new[i].value = v
      BY <1>7, <2>1, <2>2 DEF v
    <3>3. QED
      BY <1>5, <3>1, <3>2
  <2>3. CASE j = p
    <3>1. i \in 1 .. Len(list) /\ i < p /\ new[i] = list[i]
      BY <1>1, <1>3, <1>7, <1>10, <2>1, <2>3
    <3>2. new[j].value = v
      BY <1>7, <2>1, <2>3, <1>10 DEF v
    <3>3. QED
      BY <1>5, <3>1, <3>2
  <2>4. CASE i # p /\ j # p
    <3> DEFINE at(k) == IF k < p THEN k ELSE k - 1
    <3>1. /\ at(i) \in 1 .. Len(list) /\ at(j) \in 1 .. Len(list) /\ at(i) < at(j)
          /\ new[i] = list[at(i)] /\ new[j] = list[at(j)]
      BY <1>1, <1>3, <1>7, <1>10, <2>1, <2>4
    <3>2. QED
      BY <3>1 DEF DelayList
  <2>5. QED
    BY <2>2, <2>3, <2>4
<1>11. QED
  BY <1>7, <1>8, <1>9, <1>10 DEF new, DelayList

\* vListInsert leaves an event list in order.
LEMMA InsertByPrioritySound ==
    ASSUME NEW list, EventList(list), NEW t \in Tasks, t \notin ToSet(list)
    PROVE  /\ EventList(InsertByPriority(list, t))
           /\ ToSet(InsertByPriority(list, t)) = ToSet(list) \union {t}
<1> DEFINE I == {i \in 1 .. Len(list) : Priority[list[i]] < Priority[t]}
           Placed(new, p) ==
             /\ Gains(Tasks, new, list, t, p)
             /\ \A i \in 1 .. Len(list) :
                  IF i < p THEN Priority[list[i]] >= Priority[t]
                           ELSE Priority[t] >= Priority[list[i]]
           new == InsertByPriority(list, t)
<1>1. /\ list \in Seq(Tasks) /\ IsInjective(list)
      /\ Len(list) \in Nat /\ Len(list) + 1 \in 1 .. Len(list) + 1
  BY LenProperties DEF EventList
<1>2. Priority[t] \in Int /\ \A i \in 1 .. Len(list) : Priority[list[i]] \in Int
  BY <1>1, ElementOfSeq, KernelAssumption
<1>3. \E p \in 1 .. Len(list) + 1 : Placed(new, p)
  <2>1. CASE I = {}
    <3>1. new = Append(list, t)
      BY <2>1 DEF InsertByPriority, SelectInSeq
    <3>2. \A i \in 1 .. Len(list) : i < Len(list) + 1 /\ Priority[list[i]] >= Priority[t]
      BY <1>1, <1>2, <2>1
    <3> HIDE DEF new
    <3>3. Gains(Tasks, new, list, t, Len(list) + 1)
      BY <1>1, <3>1, GainsAtTheEnd
    <3>4. QED
      BY <1>1, <3>2, <3>3
  <2>2. CASE I # {}
    <3>1. I \in SUBSET Nat /\ I \subseteq 1 .. Len(list)
      BY <1>1
    <3>2. Min(I) \in I /\ \A i \in I : Min(I) <= i
      <4> HIDE DEF I
      <4>1. \E i \in I : \A j \in I : i <= j
        BY <2>2, <3>1, Least
      <4>2. QED
        BY <4>1 DEF Min
    <3>3. PICK p \in 1 .. Len(list) : p = Min(I)
      BY <3>1, <3>2
    <3>4. new = InsertAt(list, p, t)
      BY <2>2, <3>3 DEF InsertByPriority, SelectInSeq
    <3>5. p \in 1 .. Len(list) + 1
      BY <1>1
    <3>6. ASSUME NEW i \in 1 .. Len(list)
          PROVE  IF i < p THEN Priority[list[i]] >= Priority[t]
                          ELSE Priority[t] >= Priority[list[i]]
      <4>1. CASE i < p
        <5>1. i \notin I
          BY <3>2, <3>3, <4>1
        <5>2. QED
          BY <1>2, <4>1, <5>1
      <4>2. CASE ~(i < p)
        <5>1. Priority[list[p]] < Priority[t]
          BY <3>2, <3>3
        <5>2. Priority[list[p]] >= Priority[list[i]]
          <6>1. CASE i = p
            BY <1>2, <6>1
          <6>2. CASE i # p
            BY <4>2, <6>2 DEF EventList
          <6>3. QED
            BY <6>1, <6>2
        <5>3. QED
          BY <1>2, <4>2, <5>1, <5>2
      <4>3. QED
        BY <4>1, <4>2
    <3> HIDE DEF new, I
    <3>7. Gains(Tasks, new, list, t, p)
      BY <1>1, <3>4, <3>5, Inserted
    <3>8. QED
      BY <3>5, <3>6, <3>7
  <2>3. QED
    BY <2>1, <2>2
<1> HIDE DEF new, I
<1>4. PICK p \in 1 .. Len(list) + 1 :
        /\ Placed(new, p)
        /\ new \in Seq(Tasks) /\ Len(new) = Len(list) + 1
        /\ \A i \in 1 .. Len(list) + 1 :
             new[i] = IF i < p THEN list[i] ELSE IF i = p THEN t ELSE list[i - 1]
  BY <1>3 DEF Gains
<1>5. ToSet(new) = ToSet(list) \union {t} /\ IsInjective(new)
  <2>1. Gains(Tasks, new, list, t, p)
    BY <1>4
  <2>2. /\ ToSet(new) = ToSet(list) \union {t}
        /\ IsInjective(list) /\ t \notin ToSet(list) => IsInjective(new)
    BY <1>1, <2>1, ListWith
  <2>3. QED
    BY <1>1, <2>2
<1>6. ASSUME NEW i \in 1 .. Len(new), NEW j \in 1 .. Len(new), i < j
      PROVE  Priority[new[i]] >= Priority[new[j]]
  <2>1. i \in 1 .. Len(list) + 1 /\ j \in 1 .. Len(list) + 1
    BY <1>4
  <2>2. CASE i = p
    <3>1. j - 1 \in 1 .. Len(list) /\ ~(j - 1 < p) /\ new[j] = list[j - 1]
      BY <1>1, <1>4, <1>6, <2>1, <2>2
    <3>2. new[i] = t
      BY <1>4, <2>1, <2>2
    <3>3. QED
      BY <1>4, <3>1, <3>2
  <2>3. CASE j = p
    <3>1. i \in 1 .. Len(list) /\ i < p /\ new[i] = list[i]
      BY <1>1, <1>4, <1>6, <2>1, <2>3
    <3>2. new[j] = t
      BY <1>4, <2>1, <2>3, <1>6
    <3>3. QED
      BY <1>4, <3>1, <3>2
  <2>4. CASE i # p /\ j # p
    <3> DEFINE at(k) == IF k < p THEN k ELSE k - 1
    <3>1. /\ at(i) \in 1 .. Len(list) /\ at(j) \in 1 .. Len(list) /\ at(i) < at(j)
          /\ new[i] = list[at(i)] /\ new[j] = list[at(j)]
      BY <1>1, <1>4, <1>6, <2>1, <2>4
    <3>2. QED
      BY <3>1 DEF EventList
  <2>5. QED
    BY <2>2, <2>3, <2>4
<1>7. QED
  BY <1>4, <1>5, <1>6 DEF new, EventList

\* A list splits where the values are more than v.
SplitAt(list, n, v) ==
    /\ n \in 0 .. Len(list)
    /\ \A i \in 1 .. Len(list) : IF i <= n THEN list[i].value <= v ELSE list[i].value > v

\* The first n items of a list and the others.
AreParts(list, n, first, rest) ==
    first = SubSeq(list, 1, n) /\ rest = SubSeq(list, n + 1, Len(list))

\* The items of a list up to a wake time, and the others.
LEMMA SplitSound ==
    ASSUME NEW list, DelayList(list), NEW v \in Int, NEW n, SplitAt(list, n, v),
           NEW first, NEW rest, AreParts(list, n, first, rest)
    PROVE  /\ DelayList(rest)
           /\ \A item : item \in ToSet(rest) <=> item \in ToSet(list) /\ ~(item.value <= v)
           /\ Owners(first) \in Seq(Tasks) /\ IsInjective(Owners(first))
           /\ \A t : t \in ToSet(Owners(first)) <=>
                      \E item \in ToSet(list) : item.value <= v /\ t = item.owner
<1> DEFINE c == Len(list)
<1> n \in 0 .. c /\ \A i \in 1 .. c : IF i <= n THEN list[i].value <= v ELSE list[i].value > v
  BY DEF SplitAt
<1>1. list \in Seq(Items) /\ c \in Nat /\ DOMAIN list = 1 .. c
  BY LenProperties DEF DelayList
<1>2. \A i \in 1 .. c : list[i] \in Items /\ list[i].value \in Int
  <2>1. \A i \in 1 .. c : list[i] \in Items
    BY <1>1, ElementOfSeq
  <2>2. QED
    BY <2>1, KernelAssumption DEF Items
<1>3. \A i \in 1 .. c, j \in 1 .. c : list[i].owner = list[j].owner => i = j
  BY <1>1, OwnersSound DEF DelayList
<1>4. /\ first \in Seq(Items) /\ Len(first) = n
      /\ \A i \in 1 .. n : first[i] = list[i]
  <2>1. n \in Int /\ \A i \in 1 .. n : list[i] \in Items
    BY <1>1, <1>2
  <2>2. /\ first \in Seq(Items) /\ Len(first) = IF 1 <= n THEN n - 1 + 1 ELSE 0
        /\ \A i \in 1 .. n - 1 + 1 : first[i] = list[1 + i - 1]
    BY <2>1, SubSeqProperties DEF AreParts
  <2>3. QED
    BY <1>1, <2>2
<1>5. /\ rest \in Seq(Items) /\ Len(rest) = c - n
      /\ \A i \in 1 .. c - n : rest[i] = list[n + i]
  <2>1. n + 1 \in Int /\ c \in Int /\ \A i \in n + 1 .. c : list[i] \in Items
    BY <1>1, <1>2
  <2>2. /\ rest \in Seq(Items)
        /\ Len(rest) = IF n + 1 <= c THEN c - (n + 1) + 1 ELSE 0
        /\ \A i \in 1 .. c - (n + 1) + 1 : rest[i] = list[n + 1 + i - 1]
    BY <2>1, SubSeqProperties DEF AreParts
  <2>3. c - (n + 1) + 1 = c - n /\ (n + 1 <= c <=> c - n # 0) /\ n \in Int
    <3>1. \A m \in Nat : \A k \in 0 .. m :
            m - (k + 1) + 1 = m - k /\ (k + 1 <= m <=> m - k # 0) /\ k \in Int
      OBVIOUS
    <3>2. QED
      BY <1>1, <3>1
  <2>4. Len(rest) = c - n
    BY <2>2, <2>3
  <2>5. ASSUME NEW i \in 1 .. c - n
        PROVE  rest[i] = list[n + i]
    <3>1. i \in Int
      OBVIOUS
    <3>2. \A k \in Int, j \in Int : k + 1 + j - 1 = k + j
      OBVIOUS
    <3>3. n + 1 + i - 1 = n + i
      BY <2>3, <3>1, <3>2
    <3>4. QED
      BY <2>2, <2>3, <3>3
  <2>6. QED
    BY <2>2, <2>4, <2>5
<1>6. DelayList(rest)
  <2>1. ASSUME NEW i \in 1 .. Len(rest)
        PROVE  rest[i] = list[n + i] /\ n + i \in 1 .. c
    BY <1>1, <1>5
  <2>2. ASSUME NEW i \in 1 .. Len(rest), NEW j \in 1 .. Len(rest), i < j
        PROVE  rest[i].value <= rest[j].value
    <3>1. n + i < n + j /\ n + i \in 1 .. c /\ n + j \in 1 .. c
      BY <1>1, <1>5, <2>2
    <3>2. QED
      BY <2>1, <3>1 DEF DelayList
  <2>3. ASSUME NEW i \in 1 .. Len(rest), NEW j \in 1 .. Len(rest),
               rest[i].owner = rest[j].owner
        PROVE  i = j
    <3>1. n + i = n + j
      BY <1>3, <2>1, <2>3
    <3>2. QED
      BY <1>1, <1>5, <3>1
  <2>4. IsInjective(Owners(rest))
    BY <1>5, <2>3, OwnersSound
  <2>5. QED
    BY <1>5, <2>2, <2>4 DEF DelayList
<1>7. \A item : item \in ToSet(rest) <=> item \in ToSet(list) /\ ~(item.value <= v)
  <2>1. ASSUME NEW x \in ToSet(rest)
        PROVE  x \in ToSet(list) /\ ~(x.value <= v)
    <3>1. PICK i \in 1 .. c - n : x = list[n + i] /\ n + i \in 1 .. c /\ ~(n + i <= n)
      <4>1. PICK i \in 1 .. c - n : x = rest[i]
        BY <1>5, Indices
      <4>2. n + i \in 1 .. c /\ ~(n + i <= n)
        BY <1>1
      <4>3. x = list[n + i]
        BY <1>5, <4>1
      <4>4. QED
        BY <4>2, <4>3
    <3>2. list[n + i].value > v /\ list[n + i].value \in Int
      BY <1>2, <3>1
    <3>3. list[n + i] \in ToSet(list)
      BY <1>1, <3>1, Indices
    <3>4. QED
      BY <3>1, <3>2, <3>3
  <2>2. ASSUME NEW x \in ToSet(list), ~(x.value <= v)
        PROVE  x \in ToSet(rest)
    <3>1. PICK i \in 1 .. c : x = list[i]
      BY <1>1, Indices
    <3>2. ~(i <= n)
      BY <2>2, <3>1
    <3>3. i - n \in 1 .. Len(rest) /\ n + (i - n) = i
      BY <1>1, <1>5, <3>2
    <3>4. rest[i - n] = x
      BY <1>5, <3>1, <3>3
    <3>5. QED
      BY <1>5, <3>3, <3>4, Indices
  <2>3. QED
    BY <2>1, <2>2
<1>8. /\ Owners(first) \in Seq(Tasks) /\ Len(Owners(first)) = n
      /\ \A i \in 1 .. n : Owners(first)[i] = list[i].owner
      /\ \A i \in 1 .. n : list[i].owner \in ToSet(Owners(first))
      /\ \A t \in ToSet(Owners(first)) : \E i \in 1 .. n : t = list[i].owner
  <2>1. PICK l \in Seq(Items) : l = first
    BY <1>4
  <2>2. /\ Owners(l) \in Seq(Tasks) /\ Len(Owners(l)) = Len(l)
        /\ \A i \in 1 .. Len(l) :
             Owners(l)[i] = l[i].owner /\ l[i].owner \in ToSet(Owners(l))
        /\ \A t \in ToSet(Owners(l)) : \E i \in 1 .. Len(l) : t = l[i].owner
    BY OwnersSound
  <2>3. QED
    BY <1>4, <2>1, <2>2
<1>9. IsInjective(Owners(first))
  <2>1. \A i \in 1 .. n, j \in 1 .. n : first[i].owner = first[j].owner => i = j
    BY <1>1, <1>3, <1>4
  <2>2. QED
    BY <1>4, <2>1, OwnersSound
<1>10. \A t : t \in ToSet(Owners(first)) <=>
             \E item \in ToSet(list) : item.value <= v /\ t = item.owner
  <2>1. ASSUME NEW t \in ToSet(Owners(first))
        PROVE  \E item \in ToSet(list) : item.value <= v /\ t = item.owner
    <3>1. PICK i \in 1 .. n : t = list[i].owner
      BY <1>8
    <3>2. i \in 1 .. c /\ list[i] \in ToSet(list) /\ list[i].value <= v
      <4>1. i \in 1 .. c
        BY <1>1
      <4>2. QED
        BY <1>1, <4>1, Indices
    <3>3. QED
      BY <3>1, <3>2
  <2>2. ASSUME NEW item \in ToSet(list), item.value <= v
        PROVE  item.owner \in ToSet(Owners(first))
    <3>1. PICK i \in 1 .. c : item = list[i]
      BY <1>1, Indices
    <3>2. i <= n
      BY <1>2, <2>2, <3>1
    <3>3. i \in 1 .. n
      BY <1>1, <3>2
    <3>4. QED
      BY <1>8, <3>1, <3>3
  <2>3. QED
    BY <2>1, <2>2
<1>11. QED
  BY <1>6, <1>7, <1>8, <1>9, <1>10

\* Nobody on a list is to be woken before the time of the first one.
LEMMA UnblockSound ==
    ASSUME NEW list, DelayList(list)
    PROVE  /\ UnblockTime(list) \in 0 .. MaxDelay
           /\ \A item \in ToSet(list) : UnblockTime(list) <= item.value
<1>1. list \in Seq(Items) /\ Len(list) \in Nat
  BY LenProperties DEF DelayList
<1>2. \A i \in 1 .. Len(list) : list[i].value \in 0 .. MaxDelay
  <2>1. \A i \in 1 .. Len(list) : list[i] \in Items
    BY <1>1, ElementOfSeq
  <2>2. QED
    BY <2>1, KernelAssumption DEF Items
<1>3. CASE list = << >>
  <2>1. ToSet(list) = {}
    BY <1>3 DEF ToSet
  <2>2. QED
    BY <1>3, <2>1, KernelAssumption DEF UnblockTime
<1>4. CASE list # << >>
  <2>1. 1 \in 1 .. Len(list) /\ Head(list) = list[1]
    BY <1>1, <1>4
  <2>2. UnblockTime(list) = list[1].value
    BY <1>4, <2>1 DEF UnblockTime
  <2>3. ASSUME NEW item \in ToSet(list)
        PROVE  list[1].value <= item.value
    <3>1. PICK i \in 1 .. Len(list) : item = list[i]
      BY <1>1, Indices
    <3>2. CASE i = 1
      BY <1>2, <2>1, <3>1, <3>2, KernelAssumption
    <3>3. CASE i # 1
      BY <1>1, <2>1, <3>1, <3>3 DEF DelayList
    <3>4. QED
      BY <3>2, <3>3
  <2>4. QED
    BY <1>2, <2>1, <2>2, <2>3
<1>5. QED
  BY <1>3, <1>4

(* ---- the ready lists ---- *)

\* A list that is longer than the marker has a task.
LEMMA OnlyMarker ==
    ASSUME NEW list, RingList(list)
    PROVE  Len(list) > 1 <=> \E t \in Tasks : t \in ToSet(list)
<1>1. /\ Len(list) \in Nat
      /\ \A i \in 1 .. Len(list) : list[i] \in Tasks \union {End} /\ list[i] \in ToSet(list)
      /\ \A x \in ToSet(list) : \E i \in 1 .. Len(list) : x = list[i]
      /\ \A i \in 1 .. Len(list), j \in 1 .. Len(list) : list[i] = list[j] => i = j
  BY Indices DEF RingList
<1>2. PICK e \in 1 .. Len(list) : list[e] = End
  BY <1>1 DEF RingList
<1>3. ASSUME Len(list) > 1
      PROVE  \E t \in Tasks : t \in ToSet(list)
  <2>1. PICK i \in 1 .. Len(list) : i # e
    <3>1. 1 \in 1 .. Len(list) /\ 2 \in 1 .. Len(list)
      BY <1>1, <1>3
    <3>2. QED
      BY <3>1
  <2>2. list[i] \in Tasks /\ list[i] \in ToSet(list)
    BY <1>1, <1>2, <2>1
  <2>3. QED
    BY <2>2
<1>4. ASSUME NEW t \in Tasks, t \in ToSet(list)
      PROVE  Len(list) > 1
  <2>1. PICK i \in 1 .. Len(list) : list[i] = t
    BY <1>1, <1>4
  <2>2. i # e
    BY <1>2, <1>4, <2>1, KernelAssumption
  <2>3. QED
    BY <1>1, <2>2
<1>5. QED
  BY <1>3, <1>4

\* Tasks that are not in a ready list yet are put behind.
LEMMA InsertEndSound ==
    ASSUME NEW list, RingList(list), NEW ts \in Seq(Tasks), IsInjective(ts),
           ToSet(ts) \intersect ToSet(list) = {}
    PROVE  /\ RingList(InsertEnd(list, ts))
           /\ ToSet(InsertEnd(list, ts)) = ToSet(list) \union ToSet(ts)
<1> DEFINE S == Tasks \union {End}
           new == list \o ts
<1>1. ts \in Seq(S)
  <2>1. Len(ts) \in Nat /\ ts \in [1 .. Len(ts) -> Tasks]
    BY LenProperties
  <2>2. ts \in [1 .. Len(ts) -> S]
    BY <2>1
  <2>3. QED
    BY <2>1, <2>2
<1>2. list \in Seq(S)
  BY DEF RingList
<1> HIDE DEF S
<1>3. /\ Len(list) \in Nat
      /\ \A i \in 1 .. Len(list) : list[i] \in ToSet(list)
      /\ \A x \in ToSet(list) : \E i \in 1 .. Len(list) : x = list[i]
      /\ \A i \in 1 .. Len(list), j \in 1 .. Len(list) : list[i] = list[j] => i = j
  BY <1>2, Indices DEF RingList
<1>4. /\ Len(ts) \in Nat
      /\ \A i \in 1 .. Len(ts) : ts[i] \in ToSet(ts)
      /\ \A x \in ToSet(ts) : \E i \in 1 .. Len(ts) : x = ts[i]
      /\ \A i \in 1 .. Len(ts), j \in 1 .. Len(ts) : ts[i] = ts[j] => i = j
  BY <1>1, Indices
<1>5. /\ new \in Seq(S) /\ Len(new) = Len(list) + Len(ts)
      /\ \A i \in 1 .. Len(list) + Len(ts) :
           new[i] = IF i <= Len(list) THEN list[i] ELSE ts[i - Len(list)]
  BY <1>1, <1>2, ConcatProperties
<1> HIDE DEF new
<1>6. ASSUME NEW x \in ToSet(new)
      PROVE  x \in ToSet(list) \union ToSet(ts)
  <2>1. PICK i \in 1 .. Len(list) + Len(ts) : x = new[i]
    BY <1>5, Indices
  <2>2. \/ i \in 1 .. Len(list) /\ x = list[i]
        \/ i - Len(list) \in 1 .. Len(ts) /\ x = ts[i - Len(list)]
    BY <1>3, <1>4, <1>5, <2>1
  <2>3. QED
    BY <1>3, <1>4, <2>2
<1>7. ASSUME NEW x \in ToSet(list) \union ToSet(ts)
      PROVE  x \in ToSet(new)
  <2>1. \E i \in 1 .. Len(new) : x = new[i]
    <3>1. CASE x \in ToSet(list)
      <4>1. PICK i \in 1 .. Len(list) : x = list[i]
        BY <1>3, <3>1
      <4>2. i \in 1 .. Len(new) /\ new[i] = x
        BY <1>3, <1>4, <1>5, <4>1
      <4>3. QED
        BY <4>2
    <3>2. CASE x \in ToSet(ts)
      <4>1. PICK i \in 1 .. Len(ts) : x = ts[i]
        BY <1>4, <3>2
      <4>2. PICK k \in 1 .. Len(list) + Len(ts) : k - Len(list) = i /\ ~(k <= Len(list))
        <5>1. /\ Len(list) + i \in 1 .. Len(list) + Len(ts)
              /\ (Len(list) + i) - Len(list) = i /\ ~(Len(list) + i <= Len(list))
          BY <1>3, <1>4
        <5>2. QED
          BY <5>1
      <4>3. new[k] = x /\ k \in 1 .. Len(new)
        BY <1>5, <4>1, <4>2
      <4>4. QED
        BY <4>3
    <3>3. QED
      BY <3>1, <3>2, <1>7
  <2>2. QED
    BY <1>5, <2>1, Indices
<1>8. IsInjective(new)
  <2>1. ASSUME NEW i \in 1 .. Len(new), NEW j \in 1 .. Len(new), new[i] = new[j]
        PROVE  i = j
    <3>1. \A k \in 1 .. Len(new) :
            \/ k \in 1 .. Len(list) /\ new[k] = list[k] /\ new[k] \in ToSet(list)
            \/ /\ k - Len(list) \in 1 .. Len(ts) /\ new[k] = ts[k - Len(list)]
               /\ new[k] \in ToSet(ts)
      <4>1. ASSUME NEW k \in 1 .. Len(new)
            PROVE  \/ k \in 1 .. Len(list)
                   \/ k - Len(list) \in 1 .. Len(ts) /\ ~(k <= Len(list))
        BY <1>3, <1>4, <1>5
      <4>2. ASSUME NEW k \in 1 .. Len(list)
            PROVE  new[k] = list[k] /\ new[k] \in ToSet(list)
        BY <1>3, <1>4, <1>5
      <4>3. ASSUME NEW k \in 1 .. Len(new), k - Len(list) \in 1 .. Len(ts), ~(k <= Len(list))
            PROVE  new[k] = ts[k - Len(list)] /\ new[k] \in ToSet(ts)
        BY <1>4, <1>5, <4>3
      <4>4. QED
        BY <4>1, <4>2, <4>3
    <3>2. CASE i \in 1 .. Len(list) /\ new[i] = list[i] /\ new[i] \in ToSet(list)
      <4>1. j \in 1 .. Len(list) /\ new[j] = list[j]
        BY <2>1, <3>1, <3>2
      <4>2. QED
        BY <1>3, <2>1, <3>2, <4>1
    <3>3. CASE /\ i - Len(list) \in 1 .. Len(ts) /\ new[i] = ts[i - Len(list)]
               /\ new[i] \in ToSet(ts)
      <4>1. j - Len(list) \in 1 .. Len(ts) /\ new[j] = ts[j - Len(list)]
        BY <2>1, <3>1, <3>3
      <4>2. i - Len(list) = j - Len(list)
        BY <1>4, <2>1, <3>3, <4>1
      <4>3. QED
        BY <1>3, <1>5, <4>2
    <3>4. QED
      BY <3>1, <3>2, <3>3
  <2>2. QED
    BY <1>5, <2>1, Indices
<1>9. ToSet(new) = ToSet(list) \union ToSet(ts)
  BY <1>6, <1>7
<1>10. QED
  BY <1>5, <1>8, <1>9 DEF new, S, RingList, InsertEnd

\* Moving pxIndex on by one changes where the list begins and nothing else.
LEMMA Next1Sound ==
    ASSUME NEW list, RingList(list), Len(list) > 1
    PROVE  /\ RingList(Next1(list)) /\ ToSet(Next1(list)) = ToSet(list)
           /\ Len(Next1(list)) = Len(list)
           /\ Head(Next1(list)) = list[2]
           /\ Next1(list)[2] = IF Len(list) = 2 THEN list[1] ELSE list[3]
<1> DEFINE S == Tasks \union {End}
           n == Len(list)
           new == Next1(list)
           f == [i \in 1 .. n |-> IF i < n THEN i + 1 ELSE 1]
<1>1. list \in Seq(S) /\ n \in Nat /\ n > 1 /\ IsInjective(list)
  BY LenProperties DEF RingList
<1>2. \A i \in 1 .. n : list[i] \in S
  BY <1>1, ElementOfSeq
<1> HIDE DEF S
<1>3. /\ new \in Seq(S) /\ Len(new) = n
      /\ \A i \in 1 .. n : new[i] = IF i < n THEN list[i + 1] ELSE list[1]
  <2>1. /\ Tail(list) \in Seq(S) /\ Len(Tail(list)) = n - 1
        /\ \A i \in 1 .. n - 1 : Tail(list)[i] = list[i + 1]
    BY <1>1
  <2>2. Head(list) = list[1] /\ list[1] \in S
    BY <1>1, <1>2
  <2>3. new = Append(Tail(list), list[1])
    BY <2>2 DEF Next1
  <2>4. /\ new \in Seq(S) /\ Len(new) = n
        /\ \A i \in 1 .. n - 1 : new[i] = Tail(list)[i]
        /\ new[n] = list[1]
    BY <1>1, <2>1, <2>2, <2>3
  <2>5. QED
    BY <1>1, <2>1, <2>4
<1> HIDE DEF new
<1>4. Head(new) = list[2] /\ new[2] = IF n = 2 THEN list[1] ELSE list[3]
  BY <1>1, <1>3
<1>5. /\ f \in [1 .. Len(new) -> 1 .. Len(list)]
      /\ \A i \in 1 .. Len(new) : new[i] = list[f[i]]
      /\ \A i \in 1 .. Len(new), j \in 1 .. Len(new) : f[i] = f[j] => i = j
  BY <1>1, <1>3
<1>6. /\ ToSet(new) = {list[f[i]] : i \in 1 .. Len(new)}
      /\ ToSet(new) \subseteq ToSet(list)
      /\ IsInjective(list) => IsInjective(new)
  <2> HIDE DEF f
  <2>1. QED
    BY <1>1, <1>3, <1>5, Rearranged
<1>7. ASSUME NEW x \in ToSet(list)
      PROVE  x \in ToSet(new)
  <2>1. PICK i \in 1 .. n : x = list[i]
    BY <1>1, Indices
  <2>2. PICK j \in 1 .. n : f[j] = i
    <3>1. CASE i = 1
      BY <1>1, <3>1
    <3>2. CASE i # 1
      <4>1. i - 1 \in 1 .. n /\ f[i - 1] = i
        BY <1>1, <3>2
      <4>2. QED
        BY <4>1
    <3>3. QED
      BY <3>1, <3>2
  <2>3. QED
    BY <1>3, <1>6, <2>1, <2>2
<1>8. QED
  BY <1>1, <1>3, <1>4, <1>6, <1>7 DEF new, S, RingList

\* The task whose turn it is next is one of the list.
LEMMA NextEntrySound ==
    ASSUME NEW list, RingList(list), Len(list) > 1
    PROVE  /\ RingList(NextEntry(list)) /\ ToSet(NextEntry(list)) = ToSet(list)
           /\ Len(NextEntry(list)) = Len(list)
           /\ Head(NextEntry(list)) \in Tasks /\ Head(NextEntry(list)) \in ToSet(list)
<1>1. PICK once : once = Next1(list)
  OBVIOUS
<1>2. /\ RingList(once) /\ ToSet(once) = ToSet(list) /\ Len(once) = Len(list)
      /\ Head(once) = list[2] /\ once[2] = IF Len(list) = 2 THEN list[1] ELSE list[3]
  BY <1>1, Next1Sound
<1>3. PICK twice : twice = Next1(once)
  OBVIOUS
<1>4. /\ RingList(twice) /\ ToSet(twice) = ToSet(list) /\ Len(twice) = Len(list)
      /\ Head(twice) = once[2]
  BY <1>2, <1>3, Next1Sound
<1>5. /\ Len(list) \in Nat
      /\ \A i \in 1 .. Len(list) : list[i] \in Tasks \union {End} /\ list[i] \in ToSet(list)
      /\ \A i \in 1 .. Len(list), j \in 1 .. Len(list) : list[i] = list[j] => i = j
  BY Indices DEF RingList
<1>6. 1 \in 1 .. Len(list) /\ 2 \in 1 .. Len(list) /\ (Len(list) # 2 => 3 \in 1 .. Len(list))
  <2>1. PICK n \in Nat : n = Len(list)
    BY <1>5
  <2>2. n > 1
    BY <2>1
  <2>3. QED
    BY <2>1, <2>2
<1>7. NextEntry(list) = IF Head(once) = End THEN twice ELSE once
  BY <1>1, <1>3 DEF NextEntry
<1>8. CASE list[2] = End
  <2>1. Head(twice) \in Tasks /\ Head(twice) \in ToSet(list)
    BY <1>2, <1>4, <1>5, <1>6, <1>8
  <2>2. QED
    BY <1>2, <1>4, <1>7, <1>8, <2>1
<1>9. CASE list[2] # End
  BY <1>2, <1>5, <1>6, <1>7, <1>9
<1>10. QED
  BY <1>8, <1>9

\* A task leaves its ready list, also when pxIndex is at it.
LEMMA ListRemoveSound ==
    ASSUME NEW list, RingList(list), NEW t \in Tasks, t \in ToSet(list)
    PROVE  /\ RingList(ListRemove(list, t))
           /\ ToSet(ListRemove(list, t)) = ToSet(list) \ {t}
<1> DEFINE S == Tasks \union {End}
           n == Len(list)
<1>1. list \in Seq(S) /\ n \in Nat /\ IsInjective(list) /\ End \in ToSet(list)
  BY LenProperties DEF RingList
<1>2. End # t
  BY KernelAssumption
<1>3. CASE Head(list) # t
  <2>1. ListRemove(list, t) = RemoveFirst(list, t)
    BY <1>3 DEF ListRemove
  <2>2. /\ RemoveFirst(list, t) \in Seq(S)
        /\ ToSet(RemoveFirst(list, t)) = ToSet(list) \ {t}
        /\ IsInjective(RemoveFirst(list, t))
    BY <1>1, RemoveSound
  <2>3. QED
    BY <1>1, <1>2, <2>1, <2>2 DEF RingList
<1>4. CASE Head(list) = t
  <2> DEFINE new == <<Last(list)>> \o Front(Tail(list))
             f == [i \in 1 .. n - 1 |-> IF i = 1 THEN n ELSE i]
  <2>1. /\ \A i \in 1 .. n : list[i] \in S /\ list[i] \in ToSet(list)
        /\ \A x \in ToSet(list) : \E i \in 1 .. n : x = list[i]
        /\ \A i \in 1 .. n, j \in 1 .. n : list[i] = list[j] => i = j
    BY <1>1, Indices
  <2>2. n > 1 /\ n # 1
    <3>1. n > 1
      BY OnlyMarker
    <3>2. \A m \in Nat : m > 1 => m # 1
      OBVIOUS
    <3> HIDE DEF n
    <3>3. QED
      BY <1>1, <3>1, <3>2
  <2>3. list[1] = t
    BY <1>1, <1>4, <2>2
  <2> HIDE DEF S
  <2>4. /\ new \in Seq(S) /\ Len(new) = n - 1
        /\ \A i \in 1 .. n - 1 : new[i] = IF i = 1 THEN list[n] ELSE list[i]
    <3>1. /\ Tail(list) \in Seq(S) /\ Len(Tail(list)) = n - 1
          /\ \A i \in 1 .. n - 1 : Tail(list)[i] = list[i + 1]
      BY <1>1, <2>2
    <3>2. PICK tail \in Seq(S) : tail = Tail(list)
      BY <3>1
    <3>3. Len(tail) = n - 1 /\ \A i \in 1 .. n - 1 : tail[i] = list[i + 1]
      BY <3>1, <3>2
    <3>4. PICK front : front = SubSeq(tail, 1, n - 2)
      OBVIOUS
    <3>5. /\ front \in Seq(S) /\ Len(front) = n - 2
          /\ \A i \in 1 .. n - 2 : front[i] = tail[i]
      <4>1. n - 2 \in Int /\ \A i \in 1 .. n - 2 : tail[i] \in S
        BY <1>1, <2>1, <3>3
      <4>2. /\ front \in Seq(S) /\ Len(front) = IF 1 <= n - 2 THEN n - 2 - 1 + 1 ELSE 0
            /\ \A i \in 1 .. n - 2 - 1 + 1 : front[i] = tail[1 + i - 1]
        BY <3>4, <4>1, SubSeqProperties
      <4>3. n - 2 >= 0 /\ (1 <= n - 2 => n - 2 - 1 + 1 = n - 2)
        BY <1>1, <2>2
      <4>4. ASSUME NEW i \in 1 .. n - 2
            PROVE  i \in 1 .. n - 2 - 1 + 1 /\ 1 + i - 1 = i
        BY <1>1
      <4>5. \A i \in 1 .. n - 2 : front[i] = tail[i]
        BY <4>2, <4>4
      <4>6. Len(front) = n - 2
        <5>1. PICK m \in Nat : m = n - 2
          BY <1>1, <4>3
        <5>2. Len(front) = IF 1 <= m THEN m - 1 + 1 ELSE 0
          BY <4>2, <5>1
        <5>3. QED
          BY <5>1, <5>2
      <4>7. QED
        BY <4>2, <4>5, <4>6
    <3>6. Front(Tail(list)) = front
      <4>1. Len(tail) - 1 = n - 2
        BY <1>1, <3>3
      <4>2. QED
        BY <3>2, <3>4, <4>1 DEF Front
    <3>7. PICK last \in S : last = list[n]
      BY <1>1, <2>1, <2>2
    <3>8. <<last>> \in Seq(S) /\ Len(<<last>>) = 1 /\ <<last>>[1] = last
      OBVIOUS
    <3>9. new = <<last>> \o front
      BY <3>6, <3>7 DEF Last
    <3>10. /\ new \in Seq(S) /\ Len(new) = 1 + (n - 2)
           /\ \A i \in 1 .. 1 + (n - 2) : new[i] = IF i <= 1 THEN <<last>>[i] ELSE front[i - 1]
      <4> HIDE DEF new
      <4>1. /\ new \in Seq(S) /\ Len(new) = Len(<<last>>) + Len(front)
            /\ \A i \in 1 .. Len(<<last>>) + Len(front) :
                 new[i] = IF i <= Len(<<last>>) THEN <<last>>[i]
                          ELSE front[i - Len(<<last>>)]
        BY <3>5, <3>8, <3>9, ConcatProperties
      <4>2. QED
        BY <3>5, <3>8, <4>1
    <3> HIDE DEF new
    <3>11. ASSUME NEW i \in 1 .. n - 1
           PROVE  new[i] = IF i = 1 THEN list[n] ELSE list[i]
      <4>1. CASE i = 1
        BY <1>1, <2>2, <3>7, <3>8, <3>10, <4>1
      <4>2. CASE i # 1
        <5>1. i - 1 \in 1 .. n - 2 /\ i - 1 \in 1 .. n - 1 /\ ~(i <= 1) /\ (i - 1) + 1 = i
          BY <1>1, <4>2
        <5>2. new[i] = front[i - 1] /\ front[i - 1] = tail[i - 1] /\ tail[i - 1] = list[i]
          <6>1. i \in 1 .. 1 + (n - 2)
            BY <1>1
          <6>2. QED
            BY <3>3, <3>5, <3>10, <5>1, <6>1
        <5>3. QED
          BY <4>2, <5>2
      <4>3. QED
        BY <4>1, <4>2
    <3>12. QED
      BY <1>1, <3>10, <3>11
  <2>5. ListRemove(list, t) = new
    BY <1>4 DEF ListRemove
  <2> HIDE DEF new
  <2>6. /\ f \in [1 .. Len(new) -> 1 .. Len(list)]
        /\ \A i \in 1 .. Len(new) : new[i] = list[f[i]]
        /\ \A i \in 1 .. Len(new), j \in 1 .. Len(new) : f[i] = f[j] => i = j
    BY <1>1, <2>2, <2>4
  <2>7. \A i \in 1 .. n : i # 1 => \E j \in 1 .. n - 1 : f[j] = i
    <3>1. ASSUME NEW i \in 1 .. n, i # 1
          PROVE  \E j \in 1 .. n - 1 : f[j] = i
      <4>1. CASE i = n
        <5>1. 1 \in 1 .. n - 1 /\ f[1] = n
          BY <1>1, <2>2
        <5>2. QED
          BY <4>1, <5>1
      <4>2. CASE i # n
        <5>1. i \in 1 .. n - 1 /\ f[i] = i
          BY <1>1, <3>1, <4>2
        <5>2. QED
          BY <5>1
      <4>3. QED
        BY <4>1, <4>2
    <3>2. QED
      BY <3>1
  <2>8. ASSUME NEW i \in 1 .. n - 1
        PROVE  f[i] # 1
    <3>1. f[i] = IF i = 1 THEN n ELSE i
      OBVIOUS
    <3> HIDE DEF f
    <3>2. QED
      BY <2>2, <3>1
  <2> HIDE DEF f
  <2>9. /\ ToSet(new) = {list[f[i]] : i \in 1 .. Len(new)}
        /\ ToSet(new) \subseteq ToSet(list)
        /\ IsInjective(list) => IsInjective(new)
    BY <1>1, <2>4, <2>6, Rearranged
  <2>10. t \notin ToSet(new)
    <3>1. \A i \in 1 .. Len(new) : f[i] \in 1 .. n /\ f[i] # 1
      BY <2>4, <2>6, <2>8
    <3>2. 1 \in 1 .. n
      BY <1>1, <2>2
    <3>3. QED
      BY <2>1, <2>3, <2>9, <3>1, <3>2
  <2>11. ASSUME NEW x \in ToSet(list), x # t
         PROVE  x \in ToSet(new)
    <3>1. PICK i \in 1 .. n : x = list[i] /\ i # 1
      BY <2>1, <2>3, <2>11
    <3>2. QED
      BY <2>4, <2>7, <2>9, <3>1
  <2>12. QED
    BY <1>1, <1>2, <2>4, <2>5, <2>9, <2>10, <2>11 DEF RingList, S
<1>5. QED
  BY <1>3, <1>4

\* Priorities are bounded, so that of some there is a highest one.
LEMMA HighestPriority ==
    ASSUME NEW P \in SUBSET Priorities, P # {}
    PROVE  Max(P) \in P /\ \A p \in P : p <= Max(P)
<1> DEFINE m == configMAX_PRIORITIES - 1
           T == {m - p : p \in P}
<1>1. m \in Int /\ \A p \in P : p \in 0 .. m
  BY KernelAssumption DEF Priorities
<1>2. T \in SUBSET Nat /\ T # {}
  BY <1>1
<1>3. PICK x \in T : \A y \in T : x <= y
  <2> HIDE DEF T
  <2>1. QED
    BY <1>2, Least
<1>4. PICK q \in P : x = m - q
  BY <1>3
<1>5. ASSUME NEW p \in P
      PROVE  q >= p
  <2>1. m - q <= m - p
    BY <1>3, <1>4
  <2>2. QED
    BY <1>1, <2>1
<1>6. Max(P) \in P /\ \A p \in P : Max(P) >= p
  BY <1>5 DEF Max
<1>7. QED
  BY <1>1, <1>6

\* Which priorities have a task to run.
LEMMA TopReady ==
    ASSUME ReadyKnown, NEW p \in Priorities
    PROVE  p \in uxTopReadyPriority <=> \E t \in Tasks : Priority[t] = p /\ t \notin Asleep
<1>1. /\ RingList(ready[p])
      /\ ToSet(ready[p]) = {End} \union {t \in Tasks : Priority[t] = p /\ t \notin Asleep}
      /\ p \in uxTopReadyPriority <=> Len(ready[p]) > 1
  BY DEF ReadyKnown
<1>2. Len(ready[p]) > 1 <=> \E t \in Tasks : t \in ToSet(ready[p])
  BY <1>1, OnlyMarker
<1>3. \A t \in Tasks : t # End
  BY KernelAssumption
<1>4. QED
  BY <1>1, <1>2, <1>3

\* prvAddTaskToReadyList of tasks that were asleep.
LEMMA Readied ==
    ASSUME ReadyKnown, NEW ts \in Seq(Tasks), IsInjective(ts), ToSet(ts) \subseteq Asleep,
           AddToReady(ts), Asleep' = Asleep \ ToSet(ts)
    PROVE  /\ ReadyKnown'
           /\ ready' \in [Priorities -> Seq(Tasks \union {End})]
           /\ uxTopReadyPriority' \subseteq Priorities
<1>1. \A t \in ToSet(ts) : t \in Tasks /\ t # End
  <2>1. /\ \A i \in 1 .. Len(ts) : ts[i] \in Tasks
        /\ \A t \in ToSet(ts) : \E i \in 1 .. Len(ts) : t = ts[i]
    BY Indices
  <2>2. End \notin Tasks
    BY KernelAssumption
  <2>3. QED
    BY <2>1, <2>2
<1>2. ASSUME NEW p \in Priorities
      PROVE  /\ RingList(ready[p])' /\ ready[p]' \in Seq(Tasks \union {End})
             /\ ToSet(ready[p])'
                  = {End} \union {t \in Tasks : Priority[t] = p /\ t \notin Asleep}'
  <2>1. PICK these : these = OfPriority(ts, p)
    OBVIOUS
  <2>2. PICK old : old = ready[p]
    OBVIOUS
  <2>3. PICK new : new = ready'[p]
    OBVIOUS
  <2>4. /\ these \in Seq(Tasks) /\ IsInjective(these)
        /\ ToSet(these) = {t \in ToSet(ts) : Priority[t] = p}
    BY <2>1, OfPrioritySound
  <2>5. /\ RingList(old)
        /\ ToSet(old) = {End} \union {t \in Tasks : Priority[t] = p /\ t \notin Asleep}
    BY <2>2 DEF ReadyKnown
  <2>6. new = InsertEnd(old, these)
    BY <2>1, <2>2, <2>3 DEF AddToReady
  <2>7. ToSet(these) \intersect ToSet(old) = {}
    BY <1>1, <2>4, <2>5
  <2>8. RingList(new) /\ ToSet(new) = ToSet(old) \union ToSet(these)
    BY <2>4, <2>5, <2>6, <2>7, InsertEndSound
  <2>9. ToSet(new) = {End} \union {t \in Tasks : Priority[t] = p /\ t \notin Asleep'}
    BY <1>1, <2>4, <2>5, <2>8
  <2>10. QED
    BY <2>3, <2>8, <2>9 DEF RingList
<1>3. ready' \in [Priorities -> Seq(Tasks \union {End})]
  <2>1. \A p \in Priorities : ready'[p] \in Seq(Tasks \union {End})
    BY <1>2
  <2>2. ready' = [p \in Priorities |-> ready'[p]]
    BY DEF AddToReady
  <2>3. QED
    BY <2>1, <2>2
<1>4. uxTopReadyPriority' = {p \in Priorities : Len(ready[p]) > 1}'
  <2>1. ASSUME NEW p \in Priorities
        PROVE  p \in uxTopReadyPriority' <=> Len(ready'[p]) > 1
    <3>1. PICK new : new = ready'[p]
      OBVIOUS
    <3>2. /\ RingList(new)
          /\ ToSet(new) = {End} \union {t \in Tasks : Priority[t] = p /\ t \notin Asleep'}
      BY <1>2, <3>1
    <3>3. Len(new) > 1 <=> \E t \in Tasks : t \in ToSet(new)
      BY <3>2, OnlyMarker
    <3>4. Len(new) > 1 <=> \E t \in Tasks : Priority[t] = p /\ t \notin Asleep'
      BY <3>2, <3>3, KernelAssumption
    <3>5. p \in uxTopReadyPriority <=> \E t \in Tasks : Priority[t] = p /\ t \notin Asleep
      BY TopReady
    <3>6. p \in uxTopReadyPriority' <=>
            p \in uxTopReadyPriority \/ \E t \in ToSet(ts) : Priority[t] = p
      BY DEF AddToReady
    <3>7. QED
      BY <1>1, <3>1, <3>4, <3>5, <3>6
  <2>2. uxTopReadyPriority \subseteq Priorities
    BY DEF ReadyKnown
  <2>3. \A p \in uxTopReadyPriority' : p \in Priorities
    BY <1>1, <2>2 DEF AddToReady, Priorities
  <2>4. QED
    BY <2>1, <2>3
<1>5. QED
  BY <1>2, <1>3, <1>4 DEF ReadyKnown

\* The running task leaves its ready list.
LEMMA LeftReady ==
    ASSUME ReadyKnown, ListsTypeOK, pxCurrentTCB \in Tasks, pxCurrentTCB \notin Asleep,
           LeaveReady, Asleep' = Asleep \union {pxCurrentTCB}
    PROVE  /\ ReadyKnown'
           /\ ready' \in [Priorities -> Seq(Tasks \union {End})]
           /\ uxTopReadyPriority' \subseteq uxTopReadyPriority
<1>1. PICK c \in Tasks : c = pxCurrentTCB
  OBVIOUS
<1>2. PICK q \in Priorities : q = Priority[c]
  BY DEF Priorities
<1>3. PICK old, new : old = ready[q] /\ new = ListRemove(old, c)
  OBVIOUS
<1>4. /\ RingList(old)
      /\ ToSet(old) = {End} \union {t \in Tasks : Priority[t] = q /\ t \notin Asleep}
  BY <1>3 DEF ReadyKnown
<1>5. RingList(new) /\ ToSet(new) = ToSet(old) \ {c}
  BY <1>1, <1>2, <1>3, <1>4, ListRemoveSound
<1>6. ToSet(new) = {End} \union {t \in Tasks : Priority[t] = q /\ t \notin Asleep'}
  BY <1>1, <1>4, <1>5, KernelAssumption
<1>7. /\ ready' = [ready EXCEPT ![q] = new]
      /\ uxTopReadyPriority' = uxTopReadyPriority \ (IF Len(new) = 1 THEN {q} ELSE {})
  BY <1>1, <1>2, <1>3 DEF LeaveReady
<1>8. ready' \in [Priorities -> Seq(Tasks \union {End})]
  BY <1>2, <1>5, <1>7 DEF ListsTypeOK, RingList
<1>9. ASSUME NEW p \in Priorities
      PROVE  /\ RingList(ready[p])'
             /\ ToSet(ready[p])'
                  = {End} \union {t \in Tasks : Priority[t] = p /\ t \notin Asleep}'
  <2>1. CASE p = q
    <3>1. ready'[p] = new
      BY <1>2, <1>7, <2>1 DEF ListsTypeOK
    <3>2. QED
      BY <1>5, <1>6, <2>1, <3>1
  <2>2. CASE p # q
    <3>1. ready'[p] = ready[p]
      BY <1>2, <1>7, <2>2 DEF ListsTypeOK
    <3>2. {t \in Tasks : Priority[t] = p /\ t \notin Asleep}
            = {t \in Tasks : Priority[t] = p /\ t \notin Asleep'}
      BY <1>1, <1>2, <2>2
    <3>3. QED
      BY <3>1, <3>2 DEF ReadyKnown
  <2>3. QED
    BY <2>1, <2>2
<1>10. Len(new) \in Nat /\ Len(new) # 0
  <2>1. new \in Seq(Tasks \union {End}) /\ End \in ToSet(new)
    BY <1>5 DEF RingList
  <2>2. PICK i \in 1 .. Len(new) : End = new[i]
    BY <2>1, Indices
  <2>3. QED
    BY <2>1, <2>2, LenProperties
<1>11. ASSUME NEW p \in Priorities
       PROVE  p \in uxTopReadyPriority' <=> Len(ready'[p]) > 1
  <2>1. CASE p = q
    <3>1. ready'[p] = new
      BY <1>2, <1>7, <2>1 DEF ListsTypeOK
    <3>2. Len(old) > 1 /\ p \in uxTopReadyPriority
      <4>1. c \in ToSet(old)
        BY <1>1, <1>2, <1>4
      <4>2. Len(old) > 1
        BY <1>4, <4>1, OnlyMarker
      <4>3. QED
        BY <1>3, <2>1, <4>2 DEF ReadyKnown
    <3>3. Len(new) = 1 <=> ~(Len(new) > 1)
      <4>1. \A m \in Nat : m # 0 => (m = 1 <=> ~(m > 1))
        OBVIOUS
      <4>2. QED
        BY <1>10, <4>1
    <3>4. QED
      BY <1>7, <2>1, <3>1, <3>2, <3>3
  <2>2. CASE p # q
    <3>1. ready'[p] = ready[p]
      BY <1>2, <1>7, <2>2 DEF ListsTypeOK
    <3>2. p \in uxTopReadyPriority' <=> p \in uxTopReadyPriority
      BY <1>7, <2>2
    <3>3. QED
      BY <3>1, <3>2 DEF ReadyKnown
  <2>3. QED
    BY <2>1, <2>2
<1>12. uxTopReadyPriority' \subseteq uxTopReadyPriority /\ uxTopReadyPriority \subseteq Priorities
  BY <1>7 DEF ReadyKnown
<1>13. uxTopReadyPriority' = {p \in Priorities : Len(ready[p]) > 1}'
  BY <1>11, <1>12
<1>14. QED
  BY <1>8, <1>9, <1>12, <1>13 DEF ReadyKnown

(* ---- xTaskIncrementTick ---- *)

\* The list is switched when it is empty, and xNextTaskUnblockTime lets the
\* loop over it be left out only when nobody is to be woken.
LEMMA ExpiredSound ==
    ASSUME TypeOK, TimeKnown, SleepersKnown
    PROVE  /\ Now \in 0 .. MaxDelay
           /\ Now = IF xTickCount = MaxDelay THEN 0 ELSE xTickCount + 1
           /\ Now = 0 => delayed = << >>
           /\ DelayList(Current)
           /\ NextUnblock \in 0 .. MaxDelay
           /\ \A item \in ToSet(Current) : NextUnblock <= item.value
           /\ SplitAt(Current, Expired, Now)
<1>1. /\ xTickCount \in 0 .. MaxDelay /\ xNextTaskUnblockTime \in 0 .. MaxDelay
      /\ MaxDelay \in Nat \ {0}
  BY KernelAssumption DEF TypeOK, TimeTypeOK
<1>2. Now = IF xTickCount = MaxDelay THEN 0 ELSE xTickCount + 1
  <2>1. PICK n \in Nat \ {0} : n = MaxDelay + 1
    BY <1>1
  <2>2. PICK a \in 0 .. 2 * n : a = xTickCount + 1
    BY <1>1, <2>1
  <2>3. a % n = IF a < n THEN a ELSE IF a < 2 * n THEN a - n ELSE 0
    BY Around, Zenon
  <2>4. Now = a % n
    BY <2>1, <2>2 DEF Now
  <2>5. QED
    BY <1>1, <2>1, <2>2, <2>3, <2>4
<1>3. Now \in 0 .. MaxDelay
  BY <1>1, <1>2
<1>4. DelayList(delayed) /\ DelayList(overflow)
  BY DEF SleepersKnown
<1>5. ASSUME Now = 0
      PROVE  delayed = << >>
  <2>1. xTickCount = MaxDelay
    BY <1>1, <1>2, <1>5
  <2>2. delayed \in Seq(Items) /\ Len(delayed) \in Nat
    BY LenProperties DEF TypeOK, ListsTypeOK
  <2>3. ASSUME Len(delayed) # 0
        PROVE  FALSE
    <3>1. 1 \in 1 .. Len(delayed)
      BY <2>2, <2>3
    <3>2. delayed[1] \in Items /\ delayed[1] \in ToSet(delayed)
      BY <2>2, <3>1, Indices
    <3>3. delayed[1].value \in 0 .. MaxDelay /\ xTickCount < delayed[1].value
      BY <3>2 DEF Items, TimeKnown
    <3>4. QED
      BY <1>1, <2>1, <3>3
  <2>4. QED
    BY <2>2, <2>3
<1>6. DelayList(Current)
  BY <1>4 DEF Current
<1>7. NextUnblock \in 0 .. MaxDelay /\ \A item \in ToSet(Current) : NextUnblock <= item.value
  <2>1. CASE Now = 0
    <3>1. Current = overflow /\ NextUnblock = UnblockTime(overflow)
      BY <2>1 DEF Current, NextUnblock
    <3>2. QED
      BY <1>4, <3>1, UnblockSound
  <2>2. CASE Now # 0
    <3>1. Current = delayed /\ NextUnblock = xNextTaskUnblockTime
      BY <2>2 DEF Current, NextUnblock
    <3>2. QED
      BY <1>1, <3>1 DEF TimeKnown
  <2>3. QED
    BY <2>1, <2>2
<1>8. PICK list : list = Current
  OBVIOUS
<1>9. list \in Seq(Items) /\ DelayList(list) /\ Len(list) \in Nat
  BY <1>6, <1>8, LenProperties DEF DelayList
<1>10. PICK v \in 0 .. MaxDelay, u \in 0 .. MaxDelay :
         v = Now /\ u = NextUnblock /\ \A item \in ToSet(list) : u <= item.value
  BY <1>3, <1>7, <1>8
<1>11. \A i \in 1 .. Len(list) : list[i].value \in Int /\ u <= list[i].value
  <2>1. \A i \in 1 .. Len(list) : list[i] \in Items /\ list[i] \in ToSet(list)
    BY <1>9, Indices
  <2>2. QED
    BY <1>1, <1>10, <2>1 DEF Items
<1>12. /\ Expired \in 0 .. Len(list)
       /\ \A i \in 1 .. Len(list) :
            IF i <= Expired THEN list[i].value <= v ELSE list[i].value > v
  <2>1. CASE v < u
    <3>1. Expired = 0
      BY <1>10, <2>1 DEF Expired
    <3>2. QED
      BY <1>1, <1>9, <1>10, <1>11, <2>1, <3>1
  <2>2. CASE ~(v < u)
    <3>1. PICK n \in 0 .. Len(list) :
            /\ n = Leading(list, v)
            /\ \A i \in 1 .. n : list[i].value <= v
            /\ n < Len(list) => list[n + 1].value > v
      <4>1. v \in Int
        BY <1>1
      <4>2. QED
        BY <1>9, <4>1, LeadingSound
    <3>2. Expired = n
      BY <1>8, <1>10, <2>2, <3>1 DEF Expired
    <3>3. ASSUME NEW i \in 1 .. Len(list), ~(i <= n)
          PROVE  list[i].value > v
      <4>1. n < Len(list) /\ n + 1 \in 1 .. Len(list) /\ n + 1 <= i
        BY <1>9, <3>3
      <4>2. list[n + 1].value <= list[i].value
        <5>1. CASE i = n + 1
          BY <1>11, <5>1
        <5>2. CASE i # n + 1
          BY <1>9, <4>1, <5>2 DEF DelayList
        <5>3. QED
          BY <5>1, <5>2
      <4>3. QED
        BY <1>1, <1>11, <3>1, <4>1, <4>2
    <3>4. ASSUME NEW i \in 1 .. Len(list), i <= n
          PROVE  list[i].value <= v
      BY <1>9, <3>1, <3>4
    <3>5. QED
      BY <3>2, <3>3, <3>4
  <2>3. QED
    BY <2>1, <2>2
<1>13. QED
  BY <1>2, <1>3, <1>5, <1>6, <1>7, <1>8, <1>10, <1>12 DEF SplitAt

\* A tick wakes exactly the tasks whose time has come.
LEMMA WokenSound ==
    ASSUME TypeOK, TimeKnown, SleepersKnown,
           NEW rest, rest = SubSeq(Current, Expired + 1, Len(Current))
    PROVE  /\ Woken \in Seq(Tasks) /\ IsInjective(Woken)
           /\ \A t : t \in ToSet(Woken) <=>
                      \E item \in ToSet(Current) : item.value <= Now /\ t = item.owner
           /\ DelayList(rest)
           /\ \A item : item \in ToSet(rest) <=>
                         item \in ToSet(Current) /\ ~(item.value <= Now)
<1>1. Now \in Int /\ DelayList(Current) /\ SplitAt(Current, Expired, Now)
  BY ExpiredSound, KernelAssumption
<1>2. PICK first : first = SubSeq(Current, 1, Expired)
  OBVIOUS
<1>3. Woken = Owners(first)
  BY <1>2 DEF Woken
<1>4. AreParts(Current, Expired, first, rest)
  BY <1>2 DEF AreParts
<1>5. QED
  BY <1>1, <1>3, <1>4, SplitSound

\* The two lists of delayed tasks before and after a tick.
LEMMA TickLists ==
    ASSUME TypeOK, TimeKnown, SleepersKnown,
           NEW rest, rest = SubSeq(Current, Expired + 1, Len(Current)),
           NEW over, over = IF Now = 0 THEN delayed ELSE overflow
    PROVE  /\ DelayList(over)
           /\ Now = 0 => ToSet(over) = {}
           /\ ToSet(Owners(delayed)) \union ToSet(Owners(overflow))
                = ToSet(Owners(Current)) \union ToSet(Owners(over))
           /\ ToSet(Owners(Current)) \intersect ToSet(Owners(over)) = {}
           /\ ToSet(Owners(Current)) \intersect ToSet(suspended) = {}
           /\ ToSet(Owners(over)) \intersect ToSet(suspended) = {}
           /\ ToSet(Owners(rest)) = ToSet(Owners(Current)) \ ToSet(Woken)
           /\ ToSet(Woken) \subseteq ToSet(Owners(Current))
<1>1. (Now = 0 => delayed = << >>) /\ DelayList(Current)
  BY ExpiredSound
<1>2. /\ \A t : t \in ToSet(Woken) <=>
                 \E item \in ToSet(Current) : item.value <= Now /\ t = item.owner
      /\ DelayList(rest)
      /\ \A item : item \in ToSet(rest) <=>
                    item \in ToSet(Current) /\ ~(item.value <= Now)
  BY WokenSound
<1>3. DelayList(delayed) /\ DelayList(overflow) /\ DelayList(over)
  BY DEF SleepersKnown
<1>4. Now = 0 => ToSet(delayed) = {} /\ ToSet(Owners(delayed)) = {}
  <2>1. ASSUME Now = 0
        PROVE  ToSet(delayed) = {}
    BY <1>1, <2>1 DEF ToSet
  <2>2. QED
    BY <1>3, <2>1, ItemsSound
<1>5. /\ ToSet(Owners(delayed)) \union ToSet(Owners(overflow))
           = ToSet(Owners(Current)) \union ToSet(Owners(over))
      /\ ToSet(Owners(Current)) \intersect ToSet(Owners(over)) = {}
      /\ ToSet(Owners(Current)) \intersect ToSet(suspended) = {}
      /\ ToSet(Owners(over)) \intersect ToSet(suspended) = {}
  <2>1. CASE Now = 0
    <3>1. Current = overflow /\ over = delayed
      BY <2>1 DEF Current
    <3>2. QED
      BY <1>4, <2>1, <3>1 DEF SleepersKnown
  <2>2. CASE Now # 0
    <3>1. Current = delayed /\ over = overflow
      BY <2>2 DEF Current
    <3>2. QED
      BY <3>1 DEF SleepersKnown
  <2>3. QED
    BY <2>1, <2>2
<1>6. /\ ToSet(Owners(rest)) = ToSet(Owners(Current)) \ ToSet(Woken)
      /\ ToSet(Woken) \subseteq ToSet(Owners(Current))
  <2>1. /\ ToSet(Owners(Current)) = {item.owner : item \in ToSet(Current)}
        /\ \A a \in ToSet(Current), b \in ToSet(Current) : a.owner = b.owner => a = b
    BY <1>1, ItemsSound
  <2>2. ToSet(Owners(rest)) = {item.owner : item \in ToSet(rest)}
    BY <1>2, ItemsSound
  <2>3. QED
    BY <1>2, <2>1, <2>2
<1>7. QED
  BY <1>3, <1>4, <1>5, <1>6

\* What a tick does to the lists of sleeping tasks, the ready lists and the
\* event list.
LEMMA Ticked ==
    ASSUME TypeOK, TimeKnown, SleepersKnown, ReadyKnown, EventList(events), IncrementTick
    PROVE  /\ xTickCount' \in 0 .. MaxDelay /\ xNextTaskUnblockTime' \in 0 .. MaxDelay
           /\ ListsTypeOK' /\ TimeKnown' /\ SleepersKnown' /\ ReadyKnown'
           /\ Asleep' = Asleep \ ToSet(Woken)
           /\ EventList(events') /\ ToSet(events') = ToSet(events) \ ToSet(Woken)
<1>1. PICK rest, over, up :
        /\ rest = SubSeq(Current, Expired + 1, Len(Current))
        /\ over = IF Now = 0 THEN delayed ELSE overflow
        /\ up = UnblockTime(rest)
  OBVIOUS
<1>2. /\ delayed' = rest /\ overflow' = over /\ xTickCount' = Now
      /\ xNextTaskUnblockTime' = IF Now < NextUnblock THEN NextUnblock ELSE up
      /\ UNCHANGED <<suspended, xPendingReadyList>>
  BY <1>1 DEF IncrementTick
<1>3. /\ Now \in 0 .. MaxDelay /\ Now = IF xTickCount = MaxDelay THEN 0 ELSE xTickCount + 1
      /\ Now = 0 => delayed = << >>
      /\ DelayList(Current) /\ NextUnblock \in 0 .. MaxDelay
      /\ \A item \in ToSet(Current) : NextUnblock <= item.value
  BY ExpiredSound
<1>4. /\ Woken \in Seq(Tasks) /\ IsInjective(Woken)
      /\ \A t : t \in ToSet(Woken) <=>
                 \E item \in ToSet(Current) : item.value <= Now /\ t = item.owner
      /\ DelayList(rest)
      /\ \A item : item \in ToSet(rest) <=>
                    item \in ToSet(Current) /\ ~(item.value <= Now)
  BY <1>1, WokenSound
<1>5. /\ DelayList(over)
      /\ Now = 0 => ToSet(over) = {}
      /\ ToSet(Owners(delayed)) \union ToSet(Owners(overflow))
           = ToSet(Owners(Current)) \union ToSet(Owners(over))
      /\ ToSet(Owners(Current)) \intersect ToSet(Owners(over)) = {}
      /\ ToSet(Owners(Current)) \intersect ToSet(suspended) = {}
      /\ ToSet(Owners(over)) \intersect ToSet(suspended) = {}
      /\ ToSet(Owners(rest)) = ToSet(Owners(Current)) \ ToSet(Woken)
      /\ ToSet(Woken) \subseteq ToSet(Owners(Current))
  BY <1>1, TickLists
<1>6. Asleep' = Asleep \ ToSet(Woken) /\ ToSet(Woken) \subseteq Asleep
  <2>1. Asleep' = ToSet(Owners(rest)) \union ToSet(Owners(over)) \union ToSet(suspended)
    BY <1>2 DEF Asleep
  <2>2. QED
    BY <1>5, <2>1 DEF Asleep
<1>7. MaxDelay \in Nat /\ xTickCount \in 0 .. MaxDelay
  BY KernelAssumption DEF TypeOK, TimeTypeOK
<1>8. up \in 0 .. MaxDelay /\ \A item \in ToSet(rest) : up <= item.value
  BY <1>1, <1>4, UnblockSound
<1>9. TimeKnown'
  <2>1. \A item \in ToSet(rest) : item \in Items /\ item.value \in Int
    <3>1. \A item \in ToSet(rest) : item \in Items
      BY <1>4, ItemsSound
    <3>2. QED
      BY <1>7, <3>1 DEF Items
  <2>2. ASSUME NEW item \in ToSet(rest)
        PROVE  Now < item.value /\ xNextTaskUnblockTime' <= item.value
    <3>1. ~(item.value <= Now) /\ NextUnblock <= item.value
      BY <1>3, <1>4
    <3>2. QED
      BY <1>2, <1>3, <1>7, <1>8, <2>1, <3>1
  <2>3. ASSUME NEW item \in ToSet(over)
        PROVE  item.value < Now
    <3>1. CASE Now = 0
      BY <1>5, <3>1
    <3>2. CASE Now # 0
      <4>1. item.value < xTickCount /\ item \in Items
        BY <1>1, <1>5, <3>2, ItemsSound DEF TimeKnown
      <4>2. item.value \in Int
        BY <1>7, <4>1 DEF Items
      <4>3. QED
        BY <1>3, <1>7, <3>2, <4>1, <4>2
    <3>3. QED
      BY <3>1, <3>2
  <2>4. QED
    BY <1>2, <2>2, <2>3 DEF TimeKnown
<1>10. SleepersKnown'
  <2>1. /\ DelayList(rest) /\ DelayList(over) /\ IsInjective(suspended)
        /\ ToSet(Owners(rest)) \intersect ToSet(Owners(over)) = {}
        /\ ToSet(Owners(rest)) \intersect ToSet(suspended) = {}
        /\ ToSet(Owners(over)) \intersect ToSet(suspended) = {}
    BY <1>4, <1>5 DEF SleepersKnown
  <2>2. QED
    BY <1>2, <2>1 DEF SleepersKnown, DelayList
<1>11. /\ ReadyKnown'
       /\ ready' \in [Priorities -> Seq(Tasks \union {End})]
       /\ uxTopReadyPriority' \subseteq Priorities
  <2>1. PICK ts : ts = Woken
    OBVIOUS
  <2>2. AddToReady(ts)
    BY <2>1 DEF IncrementTick
  <2>3. QED
    BY <1>4, <1>6, <2>1, <2>2, Readied
<1>12. /\ events' \in Seq(Tasks) /\ EventList(events')
       /\ ToSet(events') = ToSet(events) \ ToSet(Woken)
  <2>1. PICK old, ts : old = events /\ ts = ToSet(Woken)
    OBVIOUS
  <2>2. events' = Others(old, ts) /\ old \in Seq(Tasks) /\ IsInjective(old) /\ EventList(old)
    BY <2>1 DEF IncrementTick, EventList
  <2>3. LET new == Others(old, ts)
        IN  /\ new \in Seq(Tasks) /\ IsInjective(new)
            /\ ToSet(new) = ToSet(old) \ ts
            /\ EventList(old) => EventList(new)
    BY <2>2, OthersSound
  <2>4. QED
    BY <2>1, <2>2, <2>3
<1>13. ListsTypeOK'
  <2>1. rest \in Seq(Items) /\ over \in Seq(Items)
    BY <1>4, <1>5 DEF DelayList
  <2>2. QED
    BY <1>2, <1>11, <1>12, <2>1 DEF ListsTypeOK, TypeOK
<1>14. QED
  BY <1>2, <1>3, <1>6, <1>8, <1>9, <1>10, <1>11, <1>12, <1>13

(* ---- tasks wake up and fall asleep ---- *)

\* The tasks ts are taken off the lists of sleeping tasks and become ready.
LEMMA Awoken ==
    ASSUME TypeOK, SleepersKnown, ReadyKnown,
           NEW ts \in Seq(Tasks), IsInjective(ts), ToSet(ts) \subseteq Asleep,
           RemoveState(ToSet(ts)), AddToReady(ts)
    PROVE  /\ delayed' \in Seq(Items) /\ overflow' \in Seq(Items) /\ suspended' \in Seq(Tasks)
           /\ ready' \in [Priorities -> Seq(Tasks \union {End})]
           /\ uxTopReadyPriority' \subseteq Priorities
           /\ SleepersKnown' /\ ReadyKnown' /\ Asleep' = Asleep \ ToSet(ts)
           /\ \A item : item \in ToSet(delayed') <=>
                         item \in ToSet(delayed) /\ item.owner \notin ToSet(ts)
           /\ \A item : item \in ToSet(overflow') <=>
                         item \in ToSet(overflow) /\ item.owner \notin ToSet(ts)
           /\ ToSet(suspended') = ToSet(suspended) \ ToSet(ts)
<1>1. PICK T : T = ToSet(ts)
  OBVIOUS
<1>2. PICK d, o, s, d1, o1, s1 :
        /\ d = delayed /\ o = overflow /\ s = suspended
        /\ d1 = Without(d, T) /\ o1 = Without(o, T) /\ s1 = Others(s, T)
  OBVIOUS
<1>3. delayed' = d1 /\ overflow' = o1 /\ suspended' = s1
  BY <1>1, <1>2 DEF RemoveState
<1>4. DelayList(d) /\ DelayList(o) /\ s \in Seq(Tasks) /\ IsInjective(s)
  BY <1>2 DEF SleepersKnown, TypeOK, ListsTypeOK
<1>5. /\ DelayList(d1) /\ \A item : item \in ToSet(d1) <=> item \in ToSet(d) /\ item.owner \notin T
      /\ DelayList(o1) /\ \A item : item \in ToSet(o1) <=> item \in ToSet(o) /\ item.owner \notin T
  <2>1. /\ DelayList(d1) /\ ToSet(d1) = {item \in ToSet(d) : item.owner \notin T}
        /\ DelayList(o1) /\ ToSet(o1) = {item \in ToSet(o) : item.owner \notin T}
    BY <1>2, <1>4, WithoutSound
  <2>2. QED
    BY <2>1
<1>6. s1 \in Seq(Tasks) /\ IsInjective(s1) /\ ToSet(s1) = ToSet(s) \ T
  <2>1. LET new == Others(s, T)
        IN  /\ new \in Seq(Tasks) /\ IsInjective(new)
            /\ ToSet(new) = ToSet(s) \ T
            /\ EventList(s) => EventList(new)
    BY <1>4, OthersSound
  <2>2. QED
    BY <1>2, <2>1
<1>7. /\ ToSet(Owners(d1)) = ToSet(Owners(d)) \ T
      /\ ToSet(Owners(o1)) = ToSet(Owners(o)) \ T
  <2>1. /\ ToSet(Owners(d)) = {item.owner : item \in ToSet(d)}
        /\ ToSet(Owners(d1)) = {item.owner : item \in ToSet(d1)}
    BY <1>4, <1>5, ItemsSound
  <2>2. /\ ToSet(Owners(o)) = {item.owner : item \in ToSet(o)}
        /\ ToSet(Owners(o1)) = {item.owner : item \in ToSet(o1)}
    BY <1>4, <1>5, ItemsSound
  <2>3. ToSet(Owners(d1)) = ToSet(Owners(d)) \ T
    BY <1>5, <2>1
  <2>4. ToSet(Owners(o1)) = ToSet(Owners(o)) \ T
    BY <1>5, <2>2
  <2>5. QED
    BY <2>3, <2>4
<1>8. Asleep' = Asleep \ ToSet(ts)
  <2>1. Asleep' = ToSet(Owners(d1)) \union ToSet(Owners(o1)) \union ToSet(s1)
    BY <1>3 DEF Asleep
  <2>2. QED
    BY <1>1, <1>2, <1>6, <1>7, <2>1 DEF Asleep
<1>9. SleepersKnown'
  <2>1. /\ ToSet(Owners(d1)) \intersect ToSet(Owners(o1)) = {}
        /\ ToSet(Owners(d1)) \intersect ToSet(s1) = {}
        /\ ToSet(Owners(o1)) \intersect ToSet(s1) = {}
    BY <1>2, <1>6, <1>7 DEF SleepersKnown
  <2>2. QED
    BY <1>3, <1>5, <1>6, <2>1 DEF SleepersKnown, DelayList
<1>10. /\ ReadyKnown' /\ ready' \in [Priorities -> Seq(Tasks \union {End})]
       /\ uxTopReadyPriority' \subseteq Priorities
  BY <1>8, Readied
<1>11. d1 \in Seq(Items) /\ o1 \in Seq(Items)
  BY <1>5 DEF DelayList
<1>12. QED
  BY <1>1, <1>2, <1>3, <1>5, <1>6, <1>8, <1>9, <1>10, <1>11

\* The running task goes on a list of delayed tasks.
LEMMA Slept ==
    ASSUME TypeOK, TimeKnown, SleepersKnown, ReadyKnown, pxCurrentTCB \notin Asleep,
           NEW n \in Delays, AddCurrentToDelayed(n), UNCHANGED <<xTickCount, suspended>>
    PROVE  /\ delayed' \in Seq(Items) /\ overflow' \in Seq(Items)
           /\ xNextTaskUnblockTime' \in 0 .. MaxDelay
           /\ ready' \in [Priorities -> Seq(Tasks \union {End})]
           /\ uxTopReadyPriority' \subseteq uxTopReadyPriority
           /\ TimeKnown' /\ SleepersKnown' /\ ReadyKnown'
           /\ Asleep' = Asleep \union {pxCurrentTCB}
           /\ LET item == [owner |-> pxCurrentTCB, value |-> WakeTime(n)]
              IN  \/ /\ item.value = xTickCount + n
                     /\ ToSet(delayed') = ToSet(delayed) \union {item} /\ overflow' = overflow
                  \/ /\ item.value = xTickCount + n - MaxDelay - 1
                     /\ ToSet(overflow') = ToSet(overflow) \union {item} /\ delayed' = delayed
<1>1. PICK c, v, item :
        c = pxCurrentTCB /\ v = WakeTime(n) /\ item = [owner |-> c, value |-> v]
  OBVIOUS
<1>2. /\ MaxDelay \in Nat \ {0} /\ xTickCount \in 0 .. MaxDelay /\ n \in 1 .. MaxDelay
      /\ xNextTaskUnblockTime \in 0 .. MaxDelay /\ c \in Tasks
  BY <1>1, KernelAssumption DEF TypeOK, TimeTypeOK, SchedulerTypeOK
<1>3. v = IF xTickCount + n <= MaxDelay THEN xTickCount + n ELSE xTickCount + n - MaxDelay - 1
  <2>1. PICK k \in Nat \ {0} : k = MaxDelay + 1
    BY <1>2
  <2>2. PICK a \in 0 .. 2 * k : a = xTickCount + n
    BY <1>2, <2>1
  <2>3. a % k = IF a < k THEN a ELSE IF a < 2 * k THEN a - k ELSE 0
    BY Around, Zenon
  <2>4. v = a % k
    BY <1>1, <2>1, <2>2 DEF WakeTime
  <2>5. QED
    BY <1>2, <2>1, <2>2, <2>3, <2>4
<1>4. v \in 0 .. MaxDelay /\ (v < xTickCount <=> ~(xTickCount + n <= MaxDelay)) /\ v # xTickCount
  BY <1>2, <1>3
<1>5. item \in Items /\ item.owner = c /\ item.value = v
  BY <1>1, <1>2, <1>4 DEF Items
<1>6. c \notin ToSet(Owners(delayed)) /\ c \notin ToSet(Owners(overflow)) /\ c \notin ToSet(suspended)
  BY <1>1 DEF Asleep
<1>7. PICK d, o, s : d = delayed /\ o = overflow /\ s = suspended
  OBVIOUS
<1>8. /\ DelayList(d) /\ DelayList(o) /\ IsInjective(s)
      /\ ToSet(Owners(d)) \intersect ToSet(Owners(o)) = {}
      /\ ToSet(Owners(d)) \intersect ToSet(s) = {}
      /\ ToSet(Owners(o)) \intersect ToSet(s) = {}
  BY <1>7 DEF SleepersKnown
<1>9. ASSUME NEW list, DelayList(list), c \notin ToSet(Owners(list)),
             NEW new, new = Insert(list, item)
      PROVE  /\ DelayList(new) /\ ToSet(new) = ToSet(list) \union {item}
             /\ ToSet(Owners(new)) = ToSet(Owners(list)) \union {c}
  <2>1. DelayList(new) /\ ToSet(new) = ToSet(list) \union {item}
    BY <1>5, <1>9, InsertSound
  <2>2. /\ ToSet(Owners(new)) = {i.owner : i \in ToSet(new)}
        /\ ToSet(Owners(list)) = {i.owner : i \in ToSet(list)}
    BY <1>9, <2>1, ItemsSound
  <2>3. QED
    BY <1>5, <2>1, <2>2
<1>10. LeaveReady
  BY DEF AddCurrentToDelayed
<1>11. CASE v < xTickCount
  <2>1. PICK o1 : o1 = Insert(o, item)
    OBVIOUS
  <2>2. /\ overflow' = o1 /\ delayed' = d /\ suspended' = s
        /\ xNextTaskUnblockTime' = xNextTaskUnblockTime /\ xTickCount' = xTickCount
    BY <1>1, <1>5, <1>7, <1>11, <2>1 DEF AddCurrentToDelayed
  <2>3. /\ DelayList(o1) /\ ToSet(o1) = ToSet(o) \union {item}
        /\ ToSet(Owners(o1)) = ToSet(Owners(o)) \union {c}
    BY <1>6, <1>7, <1>8, <1>9, <2>1
  <2>4. Asleep' = Asleep \union {pxCurrentTCB}
    <3>1. Asleep' = ToSet(Owners(d)) \union ToSet(Owners(o1)) \union ToSet(s)
      BY <2>2 DEF Asleep
    <3>2. QED
      BY <1>1, <1>7, <2>3, <3>1 DEF Asleep
  <2>5. SleepersKnown'
    <3>1. /\ ToSet(Owners(d)) \intersect ToSet(Owners(o1)) = {}
          /\ ToSet(Owners(o1)) \intersect ToSet(s) = {}
      BY <1>6, <1>7, <1>8, <2>3
    <3>2. QED
      BY <1>8, <2>2, <2>3, <3>1 DEF SleepersKnown, DelayList
  <2>6. TimeKnown'
    BY <1>5, <1>7, <1>11, <2>2, <2>3 DEF TimeKnown
  <2>7. /\ ReadyKnown' /\ ready' \in [Priorities -> Seq(Tasks \union {End})]
        /\ uxTopReadyPriority' \subseteq uxTopReadyPriority
    BY <1>1, <1>2, <1>10, <2>4, LeftReady DEF TypeOK
  <2>8. d \in Seq(Items) /\ o1 \in Seq(Items)
    BY <1>8, <2>3 DEF DelayList
  <2>9. v = xTickCount + n - MaxDelay - 1
    BY <1>3, <1>4, <1>11
  <2>10. QED
    BY <1>1, <1>2, <1>5, <1>7, <2>2, <2>3, <2>4, <2>5, <2>6, <2>7, <2>8, <2>9
<1>12. CASE ~(v < xTickCount)
  <2>1. PICK d1 : d1 = Insert(d, item)
    OBVIOUS
  <2>2. /\ delayed' = d1 /\ overflow' = o /\ suspended' = s /\ xTickCount' = xTickCount
        /\ xNextTaskUnblockTime' = Min({xNextTaskUnblockTime, v})
    BY <1>1, <1>5, <1>7, <1>12, <2>1 DEF AddCurrentToDelayed
  <2>3. /\ DelayList(d1) /\ ToSet(d1) = ToSet(d) \union {item}
        /\ ToSet(Owners(d1)) = ToSet(Owners(d)) \union {c}
    BY <1>6, <1>7, <1>8, <1>9, <2>1
  <2>4. Asleep' = Asleep \union {pxCurrentTCB}
    <3>1. Asleep' = ToSet(Owners(d1)) \union ToSet(Owners(o)) \union ToSet(s)
      BY <2>2 DEF Asleep
    <3>2. QED
      BY <1>1, <1>7, <2>3, <3>1 DEF Asleep
  <2>5. SleepersKnown'
    <3>1. /\ ToSet(Owners(d1)) \intersect ToSet(Owners(o)) = {}
          /\ ToSet(Owners(d1)) \intersect ToSet(s) = {}
      BY <1>6, <1>7, <1>8, <2>3
    <3>2. QED
      BY <1>8, <2>2, <2>3, <3>1 DEF SleepersKnown, DelayList
  <2>6. PICK u \in 0 .. MaxDelay :
          u = xNextTaskUnblockTime' /\ u <= v /\ u <= xNextTaskUnblockTime
    <3>1. \A a \in Int, b \in Int : Min({a, b}) = IF a <= b THEN a ELSE b
      BY DEF Min
    <3>2. QED
      BY <1>2, <1>4, <2>2, <3>1
  <2>7. TimeKnown'
    <3>1. ASSUME NEW i \in ToSet(d1)
          PROVE  xTickCount < i.value /\ u <= i.value
      <4>1. CASE i = item
        BY <1>2, <1>4, <1>5, <1>12, <2>6, <4>1
      <4>2. CASE i \in ToSet(d)
        <5>1. xTickCount < i.value /\ xNextTaskUnblockTime <= i.value /\ i \in Items
          BY <1>7, <1>8, <4>2, ItemsSound DEF TimeKnown
        <5>2. i.value \in Int
          BY <1>2, <5>1 DEF Items
        <5>3. QED
          BY <1>2, <2>6, <5>1, <5>2
      <4>3. QED
        BY <2>3, <4>1, <4>2
    <3>2. \A i \in ToSet(o) : i.value < xTickCount
      BY <1>7 DEF TimeKnown
    <3>3. QED
      BY <2>2, <2>6, <3>1, <3>2 DEF TimeKnown
  <2>8. /\ ReadyKnown' /\ ready' \in [Priorities -> Seq(Tasks \union {End})]
        /\ uxTopReadyPriority' \subseteq uxTopReadyPriority
    BY <1>1, <1>2, <1>10, <2>4, LeftReady DEF TypeOK
  <2>9. d1 \in Seq(Items) /\ o \in Seq(Items)
    BY <1>8, <2>3 DEF DelayList
  <2>10. v = xTickCount + n
    BY <1>3, <1>4, <1>12
  <2>11. QED
    BY <1>1, <1>5, <1>7, <2>2, <2>3, <2>4, <2>5, <2>6, <2>7, <2>8, <2>9, <2>10
<1>13. QED
  BY <1>11, <1>12

\* vListInsertEnd of a list without an index.
LEMMA Appended ==
    ASSUME NEW list \in Seq(Tasks), NEW t \in Tasks, IsInjective(list), t \notin ToSet(list)
    PROVE  /\ Append(list, t) \in Seq(Tasks) /\ IsInjective(Append(list, t))
           /\ ToSet(Append(list, t)) = ToSet(list) \union {t}
<1>1. PICK new : new = Append(list, t)
  OBVIOUS
<1>2. PICK p \in 1 .. Len(list) + 1 : Gains(Tasks, new, list, t, p)
  BY <1>1, GainsAtTheEnd
<1>3. /\ ToSet(new) = ToSet(list) \union {t}
      /\ IsInjective(list) /\ t \notin ToSet(list) => IsInjective(new)
  BY <1>2, ListWith
<1>4. QED
  BY <1>1, <1>2, <1>3 DEF Gains

\* The running task goes on the list of suspended tasks.
LEMMA SleptForever ==
    ASSUME TypeOK, SleepersKnown, ReadyKnown, pxCurrentTCB \notin Asleep, LeaveReady,
           suspended' = Append(suspended, pxCurrentTCB), UNCHANGED <<delayed, overflow>>
    PROVE  /\ suspended' \in Seq(Tasks)
           /\ ToSet(suspended') = ToSet(suspended) \union {pxCurrentTCB}
           /\ ready' \in [Priorities -> Seq(Tasks \union {End})]
           /\ uxTopReadyPriority' \subseteq uxTopReadyPriority
           /\ SleepersKnown' /\ ReadyKnown' /\ Asleep' = Asleep \union {pxCurrentTCB}
<1>1. PICK c, s, s1 : c = pxCurrentTCB /\ s = suspended /\ s1 = Append(s, c)
  OBVIOUS
<1>2. /\ c \in Tasks /\ s \in Seq(Tasks) /\ IsInjective(s) /\ c \notin ToSet(s)
      /\ c \notin ToSet(Owners(delayed)) /\ c \notin ToSet(Owners(overflow))
  BY <1>1 DEF TypeOK, ListsTypeOK, SchedulerTypeOK, SleepersKnown, Asleep
<1>3. s1 \in Seq(Tasks) /\ IsInjective(s1) /\ ToSet(s1) = ToSet(s) \union {c}
  BY <1>1, <1>2, Appended
<1>4. suspended' = s1
  BY <1>1
<1>5. Asleep' = Asleep \union {pxCurrentTCB}
  BY <1>1, <1>3, <1>4 DEF Asleep
<1>6. SleepersKnown'
  BY <1>1, <1>2, <1>3, <1>4 DEF SleepersKnown, DelayList
<1>7. /\ ReadyKnown' /\ ready' \in [Priorities -> Seq(Tasks \union {End})]
      /\ uxTopReadyPriority' \subseteq uxTopReadyPriority
  BY <1>1, <1>2, <1>5, LeftReady DEF TypeOK
<1>8. QED
  BY <1>1, <1>3, <1>4, <1>5, <1>6, <1>7

\* The first of an event list, which is of the highest priority, leaves it.
LEMMA FirstWaiter ==
    ASSUME NEW list, EventList(list), list # << >>
    PROVE  /\ Head(list) \in Tasks /\ Head(list) \in ToSet(list)
           /\ \A t \in ToSet(list) : Priority[t] <= Priority[Head(list)]
           /\ EventList(Tail(list)) /\ ToSet(Tail(list)) = ToSet(list) \ {Head(list)}
<1> DEFINE rest == Tail(list)
<1>1. list \in Seq(Tasks) /\ IsInjective(list)
  BY DEF EventList
<1>2. PICK n \in Nat : n = Len(list) /\ n # 0
  BY <1>1, LenProperties, EmptySeq
<1>3. /\ Head(list) = list[1] /\ rest \in Seq(Tasks) /\ Len(rest) = n - 1
      /\ \A i \in 1 .. n - 1 : rest[i] = list[i + 1]
  BY <1>1, <1>2, HeadTailProperties
<1> HIDE DEF rest
<1>4. /\ \A i \in 1 .. n : list[i] \in Tasks /\ list[i] \in ToSet(list)
      /\ \A t \in ToSet(list) : \E i \in 1 .. n : t = list[i]
      /\ \A i \in 1 .. n, j \in 1 .. n : list[i] = list[j] => i = j
  BY <1>1, <1>2, Indices
<1>5. \A t \in Tasks : Priority[t] \in Int
  BY KernelAssumption
<1>6. ASSUME NEW t \in ToSet(list)
      PROVE  Priority[t] <= Priority[list[1]]
  <2>1. PICK i \in 1 .. n : t = list[i]
    BY <1>4
  <2>2. CASE i = 1
    BY <1>4, <1>5, <2>1, <2>2
  <2>3. CASE i # 1
    <3>1. Priority[list[1]] >= Priority[list[i]] /\ Priority[list[1]] \in Int
      BY <1>2, <1>4, <1>5, <2>3 DEF EventList
    <3>2. QED
      BY <1>4, <1>5, <2>1, <3>1
  <2>4. QED
    BY <2>2, <2>3
<1>7. ASSUME NEW i \in 1 .. n - 1
      PROVE  i + 1 \in 1 .. n /\ i + 1 # 1 /\ rest[i] = list[i + 1]
  BY <1>3
<1>8. EventList(rest)
  <2>1. ASSUME NEW i \in 1 .. n - 1, NEW j \in 1 .. n - 1, rest[i] = rest[j]
        PROVE  i = j
    <3>1. i + 1 = j + 1
      BY <1>4, <1>7, <2>1
    <3>2. QED
      BY <3>1
  <2>2. IsInjective(rest)
    BY <1>3, <2>1, Indices
  <2>3. ASSUME NEW i \in 1 .. n - 1, NEW j \in 1 .. n - 1, i < j
        PROVE  Priority[rest[i]] >= Priority[rest[j]]
    <3>1. i + 1 < j + 1
      BY <2>3
    <3>2. Priority[list[i + 1]] >= Priority[list[j + 1]]
      BY <1>2, <1>7, <3>1 DEF EventList
    <3>3. QED
      BY <1>7, <3>2
  <2>4. QED
    BY <1>3, <2>2, <2>3 DEF EventList
<1>9. ToSet(rest) = ToSet(list) \ {list[1]}
  <2>1. ASSUME NEW t \in ToSet(rest)
        PROVE  t \in ToSet(list) /\ t # list[1]
    <3>1. PICK i \in 1 .. n - 1 : t = rest[i]
      BY <1>3, <2>1, Indices
    <3>2. 1 \in 1 .. n
      BY <1>2
    <3>3. QED
      BY <1>4, <1>7, <3>1, <3>2
  <2>2. ASSUME NEW t \in ToSet(list), t # list[1]
        PROVE  t \in ToSet(rest)
    <3>1. PICK i \in 1 .. n : t = list[i]
      BY <1>4
    <3>2. i - 1 \in 1 .. n - 1 /\ (i - 1) + 1 = i
      BY <2>2, <3>1
    <3>3. rest[i - 1] = t /\ rest[i - 1] \in ToSet(rest)
      BY <1>3, <1>7, <3>1, <3>2, Indices
    <3>4. QED
      BY <3>3
  <2>3. QED
    BY <2>1, <2>2
<1>10. 1 \in 1 .. n
  BY <1>2
<1>11. QED
  BY <1>3, <1>4, <1>6, <1>8, <1>9, <1>10 DEF rest

\* No task of higher priority than the running one was made ready.
LEMMA StillHighest ==
    ASSUME TypeOK, NoneHigher, NEW ts \in Seq(Tasks), AddToReady(ts), ~Preempts(ts),
           UNCHANGED pxCurrentTCB
    PROVE  NoneHigher'
<1>1. \A t \in ToSet(ts) : t \in Tasks
  BY Indices
<1>2. \A t \in Tasks : Priority[t] \in Int
  BY KernelAssumption
<1>3. PICK p \in Int : p = Priority[pxCurrentTCB]
  BY <1>2 DEF TypeOK, SchedulerTypeOK
<1>4. \A t \in ToSet(ts) : ~(Priority[t] > p)
  BY <1>3 DEF Preempts
<1>5. \A t \in ToSet(ts) : Priority[t] <= p
  BY <1>1, <1>2, <1>3, <1>4
<1>6. \A q \in uxTopReadyPriority' : q <= p
  BY <1>3, <1>5 DEF NoneHigher, AddToReady
<1>7. QED
  BY <1>3, <1>6 DEF NoneHigher

\* What the steps keep that leave the lists alone.
LEMMA Kept ==
    ASSUME KernelInv, UNCHANGED <<time, blocked, readied>>
    PROVE  /\ xTickCount' \in 0 .. MaxDelay /\ xNextTaskUnblockTime' \in 0 .. MaxDelay
           /\ ListsTypeOK' /\ TimeKnown' /\ SleepersKnown' /\ ReadyKnown'
           /\ Asleep' = Asleep /\ IdleAwake'
           /\ (uxSchedulerSuspended' = 0 => uxSchedulerSuspended = 0) => WaitersKnown'
           /\ UNCHANGED pxCurrentTCB /\ NoneHigher => NoneHigher'
<1>1. UNCHANGED <<xTickCount, delayed, overflow, xNextTaskUnblockTime, suspended, events,
                  xPendingReadyList, ready, uxTopReadyPriority>>
  BY DEF time, blocked, readied
<1>2. Asleep' = Asleep
  BY <1>1 DEF Asleep
<1>3. /\ xTickCount' \in 0 .. MaxDelay /\ xNextTaskUnblockTime' \in 0 .. MaxDelay
      /\ ListsTypeOK' /\ TimeKnown'
  BY <1>1 DEF KernelInv, TypeOK, TimeTypeOK, ListsTypeOK, TimeKnown
<1>4. SleepersKnown' /\ IdleAwake'
  BY <1>1, <1>2 DEF KernelInv, SleepersKnown, DelayList, IdleAwake
<1>5. ReadyKnown'
  BY <1>1, <1>2 DEF KernelInv, ReadyKnown, RingList
<1>6. (uxSchedulerSuspended' = 0 => uxSchedulerSuspended = 0) => WaitersKnown'
  BY <1>1, <1>2 DEF KernelInv, WaitersKnown, EventList
<1>7. UNCHANGED pxCurrentTCB /\ NoneHigher => NoneHigher'
  BY <1>1 DEF NoneHigher
<1>8. QED
  BY <1>2, <1>3, <1>4, <1>5, <1>6, <1>7

LEMMA IdleTask == Idle \in Tasks
<1>1. PICK list \in Seq(Tasks) : list = Created /\ list # << >> /\ Last(list) = Idle
  BY KernelAssumption
<1>2. Len(list) \in Nat /\ Len(list) # 0
  BY <1>1, LenProperties, EmptySeq
<1>3. Len(list) \in 1 .. Len(list)
  BY <1>2
<1>4. QED
  BY <1>1, <1>3, Indices DEF Last

\* A call that blocks suspends the scheduler once, the program up to the bound.
LEMMA NestedBound ==
    Max({1, MaxNested}) \in Nat /\ Max({1, MaxNested}) >= 1 /\ Max({1, MaxNested}) >= MaxNested
<1>1. \A a \in Nat : Max({1, a}) = IF 1 >= a THEN 1 ELSE a
  BY DEF Max
<1>2. QED
  BY <1>1, KernelAssumption

LEMMA NestingCounted ==
    ASSUME TypeOK
    PROVE  uxSchedulerSuspended \in Nat /\ uxSchedulerSuspended <= Max({1, MaxNested})
<1>1. PICK m \in Nat : m = Max({1, MaxNested})
  BY NestedBound
<1>2. uxSchedulerSuspended \in 0 .. m
  BY <1>1 DEF TypeOK, SchedulerTypeOK
<1>3. QED
  BY <1>1, <1>2

(* ---- every step keeps the invariant ---- *)

\* A tick that is counted at once or after it was held pending, and whose
\* request for a switch is kept in one of the flags.
LEMMA TickCounted ==
    ASSUME KernelInv, uxSchedulerSuspended = 0, IncrementTick,
           UNCHANGED <<uxSchedulerSuspended, pxCurrentTCB, pc>>,
           switch' \in BOOLEAN, xYieldPending' \in BOOLEAN, xPendedTicks' \in 0 .. MaxPended,
           switch => switch', xYieldPending => xYieldPending',
           SwitchRequired => switch' \/ xYieldPending'
    PROVE  KernelInv'
<1>1. /\ TypeOK /\ TimeKnown /\ SleepersKnown /\ ReadyKnown /\ WaitersKnown
      /\ CallsKnown /\ IdleAwake /\ UrgencyKnown
  BY DEF KernelInv
<1>2. EventList(events) /\ xPendingReadyList = << >> /\ ToSet(events) \subseteq Asleep
  BY <1>1 DEF WaitersKnown
<1>3. /\ xTickCount' \in 0 .. MaxDelay /\ xNextTaskUnblockTime' \in 0 .. MaxDelay
      /\ ListsTypeOK' /\ TimeKnown' /\ SleepersKnown' /\ ReadyKnown'
      /\ Asleep' = Asleep \ ToSet(Woken)
      /\ EventList(events') /\ ToSet(events') = ToSet(events) \ ToSet(Woken)
  BY <1>1, <1>2, Ticked
<1>4. TypeOK'
  <2>1. SchedulerTypeOK'
    BY <1>1 DEF TypeOK, SchedulerTypeOK
  <2>2. QED
    BY <1>3, <2>1 DEF TypeOK, TimeTypeOK
<1>5. xPendingReadyList' = xPendingReadyList
  BY DEF IncrementTick
<1>6. WaitersKnown'
  <2>1. ToSet(xPendingReadyList) = {} /\ IsInjective(xPendingReadyList)
    BY <1>1, <1>2 DEF WaitersKnown, ToSet
  <2>2. QED
    BY <1>2, <1>3, <1>5, <2>1 DEF WaitersKnown, EventList
<1>7. CallsKnown'
  BY <1>1, <1>3 DEF CallsKnown
<1>8. IdleAwake'
  BY <1>1, <1>3 DEF IdleAwake
<1>9. UrgencyKnown'
  <2>1. SUFFICES ASSUME ~switch', ~xYieldPending'
                 PROVE  NoneHigher'
    BY DEF UrgencyKnown
  <2>2. NoneHigher /\ ~Preempts(Woken)
    BY <1>1, <2>1 DEF UrgencyKnown, SwitchRequired
  <2>3. PICK ts : ts = Woken
    OBVIOUS
  <2>4. ts \in Seq(Tasks)
    BY <1>1, <2>3, WokenSound
  <2>5. AddToReady(ts)
    BY <2>3 DEF IncrementTick
  <2>6. QED
    BY <1>1, <2>2, <2>3, <2>4, <2>5, StillHighest
<1>10. QED
  BY <1>3, <1>4, <1>6, <1>7, <1>8, <1>9 DEF KernelInv

LEMMA TickInterruptKeeps ==
    ASSUME KernelInv, TickInterrupt
    PROVE  KernelInv'
<1>1. UNCHANGED <<uxSchedulerSuspended, xYieldPending, pxCurrentTCB, pc>>
  BY DEF TickInterrupt
<1>2. xPendedTicks \in 0 .. MaxPended /\ switch \in BOOLEAN /\ xYieldPending \in BOOLEAN
      /\ MaxPended \in Nat
  BY KernelAssumption DEF KernelInv, TypeOK, TimeTypeOK, SchedulerTypeOK
<1>3. CASE uxSchedulerSuspended = 0
  <2>1. /\ IncrementTick /\ switch' = (switch \/ SwitchRequired)
        /\ xPendedTicks' = xPendedTicks
    BY <1>3 DEF TickInterrupt
  <2>2. switch' \in BOOLEAN /\ (switch => switch') /\ (SwitchRequired => switch')
    BY <2>1, Zenon
  <2>3. QED
    BY <1>1, <1>2, <1>3, <2>1, <2>2, TickCounted
<1>4. CASE uxSchedulerSuspended # 0
  <2>1. /\ xPendedTicks < MaxPended /\ xPendedTicks' = xPendedTicks + 1
        /\ UNCHANGED <<time, blocked, readied>> /\ UNCHANGED switch
    BY <1>4 DEF TickInterrupt
  <2>2. xPendedTicks' \in 0 .. MaxPended
    BY <1>2, <2>1
  <2>3. /\ xTickCount' \in 0 .. MaxDelay /\ xNextTaskUnblockTime' \in 0 .. MaxDelay
        /\ ListsTypeOK' /\ TimeKnown' /\ SleepersKnown' /\ ReadyKnown'
        /\ Asleep' = Asleep /\ IdleAwake' /\ WaitersKnown'
        /\ NoneHigher => NoneHigher'
    BY <1>1, <2>1, Kept
  <2>4. TypeOK'
    BY <1>1, <2>1, <2>2, <2>3 DEF KernelInv, TypeOK, TimeTypeOK, SchedulerTypeOK
  <2>5. CallsKnown' /\ UrgencyKnown'
    BY <1>1, <2>1, <2>3 DEF KernelInv, CallsKnown, UrgencyKnown
  <2>6. QED
    BY <2>3, <2>4, <2>5 DEF KernelInv
<1>5. QED
  BY <1>3, <1>4

LEMMA UnwindTickKeeps ==
    ASSUME KernelInv, UnwindTick
    PROVE  KernelInv'
<1>1. /\ UNCHANGED <<uxSchedulerSuspended, pxCurrentTCB, pc>> /\ UNCHANGED switch
      /\ IncrementTick /\ xYieldPending' = (xYieldPending \/ SwitchRequired)
      /\ xPendedTicks > 0 /\ xPendedTicks' = xPendedTicks - 1
  BY DEF UnwindTick
<1>2. uxSchedulerSuspended = 0
  BY DEF UnwindTick, Critical, KernelInv, CallsKnown
<1>3. xPendedTicks' \in 0 .. MaxPended /\ switch' \in BOOLEAN
  <2>1. xPendedTicks \in 0 .. MaxPended /\ MaxPended \in Nat /\ switch \in BOOLEAN
    BY KernelAssumption DEF KernelInv, TypeOK, TimeTypeOK, SchedulerTypeOK
  <2>2. xPendedTicks' \in 0 .. MaxPended
    BY <1>1, <2>1
  <2>3. QED
    BY <1>1, <2>1, <2>2
<1>4. /\ xYieldPending' \in BOOLEAN /\ (xYieldPending => xYieldPending')
      /\ (SwitchRequired => xYieldPending') /\ (switch => switch')
  BY <1>1, Zenon
<1>5. QED
  BY <1>1, <1>2, <1>3, <1>4, TickCounted

LEMMA EventKeeps ==
    ASSUME KernelInv, Event
    PROVE  KernelInv'
<1>1. /\ TypeOK /\ TimeKnown /\ SleepersKnown /\ ReadyKnown /\ WaitersKnown
      /\ CallsKnown /\ IdleAwake /\ UrgencyKnown
  BY DEF KernelInv
<1>2. PICK t, old, rest : t = Head(events) /\ old = events /\ rest = Tail(events)
  OBVIOUS
<1>3. /\ events' = rest /\ old # << >>
      /\ xYieldPending' = (xYieldPending \/ Preempts(<<t>>))
      /\ switch' \in {switch, switch \/ Preempts(<<t>>)}
      /\ UNCHANGED <<xTickCount, xNextTaskUnblockTime, uxSchedulerSuspended,
                     xPendedTicks, pxCurrentTCB, pc>>
  BY <1>2 DEF Event
<1>4. switch \in BOOLEAN /\ xYieldPending \in BOOLEAN
  BY <1>1 DEF TypeOK, SchedulerTypeOK
<1>5. /\ switch' \in BOOLEAN /\ xYieldPending' \in BOOLEAN
      /\ (switch => switch') /\ (xYieldPending => xYieldPending')
      /\ (Preempts(<<t>>) => xYieldPending')
  BY <1>3, <1>4, Zenon
<1>6. /\ t \in Tasks /\ t \in ToSet(old) /\ EventList(rest)
      /\ ToSet(rest) = ToSet(old) \ {t} /\ rest \in Seq(Tasks)
  <2>1. EventList(old)
    BY <1>1, <1>2 DEF WaitersKnown
  <2>2. /\ Head(old) \in Tasks /\ Head(old) \in ToSet(old)
        /\ EventList(Tail(old)) /\ ToSet(Tail(old)) = ToSet(old) \ {Head(old)}
    BY <1>3, <2>1, FirstWaiter
  <2>3. QED
    BY <1>2, <2>2 DEF EventList
<1>7. SchedulerTypeOK' /\ TimeTypeOK'
  BY <1>1, <1>3, <1>5 DEF TypeOK, TimeTypeOK, SchedulerTypeOK
<1>8. t \in Asleep /\ t \notin ToSet(xPendingReadyList)
  BY <1>1, <1>2, <1>6 DEF WaitersKnown
<1>9. CASE uxSchedulerSuspended = 0
  <2>1. PICK ts : ts = <<t>>
    OBVIOUS
  <2>2. ts \in Seq(Tasks) /\ IsInjective(ts) /\ ToSet(ts) = {t}
    BY <1>6, <2>1 DEF IsInjective, ToSet
  <2>3. RemoveState({t}) /\ AddToReady(ts) /\ UNCHANGED xPendingReadyList
    BY <1>2, <1>9, <2>1 DEF Event
  <2>4. RemoveState(ToSet(ts))
    BY <2>2, <2>3
  <2>5. /\ delayed' \in Seq(Items) /\ overflow' \in Seq(Items) /\ suspended' \in Seq(Tasks)
        /\ ready' \in [Priorities -> Seq(Tasks \union {End})]
        /\ uxTopReadyPriority' \subseteq Priorities
        /\ SleepersKnown' /\ ReadyKnown' /\ Asleep' = Asleep \ ToSet(ts)
        /\ \A item : item \in ToSet(delayed') => item \in ToSet(delayed)
        /\ \A item : item \in ToSet(overflow') => item \in ToSet(overflow)
    BY <1>1, <1>8, <2>2, <2>3, <2>4, Awoken
  <2>6. TypeOK'
    BY <1>1, <1>3, <1>6, <1>7, <2>3, <2>5 DEF TypeOK, ListsTypeOK
  <2>7. TimeKnown'
    BY <1>1, <1>3, <2>5 DEF TimeKnown
  <2>8. WaitersKnown'
    <3>1. xPendingReadyList = << >>
      BY <1>1, <1>9 DEF WaitersKnown
    <3>2. ToSet(xPendingReadyList) = {} /\ IsInjective(xPendingReadyList)
      BY <1>1, <3>1 DEF WaitersKnown, ToSet
    <3>3. ToSet(rest) \subseteq Asleep \ {t}
      BY <1>1, <1>2, <1>6 DEF WaitersKnown
    <3>4. QED
      BY <1>3, <1>6, <2>2, <2>3, <2>5, <3>1, <3>2, <3>3 DEF WaitersKnown, EventList
  <2>9. CallsKnown'
    BY <1>1, <1>3, <1>5, <2>5 DEF CallsKnown
  <2>10. IdleAwake'
    BY <1>1, <2>5 DEF IdleAwake
  <2>11. UrgencyKnown'
    <3>1. SUFFICES ASSUME ~switch', ~xYieldPending'
                   PROVE  NoneHigher'
      BY DEF UrgencyKnown
    <3>2. NoneHigher /\ ~Preempts(ts)
      BY <1>1, <1>5, <2>1, <3>1 DEF UrgencyKnown
    <3>3. QED
      BY <1>1, <1>3, <2>2, <2>3, <3>2, StillHighest
  <2>12. QED
    BY <2>5, <2>6, <2>7, <2>8, <2>9, <2>10, <2>11 DEF KernelInv
<1>10. CASE uxSchedulerSuspended # 0
  <2>1. PICK pend, new : pend = xPendingReadyList /\ new = Append(pend, t)
    OBVIOUS
  <2>2. /\ xPendingReadyList' = new
        /\ UNCHANGED <<delayed, overflow, suspended, ready, uxTopReadyPriority>>
    BY <1>2, <1>10, <2>1 DEF Event, readied
  <2>3. new \in Seq(Tasks) /\ IsInjective(new) /\ ToSet(new) = ToSet(pend) \union {t}
    <3>1. pend \in Seq(Tasks) /\ IsInjective(pend) /\ t \notin ToSet(pend)
      BY <1>1, <1>8, <2>1 DEF WaitersKnown, TypeOK, ListsTypeOK
    <3>2. QED
      BY <1>6, <2>1, <3>1, Appended
  <2>4. Asleep' = Asleep
    BY <2>2 DEF Asleep
  <2>5. TypeOK'
    BY <1>1, <1>3, <1>6, <1>7, <2>2, <2>3 DEF TypeOK, ListsTypeOK
  <2>6. TimeKnown' /\ SleepersKnown' /\ IdleAwake'
    BY <1>1, <1>3, <2>2, <2>4 DEF TimeKnown, SleepersKnown, DelayList, IdleAwake
  <2>7. ReadyKnown'
    BY <1>1, <2>2, <2>4 DEF ReadyKnown, RingList
  <2>8. WaitersKnown'
    <3>1. ToSet(rest) \union ToSet(new) \subseteq Asleep /\ ToSet(new) \intersect ToSet(rest) = {}
      BY <1>1, <1>2, <1>6, <1>8, <2>1, <2>3 DEF WaitersKnown
    <3>2. QED
      BY <1>3, <1>6, <1>10, <2>2, <2>3, <2>4, <3>1 DEF WaitersKnown, EventList
  <2>9. CallsKnown'
    BY <1>1, <1>3, <1>5, <2>4 DEF CallsKnown
  <2>10. UrgencyKnown'
    BY <1>1, <1>3, <1>5, <2>2 DEF UrgencyKnown, NoneHigher
  <2>11. QED
    BY <2>5, <2>6, <2>7, <2>8, <2>9, <2>10 DEF KernelInv
<1>11. QED
  BY <1>9, <1>10

LEMMA SwitchContextKeeps ==
    ASSUME KernelInv, SwitchContext
    PROVE  KernelInv'
<1>1. /\ TypeOK /\ TimeKnown /\ SleepersKnown /\ ReadyKnown /\ WaitersKnown
      /\ CallsKnown /\ IdleAwake /\ UrgencyKnown
  BY DEF KernelInv
<1>2. /\ switch' = FALSE /\ ~Critical
      /\ UNCHANGED <<time, blocked>> /\ UNCHANGED uxTopReadyPriority
      /\ UNCHANGED <<uxSchedulerSuspended, xPendedTicks, pc>>
  BY DEF SwitchContext
<1>3. CASE uxSchedulerSuspended # 0
  <2>1. xYieldPending' = TRUE /\ UNCHANGED <<ready, pxCurrentTCB>>
    BY <1>3 DEF SwitchContext
  <2>2. UNCHANGED <<time, blocked, readied>>
    BY <1>2, <2>1 DEF readied
  <2>3. /\ xTickCount' \in 0 .. MaxDelay /\ xNextTaskUnblockTime' \in 0 .. MaxDelay
        /\ ListsTypeOK' /\ TimeKnown' /\ SleepersKnown' /\ ReadyKnown'
        /\ Asleep' = Asleep /\ IdleAwake' /\ WaitersKnown'
    BY <1>2, <2>2, Kept
  <2>4. TypeOK'
    BY <1>1, <1>2, <2>1, <2>3 DEF TypeOK, TimeTypeOK, SchedulerTypeOK
  <2>5. CallsKnown'
    <3>1. uxSchedulerSuspended \in Nat
      BY <1>1, NestingCounted
    <3>2. uxSchedulerSuspended > 0
      BY <1>3, <3>1
    <3>3. QED
      BY <1>1, <1>2, <2>1, <2>3, <3>2 DEF CallsKnown
  <2>6. UrgencyKnown'
    BY <2>1 DEF UrgencyKnown
  <2>7. QED
    BY <2>3, <2>4, <2>5, <2>6 DEF KernelInv
<1>4. CASE uxSchedulerSuspended = 0
  <2>1. PICK top, old, new :
          top = Max(uxTopReadyPriority) /\ old = ready[top] /\ new = NextEntry(old)
    OBVIOUS
  <2>2. /\ xYieldPending' = FALSE /\ ready' = [ready EXCEPT ![top] = new]
        /\ pxCurrentTCB' = Head(ready'[top])
    BY <1>4, <2>1 DEF SwitchContext
  <2>3. uxTopReadyPriority \in SUBSET Priorities /\ uxTopReadyPriority # {}
    <3>1. Idle \in Tasks
      BY IdleTask
    <3>2. Priority[Idle] \in Priorities /\ Idle \notin Asleep
      BY <1>1, <3>1 DEF Priorities, IdleAwake
    <3>3. Priority[Idle] \in uxTopReadyPriority
      BY <1>1, <3>1, <3>2, TopReady
    <3>4. QED
      BY <1>1, <3>3 DEF ReadyKnown
  <2>4. top \in uxTopReadyPriority /\ top \in Priorities /\ \A p \in uxTopReadyPriority : p <= top
    BY <2>1, <2>3, HighestPriority
  <2>5. /\ RingList(old) /\ Len(old) > 1
        /\ ToSet(old) = {End} \union {t \in Tasks : Priority[t] = top /\ t \notin Asleep}
    BY <1>1, <2>1, <2>4 DEF ReadyKnown
  <2>6. /\ RingList(new) /\ ToSet(new) = ToSet(old) /\ Len(new) = Len(old)
        /\ Head(new) \in Tasks /\ Head(new) \in ToSet(old)
    BY <2>1, <2>5, NextEntrySound
  <2>7. \A p \in Priorities : ready'[p] = IF p = top THEN new ELSE ready[p]
    BY <1>1, <2>2, <2>4 DEF TypeOK, ListsTypeOK
  <2>8. pxCurrentTCB' = Head(new)
    BY <2>2, <2>4, <2>7
  <2>9. pxCurrentTCB' \in Tasks /\ Priority[pxCurrentTCB'] = top /\ pxCurrentTCB' \notin Asleep
    BY <2>5, <2>6, <2>8, KernelAssumption
  <2>10. UNCHANGED <<xTickCount, delayed, overflow, xNextTaskUnblockTime, suspended, events,
                     xPendingReadyList, uxTopReadyPriority>>
    BY <1>2 DEF time, blocked
  <2>11. Asleep' = Asleep
    BY <2>10 DEF Asleep
  <2>12. ready' \in [Priorities -> Seq(Tasks \union {End})]
    <3>1. new \in Seq(Tasks \union {End})
      BY <2>6 DEF RingList
    <3>2. QED
      BY <1>1, <2>2, <3>1 DEF TypeOK, ListsTypeOK
  <2>13. TypeOK'
    BY <1>1, <1>2, <2>2, <2>9, <2>10, <2>12
    DEF TypeOK, TimeTypeOK, ListsTypeOK, SchedulerTypeOK
  <2>14. TimeKnown' /\ SleepersKnown' /\ IdleAwake'
    BY <1>1, <2>10, <2>11 DEF TimeKnown, SleepersKnown, DelayList, IdleAwake
  <2>15. ReadyKnown'
    <3>1. ASSUME NEW p \in Priorities
          PROVE  /\ RingList(ready'[p]) /\ Len(ready'[p]) = Len(ready[p])
                 /\ ToSet(ready'[p]) = ToSet(ready[p])
      <4>1. CASE p = top
        BY <2>1, <2>6, <2>7, <4>1
      <4>2. CASE p # top
        <5>1. ready'[p] = ready[p]
          BY <2>7, <4>2
        <5>2. QED
          BY <1>1, <5>1 DEF ReadyKnown
      <4>3. QED
        BY <4>1, <4>2
    <3>2. \A p \in Priorities :
            /\ RingList(ready'[p])
            /\ ToSet(ready'[p]) = {End} \union {t \in Tasks : Priority[t] = p /\ t \notin Asleep'}
      BY <1>1, <2>11, <3>1 DEF ReadyKnown
    <3>3. uxTopReadyPriority' = {p \in Priorities : Len(ready'[p]) > 1}
      BY <1>1, <2>10, <3>1 DEF ReadyKnown
    <3>4. QED
      BY <3>2, <3>3 DEF ReadyKnown, RingList
  <2>16. WaitersKnown'
    BY <1>1, <1>2, <2>10, <2>11 DEF WaitersKnown, EventList
  <2>17. CallsKnown'
    <3>1. \A t \in Tasks : pc[t] \in {"run", "yield"}
      <4>1. pc[pxCurrentTCB] \in {"run", "yield"}
        <5>1. pc[pxCurrentTCB] \in {"run", "add", "resume", "unwind", "unwind in delay", "yield"}
          BY <1>1 DEF TypeOK, SchedulerTypeOK
        <5>2. pc[pxCurrentTCB] \notin {"add", "resume", "unwind", "unwind in delay"}
          <6>1. pc[pxCurrentTCB] \notin {"add", "resume"}
            BY <1>1, <1>4 DEF CallsKnown
          <6>2. pc[pxCurrentTCB] \notin {"unwind", "unwind in delay"}
            BY <1>2 DEF Critical
          <6>3. QED
            BY <6>1, <6>2
        <5>3. QED
          BY <5>1, <5>2
      <4>2. QED
        BY <1>1, <4>1 DEF CallsKnown
    <3>2. pc' = pc /\ uxSchedulerSuspended' = 0 /\ pc[Idle] # "add"
      BY <1>1, <1>2, <1>4 DEF CallsKnown
    <3>3. QED
      BY <2>9, <2>11, <3>1, <3>2 DEF CallsKnown
  <2>18. UrgencyKnown'
    BY <2>4, <2>9, <2>10 DEF UrgencyKnown, NoneHigher
  <2>19. QED
    BY <2>13, <2>14, <2>15, <2>16, <2>17, <2>18 DEF KernelInv
<1>5. QED
  BY <1>3, <1>4

\* The running task puts itself to sleep: what is common to both ways.
LEMMA SleepKept ==
    ASSUME KernelInv, Step("add", "resume"), UNCHANGED <<xTickCount, pending>>,
           UNCHANGED xPendingReadyList, EventList(events'),
           ToSet(events') \subseteq ToSet(events) \union {pxCurrentTCB},
           ListsTypeOK', xNextTaskUnblockTime' \in 0 .. MaxDelay,
           TimeKnown', SleepersKnown', ReadyKnown', Asleep' = Asleep \union {pxCurrentTCB},
           uxTopReadyPriority' \subseteq uxTopReadyPriority
    PROVE  KernelInv'
<1>1. /\ TypeOK /\ TimeKnown /\ SleepersKnown /\ ReadyKnown /\ WaitersKnown
      /\ CallsKnown /\ IdleAwake /\ UrgencyKnown
  BY DEF KernelInv
<1>2. /\ UNCHANGED <<uxSchedulerSuspended, xPendedTicks, xYieldPending, switch, pxCurrentTCB>>
      /\ pc[pxCurrentTCB] = "add" /\ pc' = [pc EXCEPT ![pxCurrentTCB] = "resume"]
  BY DEF Step, pending
<1>3. /\ pxCurrentTCB \in Tasks /\ pxCurrentTCB # Idle /\ pxCurrentTCB \notin Asleep
      /\ uxSchedulerSuspended = 1
  BY <1>1, <1>2 DEF TypeOK, SchedulerTypeOK, CallsKnown
<1>4. TypeOK'
  BY <1>1, <1>2 DEF TypeOK, TimeTypeOK, SchedulerTypeOK
<1>5. WaitersKnown'
  <2>1. ToSet(xPendingReadyList) \intersect ToSet(events') = {}
    BY <1>1, <1>3 DEF WaitersKnown
  <2>2. QED
    BY <1>1, <1>2, <1>3, <2>1 DEF WaitersKnown, EventList
<1>6. CallsKnown'
  <2>1. /\ pc'[pxCurrentTCB] = "resume"
        /\ \A t \in Tasks \ {pxCurrentTCB} : pc'[t] = pc[t]
    BY <1>1, <1>2 DEF TypeOK, SchedulerTypeOK
  <2>2. pc'[Idle] # "add"
    BY <1>1, <1>3, <2>1, IdleTask DEF CallsKnown
  <2>3. QED
    BY <1>1, <1>2, <1>3, <2>1, <2>2 DEF CallsKnown
<1>7. IdleAwake'
  BY <1>1, <1>3 DEF IdleAwake
<1>8. UrgencyKnown'
  BY <1>1, <1>2 DEF UrgencyKnown, NoneHigher
<1>9. QED
  BY <1>4, <1>5, <1>6, <1>7, <1>8 DEF KernelInv

LEMMA AddToDelayedKeeps ==
    ASSUME KernelInv, AddToDelayed
    PROVE  KernelInv'
<1>1. /\ Step("add", "resume") /\ UNCHANGED <<xTickCount, pending>>
      /\ UNCHANGED <<suspended, events, xPendingReadyList>>
  BY DEF AddToDelayed, blocked
<1>2. pxCurrentTCB \notin Asleep
  BY <1>1 DEF KernelInv, CallsKnown, Step
<1>3. PICK n \in Delays : AddCurrentToDelayed(n)
  BY DEF AddToDelayed
<1>4. /\ delayed' \in Seq(Items) /\ overflow' \in Seq(Items)
      /\ xNextTaskUnblockTime' \in 0 .. MaxDelay
      /\ ready' \in [Priorities -> Seq(Tasks \union {End})]
      /\ uxTopReadyPriority' \subseteq uxTopReadyPriority
      /\ TimeKnown' /\ SleepersKnown' /\ ReadyKnown'
      /\ Asleep' = Asleep \union {pxCurrentTCB}
  BY <1>1, <1>2, <1>3, Slept DEF KernelInv
<1>5. ListsTypeOK'
  BY <1>1, <1>4 DEF KernelInv, TypeOK, ListsTypeOK
<1>6. EventList(events') /\ ToSet(events') \subseteq ToSet(events) \union {pxCurrentTCB}
  BY <1>1 DEF KernelInv, WaitersKnown
<1>7. QED
  BY <1>1, <1>4, <1>5, <1>6, SleepKept

LEMMA PlaceOnEventListKeeps ==
    ASSUME KernelInv, PlaceOnEventList
    PROVE  KernelInv'
<1>1. /\ Step("add", "resume") /\ UNCHANGED <<xTickCount, pending>>
      /\ UNCHANGED xPendingReadyList
  BY DEF PlaceOnEventList
<1>2. pxCurrentTCB \notin Asleep /\ pxCurrentTCB \in Tasks
  BY <1>1 DEF KernelInv, CallsKnown, Step, TypeOK, SchedulerTypeOK
<1>3. /\ EventList(events') /\ ToSet(events') = ToSet(events) \union {pxCurrentTCB}
      /\ events' \in Seq(Tasks)
  <2>1. PICK old, c : old = events /\ c = pxCurrentTCB
    OBVIOUS
  <2>2. EventList(old) /\ c \notin ToSet(old) /\ c \in Tasks
    BY <1>2, <2>1 DEF KernelInv, WaitersKnown
  <2>3. /\ EventList(InsertByPriority(old, c))
        /\ ToSet(InsertByPriority(old, c)) = ToSet(old) \union {c}
    BY <2>2, InsertByPrioritySound
  <2>4. events' = InsertByPriority(old, c)
    BY <2>1 DEF PlaceOnEventList
  <2>5. QED
    BY <2>1, <2>3, <2>4 DEF EventList
<1>4. CASE \E n \in Delays \ {MaxDelay} : AddCurrentToDelayed(n) /\ UNCHANGED suspended
  <2>1. PICK n \in Delays : AddCurrentToDelayed(n) /\ UNCHANGED suspended
    BY <1>4
  <2>2. /\ delayed' \in Seq(Items) /\ overflow' \in Seq(Items)
        /\ xNextTaskUnblockTime' \in 0 .. MaxDelay
        /\ ready' \in [Priorities -> Seq(Tasks \union {End})]
        /\ uxTopReadyPriority' \subseteq uxTopReadyPriority
        /\ TimeKnown' /\ SleepersKnown' /\ ReadyKnown'
        /\ Asleep' = Asleep \union {pxCurrentTCB}
    BY <1>1, <1>2, <2>1, Slept DEF KernelInv
  <2>3. ListsTypeOK'
    BY <1>1, <1>3, <2>1, <2>2 DEF KernelInv, TypeOK, ListsTypeOK
  <2>4. QED
    BY <1>1, <1>3, <2>2, <2>3, SleepKept
<1>5. CASE /\ LeaveReady /\ suspended' = Append(suspended, pxCurrentTCB)
           /\ UNCHANGED <<delayed, overflow, xNextTaskUnblockTime>>
  <2>1. /\ suspended' \in Seq(Tasks) /\ ready' \in [Priorities -> Seq(Tasks \union {End})]
        /\ uxTopReadyPriority' \subseteq uxTopReadyPriority
        /\ SleepersKnown' /\ ReadyKnown' /\ Asleep' = Asleep \union {pxCurrentTCB}
    BY <1>2, <1>5, SleptForever DEF KernelInv
  <2>2. ListsTypeOK' /\ xNextTaskUnblockTime' \in 0 .. MaxDelay
    BY <1>1, <1>3, <1>5, <2>1 DEF KernelInv, TypeOK, ListsTypeOK, TimeTypeOK
  <2>3. TimeKnown'
    BY <1>1, <1>5 DEF KernelInv, TimeKnown
  <2>4. QED
    BY <1>1, <1>3, <2>1, <2>2, <2>3, SleepKept
<1>6. QED
  BY <1>4, <1>5 DEF PlaceOnEventList

\* The running task moves on in the kernel and leaves the lists alone.
LEMMA Moved ==
    ASSUME KernelInv, NEW from, NEW to, Step(from, to), UNCHANGED <<time, blocked, readied>>,
           to \in {"run", "add", "yield"}, to = "add" => pxCurrentTCB # Idle
    PROVE  /\ xTickCount' \in 0 .. MaxDelay /\ xNextTaskUnblockTime' \in 0 .. MaxDelay
           /\ ListsTypeOK' /\ TimeKnown' /\ SleepersKnown' /\ ReadyKnown' /\ IdleAwake'
           /\ (uxSchedulerSuspended' = 0 => uxSchedulerSuspended = 0) => WaitersKnown'
           /\ pxCurrentTCB' \in Tasks
           /\ pc' \in [Tasks -> {"run", "add", "resume", "unwind", "unwind in delay", "yield"}]
           /\ /\ to = "add" => uxSchedulerSuspended' = 1
              /\ to = "yield" => uxSchedulerSuspended' = 0
              /\ to = "add" => pxCurrentTCB \notin Asleep
              /\ to = "run" /\ (~switch' \/ uxSchedulerSuspended' > 0) =>
                   pxCurrentTCB \notin Asleep
              => CallsKnown'
           /\ (~switch' /\ ~xYieldPending' => ~xYieldPending) => UrgencyKnown'
<1>1. /\ TypeOK /\ CallsKnown /\ UrgencyKnown
  BY DEF KernelInv
<1>2. /\ ~switch /\ pc[pxCurrentTCB] = from /\ pxCurrentTCB' = pxCurrentTCB
      /\ pc' = [pc EXCEPT ![pxCurrentTCB] = to]
  BY DEF Step
<1>3. /\ xTickCount' \in 0 .. MaxDelay /\ xNextTaskUnblockTime' \in 0 .. MaxDelay
      /\ ListsTypeOK' /\ TimeKnown' /\ SleepersKnown' /\ ReadyKnown'
      /\ Asleep' = Asleep /\ IdleAwake'
      /\ (uxSchedulerSuspended' = 0 => uxSchedulerSuspended = 0) => WaitersKnown'
      /\ UNCHANGED pxCurrentTCB /\ NoneHigher => NoneHigher'
  BY Kept
<1>4. /\ pxCurrentTCB \in Tasks /\ pc'[pxCurrentTCB] = to
      /\ \A t \in Tasks \ {pxCurrentTCB} : pc'[t] = pc[t]
      /\ pc' \in [Tasks -> {"run", "add", "resume", "unwind", "unwind in delay", "yield"}]
  BY <1>1, <1>2 DEF TypeOK, SchedulerTypeOK
<1>5. pc'[Idle] # "add"
  BY <1>1, <1>4, IdleTask DEF CallsKnown
<1>6. ASSUME to = "add" => uxSchedulerSuspended' = 1,
             to = "yield" => uxSchedulerSuspended' = 0,
             to = "add" => pxCurrentTCB \notin Asleep,
             to = "run" /\ (~switch' \/ uxSchedulerSuspended' > 0) => pxCurrentTCB \notin Asleep
      PROVE  CallsKnown'
  BY <1>1, <1>2, <1>3, <1>4, <1>5, <1>6 DEF CallsKnown
<1>7. ASSUME ~switch' /\ ~xYieldPending' => ~xYieldPending
      PROVE  UrgencyKnown'
  BY <1>1, <1>2, <1>3, <1>7 DEF UrgencyKnown
<1>8. QED
  BY <1>2, <1>3, <1>4, <1>6, <1>7

LEMMA SuspendAllKeeps ==
    ASSUME KernelInv, NEW to, SuspendAll(to), pxCurrentTCB # Idle,
           \/ to = "run" /\ uxSchedulerSuspended < MaxNested
           \/ to = "add" /\ uxSchedulerSuspended = 0
    PROVE  KernelInv'
<1>1. /\ TypeOK /\ CallsKnown
  BY DEF KernelInv
<1>2. /\ Step("run", to) /\ UNCHANGED <<time, blocked, readied>>
      /\ UNCHANGED <<xPendedTicks, xYieldPending, switch>>
      /\ uxSchedulerSuspended' = uxSchedulerSuspended + 1
      /\ ~switch /\ pc[pxCurrentTCB] = "run"
  BY DEF SuspendAll, Step
<1>3. pxCurrentTCB \notin Asleep
  BY <1>1, <1>2 DEF CallsKnown
<1>4. /\ uxSchedulerSuspended' \in 0 .. Max({1, MaxNested}) /\ uxSchedulerSuspended' # 0
      /\ to = "add" => uxSchedulerSuspended' = 1
  <2>1. PICK m \in Nat : m = Max({1, MaxNested}) /\ m >= 1 /\ m >= MaxNested
    BY NestedBound
  <2>2. uxSchedulerSuspended \in Nat /\ MaxNested \in Nat
    BY <1>1, NestingCounted, KernelAssumption
  <2>3. uxSchedulerSuspended' \in 0 .. m /\ uxSchedulerSuspended' # 0
    BY <1>2, <2>1, <2>2
  <2>4. QED
    BY <1>2, <2>1, <2>2, <2>3
<1>5. to \in {"run", "add", "yield"} /\ to # "yield"
  OBVIOUS
<1>6. /\ xTickCount' \in 0 .. MaxDelay /\ xNextTaskUnblockTime' \in 0 .. MaxDelay
      /\ ListsTypeOK' /\ TimeKnown' /\ SleepersKnown' /\ ReadyKnown' /\ IdleAwake'
      /\ WaitersKnown' /\ pxCurrentTCB' \in Tasks
      /\ pc' \in [Tasks -> {"run", "add", "resume", "unwind", "unwind in delay", "yield"}]
      /\ CallsKnown' /\ UrgencyKnown'
  BY <1>2, <1>3, <1>4, <1>5, Moved
<1>7. TypeOK'
  BY <1>1, <1>2, <1>4, <1>6 DEF TypeOK, TimeTypeOK, SchedulerTypeOK
<1>8. QED
  BY <1>6, <1>7 DEF KernelInv

LEMMA RaiseSwitchKeeps ==
    ASSUME KernelInv, NEW from \in {"run", "yield"}, RaiseSwitch(from)
    PROVE  KernelInv'
<1>1. /\ TypeOK /\ CallsKnown
  BY DEF KernelInv
<1>2. /\ Step(from, "run") /\ UNCHANGED <<time, blocked, readied>>
      /\ UNCHANGED <<uxSchedulerSuspended, xPendedTicks, xYieldPending>> /\ switch' = TRUE
      /\ ~switch /\ pc[pxCurrentTCB] = from
  BY DEF RaiseSwitch, Step
<1>3. (~switch' \/ uxSchedulerSuspended' > 0) => pxCurrentTCB \notin Asleep
  <2>1. switch' /\ uxSchedulerSuspended' = uxSchedulerSuspended
    BY <1>2
  <2>2. CASE from = "run"
    BY <1>1, <1>2, <2>2 DEF CallsKnown
  <2>3. CASE from = "yield"
    <3>1. uxSchedulerSuspended = 0 /\ ~(0 > 0)
      BY <1>1, <1>2, <2>3 DEF CallsKnown
    <3>2. QED
      BY <2>1, <3>1
  <2>4. QED
    BY <2>2, <2>3
<1>4. PICK to : to = "run"
  OBVIOUS
<1>5. /\ Step(from, to) /\ to \in {"run", "add", "yield"} /\ to # "add" /\ to # "yield"
  BY <1>2, <1>4
<1>6. (~switch' /\ ~xYieldPending') => ~xYieldPending
  BY <1>2
<1>7. /\ xTickCount' \in 0 .. MaxDelay /\ xNextTaskUnblockTime' \in 0 .. MaxDelay
      /\ ListsTypeOK' /\ TimeKnown' /\ SleepersKnown' /\ ReadyKnown' /\ IdleAwake'
      /\ WaitersKnown' /\ pxCurrentTCB' \in Tasks
      /\ pc' \in [Tasks -> {"run", "add", "resume", "unwind", "unwind in delay", "yield"}]
      /\ CallsKnown' /\ UrgencyKnown'
  BY <1>2, <1>3, <1>5, <1>6, Moved
<1>8. TypeOK'
  BY <1>1, <1>2, <1>7 DEF TypeOK, TimeTypeOK, SchedulerTypeOK
<1>9. QED
  BY <1>7, <1>8 DEF KernelInv

LEMMA LeaveResumeAllKeeps ==
    ASSUME KernelInv, LeaveResumeAll
    PROVE  KernelInv'
<1>1. /\ TypeOK /\ CallsKnown
  BY DEF KernelInv
<1>2. PICK from, to :
        /\ Step(from, to) /\ pc[pxCurrentTCB] = from
        /\ \/ from = "unwind" /\ to = "run"
           \/ from = "unwind in delay" /\ to = IF xYieldPending THEN "run" ELSE "yield"
  BY DEF LeaveResumeAll, LeaveResume, Step
<1>3. /\ UNCHANGED <<time, blocked, readied>> /\ switch' = xYieldPending
      /\ UNCHANGED <<uxSchedulerSuspended, xPendedTicks, xYieldPending>>
  BY DEF LeaveResumeAll, LeaveResume
<1>4. /\ uxSchedulerSuspended = 0 /\ (from = "unwind" => pxCurrentTCB \notin Asleep)
      /\ xYieldPending \in BOOLEAN
  BY <1>1, <1>2 DEF CallsKnown, TypeOK, SchedulerTypeOK
<1>5. /\ to \in {"run", "add", "yield"} /\ to # "add"
      /\ to = "run" /\ (~switch' \/ uxSchedulerSuspended' > 0) => pxCurrentTCB \notin Asleep
  <2>1. ~(uxSchedulerSuspended' > 0)
    BY <1>3, <1>4
  <2>2. CASE from = "unwind"
    BY <1>2, <1>4, <2>2
  <2>3. CASE from = "unwind in delay" /\ xYieldPending
    BY <1>2, <1>3, <2>1, <2>3, Zenon
  <2>4. CASE from = "unwind in delay" /\ ~xYieldPending
    BY <1>2, <2>4
  <2>5. QED
    BY <1>2, <2>2, <2>3, <2>4
<1>6. /\ xTickCount' \in 0 .. MaxDelay /\ xNextTaskUnblockTime' \in 0 .. MaxDelay
      /\ ListsTypeOK' /\ TimeKnown' /\ SleepersKnown' /\ ReadyKnown' /\ IdleAwake'
      /\ WaitersKnown' /\ pxCurrentTCB' \in Tasks
      /\ pc' \in [Tasks -> {"run", "add", "resume", "unwind", "unwind in delay", "yield"}]
      /\ CallsKnown' /\ UrgencyKnown'
  BY <1>2, <1>3, <1>4, <1>5, Moved
<1>7. TypeOK'
  BY <1>1, <1>3, <1>4, <1>6 DEF TypeOK, TimeTypeOK, SchedulerTypeOK
<1>8. QED
  BY <1>6, <1>7 DEF KernelInv

\* xTaskResumeAll called by the program, or by a call that put the task to sleep.
ResumesFrom(from, to) ==
    \/ from = "run" /\ to = "unwind"
    \/ from = "resume" /\ to = "unwind in delay"

\* xTaskResumeAll that resumes the scheduler.
LEMMA Resumed ==
    ASSUME KernelInv, NEW from, NEW to, ResumeAll(from, to), uxSchedulerSuspended = 1,
           ResumesFrom(from, to)
    PROVE  KernelInv'
<1>1. /\ TypeOK /\ TimeKnown /\ SleepersKnown /\ ReadyKnown /\ WaitersKnown
      /\ CallsKnown /\ IdleAwake /\ UrgencyKnown
  BY DEF KernelInv
<1>2. PICK ts : ts = xPendingReadyList
  OBVIOUS
<1>3. /\ uxSchedulerSuspended > 0 /\ uxSchedulerSuspended' = uxSchedulerSuspended - 1
      /\ Step(from, to) /\ RemoveState(ToSet(ts)) /\ AddToReady(ts)
      /\ xPendingReadyList' = << >> /\ xYieldPending' = (xYieldPending \/ Preempts(ts))
      /\ xNextTaskUnblockTime' = IF ts = << >> THEN xNextTaskUnblockTime
                                               ELSE UnblockTime(delayed')
      /\ UNCHANGED <<xTickCount, events>> /\ UNCHANGED <<xPendedTicks, switch>>
  <2>1. ~(1 > 1)
    OBVIOUS
  <2>2. QED
    BY <1>2, <2>1 DEF ResumeAll
<1>4. /\ ~switch /\ pc[pxCurrentTCB] = from /\ pxCurrentTCB' = pxCurrentTCB
      /\ pc' = [pc EXCEPT ![pxCurrentTCB] = to]
  BY <1>3 DEF Step
<1>5. uxSchedulerSuspended' = 0
  BY <1>3
<1>6. /\ ts \in Seq(Tasks) /\ IsInjective(ts) /\ ToSet(ts) \subseteq Asleep
      /\ ToSet(ts) \intersect ToSet(events) = {}
  BY <1>1, <1>2 DEF WaitersKnown, TypeOK, ListsTypeOK
<1>7. /\ delayed' \in Seq(Items) /\ overflow' \in Seq(Items) /\ suspended' \in Seq(Tasks)
      /\ ready' \in [Priorities -> Seq(Tasks \union {End})]
      /\ uxTopReadyPriority' \subseteq Priorities
      /\ SleepersKnown' /\ ReadyKnown' /\ Asleep' = Asleep \ ToSet(ts)
      /\ \A item : item \in ToSet(delayed') => item \in ToSet(delayed)
      /\ \A item : item \in ToSet(overflow') => item \in ToSet(overflow)
  BY <1>1, <1>3, <1>6, Awoken
<1>8. /\ xNextTaskUnblockTime' \in 0 .. MaxDelay
      /\ \A item \in ToSet(delayed') : xNextTaskUnblockTime' <= item.value
  <2>1. CASE ts = << >>
    BY <1>1, <1>3, <1>7, <2>1 DEF TimeKnown, TypeOK, TimeTypeOK
  <2>2. CASE ts # << >>
    <3>1. PICK list : list = delayed'
      OBVIOUS
    <3>2. DelayList(list)
      BY <1>7, <3>1 DEF SleepersKnown
    <3>3. UnblockTime(list) \in 0 .. MaxDelay /\ \A item \in ToSet(list) : UnblockTime(list) <= item.value
      BY <3>2, UnblockSound
    <3>4. QED
      BY <1>3, <2>2, <3>1, <3>3
  <2>3. QED
    BY <2>1, <2>2
<1>9. TimeKnown'
  BY <1>1, <1>3, <1>7, <1>8 DEF TimeKnown
<1>10. ListsTypeOK'
  <2>1. xPendingReadyList' \in Seq(Tasks) /\ events' \in Seq(Tasks)
    BY <1>1, <1>3 DEF TypeOK, ListsTypeOK
  <2>2. QED
    BY <1>7, <2>1 DEF ListsTypeOK
<1>11. /\ pxCurrentTCB \in Tasks /\ pc'[pxCurrentTCB] = to
       /\ \A t \in Tasks \ {pxCurrentTCB} : pc'[t] = pc[t]
       /\ pc' \in [Tasks -> {"run", "add", "resume", "unwind", "unwind in delay", "yield"}]
  BY <1>1, <1>4 DEF TypeOK, SchedulerTypeOK, ResumesFrom
<1>12. TypeOK'
  <2>1. xYieldPending' \in BOOLEAN
    BY <1>3, Zenon
  <2>2. uxSchedulerSuspended' \in 0 .. Max({1, MaxNested})
    BY <1>5, NestedBound
  <2>3. SchedulerTypeOK'
    BY <1>1, <1>3, <1>4, <1>11, <2>1, <2>2 DEF TypeOK, SchedulerTypeOK
  <2>4. QED
    BY <1>1, <1>3, <1>8, <1>10, <2>3 DEF TypeOK, TimeTypeOK
<1>13. WaitersKnown'
  <2>1. PICK none : none = << >> /\ xPendingReadyList' = none
    BY <1>3
  <2>2. ToSet(none) = {} /\ IsInjective(none)
    BY <2>1 DEF ToSet, IsInjective
  <2>3. EventList(events) /\ ToSet(events) \subseteq Asleep \ ToSet(ts)
    BY <1>1, <1>6 DEF WaitersKnown
  <2>4. QED
    BY <1>3, <1>7, <2>1, <2>2, <2>3 DEF WaitersKnown, EventList
<1>14. CallsKnown'
  <2>1. from = "run" => pxCurrentTCB \notin Asleep
    BY <1>1, <1>4 DEF CallsKnown
  <2>2. pc'[Idle] # "add"
    BY <1>1, <1>11, IdleTask DEF CallsKnown, ResumesFrom
  <2>3. QED
    BY <1>1, <1>4, <1>5, <1>7, <1>11, <2>1, <2>2 DEF CallsKnown, ResumesFrom
<1>15. IdleAwake'
  BY <1>1, <1>7 DEF IdleAwake
<1>16. UrgencyKnown'
  <2>1. SUFFICES ASSUME ~switch', ~xYieldPending'
                 PROVE  NoneHigher'
    BY DEF UrgencyKnown
  <2>2. NoneHigher /\ ~Preempts(ts)
    BY <1>1, <1>3, <1>4, <2>1 DEF UrgencyKnown
  <2>3. QED
    BY <1>1, <1>3, <1>4, <1>6, <2>2, StillHighest
<1>17. QED
  BY <1>7, <1>9, <1>12, <1>13, <1>14, <1>15, <1>16 DEF KernelInv

LEMMA ResumeAllKeeps ==
    ASSUME KernelInv, xTaskResumeAll
    PROVE  KernelInv'
<1>1. PICK from, to :
        ResumeAll(from, to) /\ ResumesFrom(from, to)
  BY DEF xTaskResumeAll, ResumesFrom
<1>2. CASE ~(uxSchedulerSuspended > 1)
  <2>1. uxSchedulerSuspended \in Nat /\ uxSchedulerSuspended > 0
    BY <1>1, NestingCounted DEF KernelInv, ResumeAll
  <2>2. uxSchedulerSuspended = 1
    BY <1>2, <2>1
  <2>3. QED
    BY <1>1, <2>2, Resumed
<1>3. CASE uxSchedulerSuspended > 1
  <2>1. PICK run : run = "run"
    OBVIOUS
  <2>2. /\ Step(from, run) /\ UNCHANGED <<time, blocked, readied>>
        /\ UNCHANGED <<xPendedTicks, xYieldPending, switch>>
        /\ uxSchedulerSuspended' = uxSchedulerSuspended - 1
    BY <1>1, <1>3, <2>1 DEF ResumeAll
  <2>3. ~switch /\ pc[pxCurrentTCB] = from
    BY <2>2 DEF Step
  <2>4. /\ TypeOK /\ CallsKnown
    BY DEF KernelInv
  <2>5. pxCurrentTCB \notin Asleep
    <3>1. from = "run"
      <4>1. from = "resume" => uxSchedulerSuspended = 1 /\ ~(1 > 1)
        BY <2>3, <2>4 DEF CallsKnown
      <4>2. QED
        BY <1>1, <1>3, <4>1 DEF ResumesFrom
    <3>2. QED
      BY <2>3, <2>4, <3>1 DEF CallsKnown
  <2>6. uxSchedulerSuspended' \in 0 .. Max({1, MaxNested}) /\ uxSchedulerSuspended' # 0
    <3>1. PICK m \in Nat : m = Max({1, MaxNested})
      BY NestedBound
    <3>2. uxSchedulerSuspended \in Nat /\ uxSchedulerSuspended <= m
      BY <2>4, <3>1, NestingCounted
    <3>3. uxSchedulerSuspended' \in 0 .. m /\ uxSchedulerSuspended' # 0
      BY <1>3, <2>2, <3>2
    <3>4. QED
      BY <3>1, <3>3
  <2>7. /\ run \in {"run", "add", "yield"} /\ run # "add" /\ run # "yield"
        /\ (~switch' /\ ~xYieldPending' => ~xYieldPending)
    BY <2>1, <2>2
  <2>8. /\ xTickCount' \in 0 .. MaxDelay /\ xNextTaskUnblockTime' \in 0 .. MaxDelay
        /\ ListsTypeOK' /\ TimeKnown' /\ SleepersKnown' /\ ReadyKnown' /\ IdleAwake'
        /\ WaitersKnown' /\ pxCurrentTCB' \in Tasks
        /\ pc' \in [Tasks -> {"run", "add", "resume", "unwind", "unwind in delay", "yield"}]
        /\ CallsKnown' /\ UrgencyKnown'
    BY <2>2, <2>5, <2>6, <2>7, Moved
  <2>9. TypeOK'
    BY <2>2, <2>4, <2>6, <2>8 DEF TypeOK, TimeTypeOK, SchedulerTypeOK
  <2>10. QED
    BY <2>8, <2>9 DEF KernelInv
<1>4. QED
  BY <1>2, <1>3

\* Every task is ready at first, and one of the highest priority runs.
LEMMA InitKnown ==
    ASSUME Init
    PROVE  KernelInv
<1>1. /\ Created \in Seq(Tasks) /\ IsInjective(Created) /\ MaxDelay \in Nat \ {0}
      /\ MaxPended \in Nat /\ End \notin Tasks
  BY KernelAssumption
<1>2. PICK none : none = << >>
  OBVIOUS
<1>3. /\ xTickCount = 0 /\ delayed = none /\ overflow = none /\ xNextTaskUnblockTime = MaxDelay
      /\ suspended = none /\ events = none /\ xPendingReadyList = none
      /\ uxTopReadyPriority = Priorities
      /\ uxSchedulerSuspended = 0 /\ xPendedTicks = 0
      /\ xYieldPending = FALSE /\ switch = FALSE
      /\ pc = [t \in Tasks |-> "run"]
  BY <1>2 DEF Init
<1>4. /\ Len(none) = 0 /\ none \in Seq(Tasks) /\ none \in Seq(Items)
      /\ ToSet(none) = {} /\ IsInjective(none) /\ Owners(none) = << >>
  <2>1. none \in Seq(Tasks) /\ none \in Seq(Items) /\ Len(none) = 0
    BY <1>2
  <2>2. DOMAIN none = {}
    BY <1>2
  <2>3. Owners(none) = << >>
    BY <2>1, OwnersSound, EmptySeq
  <2>4. QED
    BY <2>1, <2>2, <2>3 DEF ToSet, IsInjective
<1>5. Asleep = {}
  BY <1>2, <1>3, <1>4 DEF Asleep
<1>6. ASSUME NEW p \in Priorities
      PROVE  /\ ready[p] \in Seq(Tasks \union {End}) /\ RingList(ready[p])
             /\ ToSet(ready[p]) = {End} \union {t \in Tasks : Priority[t] = p /\ t \notin Asleep}
  <2>1. PICK ts, marker : ts = OfPriority(Created, p) /\ marker = <<End>>
    OBVIOUS
  <2>2. /\ ts \in Seq(Tasks) /\ IsInjective(ts)
        /\ ToSet(ts) = {t \in ToSet(Created) : Priority[t] = p}
    BY <1>1, <2>1, OfPrioritySound
  <2>3. RingList(marker) /\ ToSet(marker) = {End}
    BY <2>1 DEF RingList, ToSet, IsInjective
  <2>4. ToSet(ts) \intersect ToSet(marker) = {}
    BY <1>1, <2>2, <2>3 DEF Tasks
  <2>5. /\ RingList(InsertEnd(marker, ts))
        /\ ToSet(InsertEnd(marker, ts)) = ToSet(marker) \union ToSet(ts)
    BY <2>2, <2>3, <2>4, InsertEndSound
  <2>6. ready[p] = InsertEnd(marker, ts)
    BY <2>1 DEF Init, InsertEnd
  <2>7. QED
    BY <1>5, <2>2, <2>3, <2>5, <2>6 DEF RingList, Tasks
<1>7. ready \in [Priorities -> Seq(Tasks \union {End})]
  <2>1. ready = [p \in Priorities |-> ready[p]]
    BY DEF Init
  <2>2. QED
    BY <1>6, <2>1
<1>8. ReadyKnown
  <2>1. ASSUME NEW p \in Priorities
        PROVE  Len(ready[p]) > 1
    <3>1. PICK t \in Tasks : Priority[t] = p
      BY DEF Priorities
    <3>2. t \in ToSet(ready[p]) /\ RingList(ready[p])
      BY <1>5, <1>6, <3>1
    <3>3. QED
      BY <3>2, OnlyMarker
  <2>2. uxTopReadyPriority = {p \in Priorities : Len(ready[p]) > 1}
    BY <1>3, <2>1
  <2>3. QED
    BY <1>6, <2>2 DEF ReadyKnown
<1>9. pxCurrentTCB \in Tasks /\ NoneHigher
  <2>1. PICK top : top = Max(Priorities)
    OBVIOUS
  <2>2. Priorities \in SUBSET Priorities /\ Priorities # {}
    BY IdleTask DEF Priorities
  <2>3. top \in Priorities /\ \A p \in Priorities : p <= top
    BY <2>1, <2>2, HighestPriority
  <2>4. PICK list : list = ready[top]
    OBVIOUS
  <2>5. PICK ts : ts = OfPriority(Created, top)
    OBVIOUS
  <2>6. /\ ts \in Seq(Tasks) /\ IsInjective(ts)
        /\ ToSet(ts) = {t \in ToSet(Created) : Priority[t] = top}
    BY <1>1, <2>5, OfPrioritySound
  <2>7. list = <<End>> \o ts
    BY <2>3, <2>4, <2>5 DEF Init
  <2>8. PICK n \in Nat : n = Len(ts) /\ n # 0
    <3>1. PICK t \in Tasks : Priority[t] = top
      BY <2>3 DEF Priorities
    <3>2. t \in ToSet(ts)
      BY <2>6, <3>1 DEF Tasks
    <3>3. PICK i \in 1 .. Len(ts) : t = ts[i]
      BY <2>6, <3>2, Indices
    <3>4. QED
      BY <2>6, <3>3, LenProperties
  <2>9. Last(list) = ts[n]
    <3>1. Len(list) = n + 1 /\ \A i \in 1 .. n : list[i + 1] = ts[i]
      BY <2>6, <2>7, <2>8
    <3>2. QED
      BY <2>8, <3>1 DEF Last
  <2>10. pxCurrentTCB = ts[n]
    BY <2>1, <2>4, <2>9 DEF Init
  <2>11. ts[n] \in Tasks /\ Priority[ts[n]] = top
    <3>1. n \in 1 .. Len(ts)
      BY <2>8
    <3>2. ts[n] \in Tasks /\ ts[n] \in ToSet(ts)
      BY <2>6, <3>1, Indices
    <3>3. QED
      BY <2>6, <3>2
  <2>12. QED
    BY <1>3, <2>3, <2>10, <2>11 DEF NoneHigher
<1>10. TypeOK
  <2>1. uxSchedulerSuspended \in 0 .. Max({1, MaxNested})
    BY <1>3, NestedBound
  <2>2. SchedulerTypeOK
    BY <1>3, <1>9, <2>1 DEF SchedulerTypeOK
  <2>3. TimeTypeOK
    BY <1>1, <1>3 DEF TimeTypeOK
  <2>4. ListsTypeOK
    BY <1>3, <1>4, <1>7 DEF ListsTypeOK
  <2>5. QED
    BY <2>2, <2>3, <2>4 DEF TypeOK
<1>11. TimeKnown
  BY <1>3, <1>4 DEF TimeKnown
<1>12. SleepersKnown
  <2>1. ToSet(Owners(none)) = {} /\ IsInjective(Owners(none))
    BY <1>2, <1>4
  <2>2. DelayList(none)
    BY <1>4, <2>1 DEF DelayList
  <2>3. QED
    BY <1>3, <1>4, <2>1, <2>2 DEF SleepersKnown
<1>13. WaitersKnown
  <2>1. EventList(none)
    BY <1>4 DEF EventList
  <2>2. QED
    BY <1>2, <1>3, <1>4, <2>1 DEF WaitersKnown
<1>14. CallsKnown /\ IdleAwake /\ UrgencyKnown
  BY <1>3, <1>5, <1>9, IdleTask DEF CallsKnown, IdleAwake, UrgencyKnown
<1>15. QED
  BY <1>8, <1>10, <1>11, <1>12, <1>13, <1>14 DEF KernelInv

\* No step of the kernel, of an interrupt or of a task breaks the invariant.
THEOREM KernelSound == Spec => []KernelInv
<1>1. Init => KernelInv
  BY InitKnown
<1>2. KernelInv /\ [Next]_vars => KernelInv'
  <2> SUFFICES ASSUME KernelInv, [Next]_vars
               PROVE  KernelInv'
    OBVIOUS
  <2>1. CASE vTaskSuspendAll
    <3>1. PICK to : to = "run"
      OBVIOUS
    <3>2. SuspendAll(to) /\ pxCurrentTCB # Idle /\ uxSchedulerSuspended < MaxNested
      BY <2>1, <3>1 DEF vTaskSuspendAll
    <3>3. QED
      BY <3>1, <3>2, SuspendAllKeeps
  <2>2. CASE BeginDelay
    <3>1. PICK to : to = "add"
      OBVIOUS
    <3>2. SuspendAll(to) /\ pxCurrentTCB # Idle /\ uxSchedulerSuspended = 0
      BY <2>2, <3>1 DEF BeginDelay
    <3>3. QED
      BY <3>1, <3>2, SuspendAllKeeps
  <2>3. CASE Yield
    BY <2>3, RaiseSwitchKeeps DEF Yield
  <2>4. CASE YieldAsleep
    BY <2>4, RaiseSwitchKeeps DEF YieldAsleep
  <2>5. CASE AddToDelayed
    BY <2>5, AddToDelayedKeeps
  <2>6. CASE PlaceOnEventList
    BY <2>6, PlaceOnEventListKeeps
  <2>7. CASE xTaskResumeAll
    BY <2>7, ResumeAllKeeps
  <2>8. CASE UnwindTick
    BY <2>8, UnwindTickKeeps
  <2>9. CASE LeaveResumeAll
    BY <2>9, LeaveResumeAllKeeps
  <2>10. CASE TickInterrupt
    BY <2>10, TickInterruptKeeps
  <2>11. CASE Event
    BY <2>11, EventKeeps
  <2>12. CASE SwitchContext
    BY <2>12, SwitchContextKeeps
  <2>13. CASE UNCHANGED vars
    <3>1. /\ UNCHANGED <<time, blocked, readied>> /\ UNCHANGED <<pxCurrentTCB, pc>>
          /\ UNCHANGED <<uxSchedulerSuspended, xPendedTicks, xYieldPending, switch>>
      BY <2>13 DEF vars, pending
    <3>2. /\ xTickCount' \in 0 .. MaxDelay /\ xNextTaskUnblockTime' \in 0 .. MaxDelay
          /\ ListsTypeOK' /\ TimeKnown' /\ SleepersKnown' /\ ReadyKnown'
          /\ Asleep' = Asleep /\ IdleAwake' /\ WaitersKnown'
          /\ NoneHigher => NoneHigher'
      BY <3>1, Kept
    <3>3. TypeOK'
      BY <3>1, <3>2 DEF KernelInv, TypeOK, TimeTypeOK, SchedulerTypeOK
    <3>4. CallsKnown' /\ UrgencyKnown'
      BY <3>1, <3>2 DEF KernelInv, CallsKnown, UrgencyKnown
    <3>5. QED
      BY <3>2, <3>3, <3>4 DEF KernelInv
  <2>14. QED
    BY <2>1, <2>2, <2>3, <2>4, <2>5, <2>6, <2>7, <2>8, <2>9, <2>10, <2>11, <2>12, <2>13
    DEF Next, Program, Work
<1>3. QED
  BY <1>1, <1>2, PTL DEF Spec

(* ---- the lists agree ---- *)

LEMMA Counted ==
    ASSUME NEW S, NEW list \in Seq(S), IsInjective(list), NEW t
    PROVE  Cardinality({i \in DOMAIN list : list[i] = t}) = IF t \in ToSet(list) THEN 1 ELSE 0
<1> DEFINE at == {i \in DOMAIN list : list[i] = t}
<1>1. /\ DOMAIN list = 1 .. Len(list)
      /\ \A x \in ToSet(list) : \E i \in 1 .. Len(list) : x = list[i]
      /\ \A i \in 1 .. Len(list) : list[i] \in ToSet(list)
      /\ \A i \in 1 .. Len(list), j \in 1 .. Len(list) : list[i] = list[j] => i = j
  BY Indices, LenProperties
<1>2. CASE t \in ToSet(list)
  <2>1. PICK i \in 1 .. Len(list) : t = list[i]
    BY <1>1, <1>2
  <2>2. at = {i}
    BY <1>1, <2>1
  <2>3. QED
    BY <1>2, <2>2, FS_Singleton
<1>3. CASE t \notin ToSet(list)
  <2>1. at = {}
    BY <1>1, <1>3
  <2>2. QED
    BY <1>3, <2>1, FS_EmptySet
<1>4. QED
  BY <1>2, <1>3

\* Whatever ticks, events and calls do, every task is on exactly one of the
\* lists of its state, no task is both waiting and woken, and the bits that
\* the choice of the next task looks at are those of the ready lists.
THEOREM ListsSound == Spec => []ListsAgree
<1>1. ASSUME KernelInv
      PROVE  ListsAgree
  <2>1. TypeOK /\ SleepersKnown /\ ReadyKnown /\ WaitersKnown
    BY <1>1 DEF KernelInv
  <2>2. ASSUME NEW t \in Tasks
        PROVE  Listed(t) = 1
    <3>1. PICK d, o, s, r :
            /\ d = Owners(delayed) /\ o = Owners(overflow) /\ s = suspended
            /\ r = ready[Priority[t]]
      OBVIOUS
    <3>2. /\ d \in Seq(Tasks) /\ IsInjective(d) /\ o \in Seq(Tasks) /\ IsInjective(o)
          /\ s \in Seq(Tasks) /\ IsInjective(s)
      <4>1. delayed \in Seq(Items) /\ overflow \in Seq(Items)
        BY <2>1 DEF SleepersKnown, DelayList
      <4>2. QED
        BY <2>1, <3>1, <4>1, OwnersSound DEF SleepersKnown, DelayList, TypeOK, ListsTypeOK
    <3>3. /\ r \in Seq(Tasks \union {End}) /\ IsInjective(r)
          /\ t \in ToSet(r) <=> t \notin Asleep
      <4>1. Priority[t] \in Priorities /\ t # End
        BY KernelAssumption DEF Priorities
      <4>2. RingList(r)
            /\ ToSet(r) = {End} \union {u \in Tasks : Priority[u] = Priority[t] /\ u \notin Asleep}
        BY <2>1, <3>1, <4>1 DEF ReadyKnown
      <4>3. QED
        BY <4>1, <4>2 DEF RingList
    <3>4. /\ Asleep = ToSet(d) \union ToSet(o) \union ToSet(s)
          /\ ToSet(d) \intersect ToSet(o) = {} /\ ToSet(d) \intersect ToSet(s) = {}
          /\ ToSet(o) \intersect ToSet(s) = {}
      BY <2>1, <3>1 DEF SleepersKnown, Asleep
    <3>5. /\ Cardinality({i \in DOMAIN d : d[i] = t}) = IF t \in ToSet(d) THEN 1 ELSE 0
          /\ Cardinality({i \in DOMAIN o : o[i] = t}) = IF t \in ToSet(o) THEN 1 ELSE 0
          /\ Cardinality({i \in DOMAIN s : s[i] = t}) = IF t \in ToSet(s) THEN 1 ELSE 0
          /\ Cardinality({i \in DOMAIN r : r[i] = t}) = IF t \in ToSet(r) THEN 1 ELSE 0
      BY <3>2, <3>3, Counted
    <3>6. PICK a, b, c, e :
            /\ a = Cardinality({i \in DOMAIN d : d[i] = t})
            /\ b = Cardinality({i \in DOMAIN o : o[i] = t})
            /\ c = Cardinality({i \in DOMAIN s : s[i] = t})
            /\ e = Cardinality({i \in DOMAIN r : r[i] = t})
      OBVIOUS
    <3>7. Listed(t) = a + b + c + e
      BY <3>1, <3>6 DEF Listed
    <3>8. /\ a = IF t \in ToSet(d) THEN 1 ELSE 0
          /\ b = IF t \in ToSet(o) THEN 1 ELSE 0
          /\ c = IF t \in ToSet(s) THEN 1 ELSE 0
          /\ e = IF t \in ToSet(r) THEN 1 ELSE 0
      BY <3>5, <3>6
    <3>9. a + b + c + e = 1
      BY <3>3, <3>4, <3>8
    <3>10. QED
      BY <3>7, <3>9
  <2>3. QED
    BY <2>1, <2>2 DEF ListsAgree, WaitersKnown, ReadyKnown
<1>2. QED
  BY <1>1, KernelSound, PTL

(* ---- the task that runs ---- *)

\* With no switch to come the task that runs is ready, and no ready task has a
\* higher priority.
THEOREM HighestPriorityRuns == Spec => []HighestRuns
<1>1. ASSUME KernelInv
      PROVE  HighestRuns
  <2>1. SUFFICES ASSUME uxSchedulerSuspended = 0, ~switch, ~xYieldPending,
                        pc[pxCurrentTCB] = "run"
                 PROVE  pxCurrentTCB \in ToSet(ready[Priority[pxCurrentTCB]]) /\ NoneHigher
    BY DEF HighestRuns
  <2>2. pxCurrentTCB \in Tasks /\ pxCurrentTCB \notin Asleep /\ NoneHigher
    BY <1>1, <2>1 DEF KernelInv, TypeOK, SchedulerTypeOK, CallsKnown, UrgencyKnown
  <2>3. Priority[pxCurrentTCB] \in Priorities
    BY <2>2 DEF Priorities
  <2>4. QED
    BY <1>1, <2>2, <2>3 DEF KernelInv, ReadyKnown
<1>2. QED
  BY <1>1, KernelSound, PTL

\* xTaskResumeAll never leaves a task of lower priority running, and the lists
\* of delayed tasks are switched when the one is empty.
THEOREM ResumeAllYields == Spec => ResumeYields
<1> DEFINE Yields == /\ Critical /\ ~Critical' => switch' \/ NoneHigher'
                     /\ xTickCount' < xTickCount => delayed = << >>
<1>1. ASSUME KernelInv, KernelInv', Next
      PROVE  Yields
  <2>1. TypeOK /\ TimeKnown /\ SleepersKnown /\ UrgencyKnown'
    BY <1>1 DEF KernelInv
  <2>2. /\ xTickCount \in Int /\ Now \in Int /\ (Now = 0 => delayed = << >>)
        /\ Now # 0 => Now = xTickCount + 1
    <3>1. MaxDelay \in Nat /\ xTickCount \in 0 .. MaxDelay
      BY <2>1, KernelAssumption DEF TypeOK, TimeTypeOK
    <3>2. /\ Now \in 0 .. MaxDelay /\ Now = IF xTickCount = MaxDelay THEN 0 ELSE xTickCount + 1
          /\ Now = 0 => delayed = << >>
      BY <2>1, ExpiredSound
    <3>3. QED
      BY <3>1, <3>2
  <2>3. ASSUME xTickCount' = xTickCount \/ xTickCount' = Now
        PROVE  xTickCount' < xTickCount => delayed = << >>
    <3>1. ~(xTickCount < xTickCount) /\ ~(xTickCount + 1 < xTickCount)
      BY <2>2
    <3>2. QED
      BY <2>2, <2>3, <3>1
  <2>4. ASSUME NEW from, NEW to, Step(from, to), from \notin {"unwind", "unwind in delay"}
        PROVE  ~Critical
    BY <2>4 DEF Step, Critical
  <2>5. CASE vTaskSuspendAll
    <3>1. ~Critical
      BY <2>4, <2>5 DEF vTaskSuspendAll, SuspendAll
    <3>2. xTickCount' = xTickCount
      BY <2>5 DEF vTaskSuspendAll, SuspendAll, time
    <3>3. QED
      BY <2>3, <3>1, <3>2
  <2>6. CASE BeginDelay
    <3>1. ~Critical
      BY <2>4, <2>6 DEF BeginDelay, SuspendAll
    <3>2. xTickCount' = xTickCount
      BY <2>6 DEF BeginDelay, SuspendAll, time
    <3>3. QED
      BY <2>3, <3>1, <3>2
  <2>7. CASE Yield
    <3>1. ~Critical
      BY <2>4, <2>7 DEF Yield, RaiseSwitch
    <3>2. xTickCount' = xTickCount
      BY <2>7 DEF Yield, RaiseSwitch, time
    <3>3. QED
      BY <2>3, <3>1, <3>2
  <2>8. CASE YieldAsleep
    <3>1. ~Critical
      BY <2>4, <2>8 DEF YieldAsleep, RaiseSwitch
    <3>2. xTickCount' = xTickCount
      BY <2>8 DEF YieldAsleep, RaiseSwitch, time
    <3>3. QED
      BY <2>3, <3>1, <3>2
  <2>9. CASE AddToDelayed
    <3>1. ~Critical
      BY <2>4, <2>9 DEF AddToDelayed
    <3>2. xTickCount' = xTickCount
      BY <2>9 DEF AddToDelayed
    <3>3. QED
      BY <2>3, <3>1, <3>2
  <2>10. CASE PlaceOnEventList
    <3>1. ~Critical
      BY <2>4, <2>10 DEF PlaceOnEventList
    <3>2. xTickCount' = xTickCount
      BY <2>10 DEF PlaceOnEventList
    <3>3. QED
      BY <2>3, <3>1, <3>2
  <2>11. CASE xTaskResumeAll
    <3>1. ~Critical
      BY <2>4, <2>11 DEF xTaskResumeAll, ResumeAll
    <3>2. xTickCount' = xTickCount
      BY <2>11 DEF xTaskResumeAll, ResumeAll, time
    <3>3. QED
      BY <2>3, <3>1, <3>2
  <2>12. CASE UnwindTick
    <3>1. Critical' <=> Critical
      BY <2>12 DEF UnwindTick, Critical
    <3>2. xTickCount' = Now
      BY <2>12 DEF UnwindTick, IncrementTick
    <3>3. QED
      BY <2>3, <3>1, <3>2
  <2>13. CASE LeaveResumeAll
    <3>1. switch' = xYieldPending /\ xYieldPending' = xYieldPending /\ xTickCount' = xTickCount
      BY <2>13 DEF LeaveResumeAll, LeaveResume, time
    <3>2. switch' \/ NoneHigher'
      BY <2>1, <3>1 DEF UrgencyKnown
    <3>3. QED
      BY <2>3, <3>1, <3>2
  <2>14. CASE TickInterrupt
    <3>1. ~Critical
      BY <2>14 DEF TickInterrupt
    <3>2. xTickCount' = xTickCount \/ xTickCount' = Now
      BY <2>14 DEF TickInterrupt, IncrementTick, time
    <3>3. QED
      BY <2>3, <3>1, <3>2
  <2>15. CASE Event
    <3>1. ~Critical /\ xTickCount' = xTickCount
      BY <2>15 DEF Event
    <3>2. QED
      BY <2>3, <3>1
  <2>16. CASE SwitchContext
    <3>1. ~Critical /\ xTickCount' = xTickCount
      BY <2>16 DEF SwitchContext, time
    <3>2. QED
      BY <2>3, <3>1
  <2>17. QED
    BY <1>1, <2>5, <2>6, <2>7, <2>8, <2>9, <2>10, <2>11, <2>12, <2>13, <2>14, <2>15, <2>16
    DEF Next, Program, Work
<1>2. KernelInv /\ KernelInv' /\ [Next]_vars => [Yields]_vars
  BY <1>1
<1>3. QED
  BY <1>2, KernelSound, PTL DEF Spec, ResumeYields

(* ---- tasks sleep as Sleepers says ---- *)

\* ToGo of a task with these lists and this tick.
Remaining(t, pend, susp, d, o, now) ==
    LET at(list) == {item.value : item \in {i \in ToSet(list) : i.owner = t}}
    IN  IF t \in ToSet(pend) THEN 0
        ELSE IF t \in ToSet(susp) THEN -1
        ELSE IF at(d) # {} THEN Max(at(d)) - now
        ELSE IF at(o) # {} THEN Max(at(o)) + MaxDelay + 1 - now
        ELSE 0

LEMMA ToGoRemaining ==
    ASSUME NEW t
    PROVE  /\ ToGo(t) = Remaining(t, xPendingReadyList, suspended, delayed, overflow, xTickCount)
           /\ ToGo(t)' = Remaining(t, xPendingReadyList', suspended', delayed', overflow',
                                   xTickCount')
  BY DEF ToGo, Remaining

LEMMA WakeValue ==
    ASSUME NEW list, DelayList(list), NEW t
    PROVE  LET at == {item.value : item \in {i \in ToSet(list) : i.owner = t}}
           IN  /\ at = {} <=> t \notin ToSet(Owners(list))
               /\ \A item \in ToSet(list) : item.owner = t => Max(at) = item.value
<1> DEFINE at == {item.value : item \in {i \in ToSet(list) : i.owner = t}}
<1>1. /\ \A item \in ToSet(list) : item \in Items
      /\ ToSet(Owners(list)) = {item.owner : item \in ToSet(list)}
      /\ \A a \in ToSet(list), b \in ToSet(list) : a.owner = b.owner => a = b
  BY ItemsSound
<1>2. at = {} <=> t \notin ToSet(Owners(list))
  BY <1>1
<1>3. ASSUME NEW item \in ToSet(list), item.owner = t
      PROVE  Max(at) = item.value
  <2>1. at = {item.value}
    BY <1>1, <1>3
  <2>2. item.value \in Int
    BY <1>1, KernelAssumption DEF Items
  <2>3. \A v \in Int : Max({v}) = v
    BY DEF Max
  <2>4. QED
    BY <2>1, <2>2, <2>3
<1>4. QED
  BY <1>2, <1>3

\* What ToGo is, wherever the task is.
LEMMA RemainingSound ==
    ASSUME NEW t, NEW pend, NEW susp, NEW d, NEW o, NEW now, DelayList(d), DelayList(o),
           NEW r, r = Remaining(t, pend, susp, d, o, now)
    PROVE  /\ t \in ToSet(pend) => r = 0
           /\ t \notin ToSet(pend) /\ t \in ToSet(susp) => r = -1
           /\ t \notin ToSet(pend) /\ t \notin ToSet(susp) =>
                \A item \in ToSet(d) : item.owner = t => r = item.value - now
           /\ t \notin ToSet(pend) /\ t \notin ToSet(susp) /\ t \notin ToSet(Owners(d)) =>
                \A item \in ToSet(o) : item.owner = t => r = item.value + MaxDelay + 1 - now
           /\ t \notin ToSet(susp) /\ t \notin ToSet(Owners(d)) /\ t \notin ToSet(Owners(o)) =>
                r = 0
<1> DEFINE at(list) == {item.value : item \in {i \in ToSet(list) : i.owner = t}}
<1>1. /\ at(d) = {} <=> t \notin ToSet(Owners(d))
      /\ \A item \in ToSet(d) : item.owner = t => Max(at(d)) = item.value
  BY WakeValue
<1>2. /\ at(o) = {} <=> t \notin ToSet(Owners(o))
      /\ \A item \in ToSet(o) : item.owner = t => Max(at(o)) = item.value
  BY WakeValue
<1>3. PICK ad, ao : ad = at(d) /\ ao = at(o)
  OBVIOUS
<1>4. r = IF t \in ToSet(pend) THEN 0
          ELSE IF t \in ToSet(susp) THEN -1
          ELSE IF ad # {} THEN Max(ad) - now
          ELSE IF ao # {} THEN Max(ao) + MaxDelay + 1 - now
          ELSE 0
  BY <1>3 DEF Remaining
<1> HIDE DEF at
<1>5. \A item \in ToSet(d) : item.owner = t => ad # {}
  <2>1. ToSet(Owners(d)) = {item.owner : item \in ToSet(d)}
    BY ItemsSound
  <2>2. QED
    BY <1>1, <1>3, <2>1
<1>6. \A item \in ToSet(o) : item.owner = t => ao # {}
  <2>1. ToSet(Owners(o)) = {item.owner : item \in ToSet(o)}
    BY ItemsSound
  <2>2. QED
    BY <1>2, <1>3, <2>1
<1>7. QED
  BY <1>1, <1>2, <1>3, <1>4, <1>5, <1>6

\* A task whose items and whose place on the other lists stay as they are has
\* as many ticks to go as before.
LEMMA RemainingSame ==
    ASSUME NEW t, NEW pend, NEW susp, NEW d, NEW o, NEW now,
           NEW pend1, NEW susp1, NEW d1, NEW o1,
           t \in ToSet(pend) <=> t \in ToSet(pend1),
           t \in ToSet(susp) <=> t \in ToSet(susp1),
           \A item : item.owner = t => (item \in ToSet(d) <=> item \in ToSet(d1)),
           \A item : item.owner = t => (item \in ToSet(o) <=> item \in ToSet(o1))
    PROVE  Remaining(t, pend, susp, d, o, now) = Remaining(t, pend1, susp1, d1, o1, now)
<1>1. {i \in ToSet(d) : i.owner = t} = {i \in ToSet(d1) : i.owner = t}
  OBVIOUS
<1>2. {i \in ToSet(o) : i.owner = t} = {i \in ToSet(o1) : i.owner = t}
  OBVIOUS
<1>3. QED
  BY <1>1, <1>2 DEF Remaining

\* xTaskIncrementTick takes a tick off every sleeping task and wakes those that
\* have none left.
LEMMA TickTicks ==
    ASSUME KernelInv, uxSchedulerSuspended = 0, IncrementTick
    PROVE  Sleep!Tick
<1>1. TypeOK /\ TimeKnown /\ SleepersKnown /\ ReadyKnown /\ WaitersKnown
  BY DEF KernelInv
<1>2. PICK rest, over, pend :
        /\ rest = SubSeq(Current, Expired + 1, Len(Current))
        /\ over = IF Now = 0 THEN delayed ELSE overflow
        /\ pend = xPendingReadyList
  OBVIOUS
<1>3. /\ delayed' = rest /\ overflow' = over /\ xTickCount' = Now
      /\ suspended' = suspended /\ xPendingReadyList' = pend
  BY <1>2 DEF IncrementTick
<1>4. ToSet(pend) = {} /\ EventList(events) /\ ToSet(events) \subseteq Asleep
  <2>1. pend = << >>
    BY <1>1, <1>2 DEF WaitersKnown
  <2>2. QED
    BY <1>1, <2>1 DEF WaitersKnown, ToSet
<1>5. /\ Now \in 0 .. MaxDelay /\ Now = IF xTickCount = MaxDelay THEN 0 ELSE xTickCount + 1
      /\ DelayList(Current)
  BY <1>1, ExpiredSound
<1>6. /\ DelayList(rest)
      /\ \A t : t \in ToSet(Woken) <=>
                 \E item \in ToSet(Current) : item.value <= Now /\ t = item.owner
      /\ \A item : item \in ToSet(rest) <=>
                    item \in ToSet(Current) /\ ~(item.value <= Now)
  BY <1>1, <1>2, WokenSound
<1>7. /\ DelayList(over)
      /\ Now = 0 => ToSet(over) = {}
      /\ ToSet(Owners(delayed)) \union ToSet(Owners(overflow))
           = ToSet(Owners(Current)) \union ToSet(Owners(over))
      /\ ToSet(Owners(Current)) \intersect ToSet(Owners(over)) = {}
      /\ ToSet(Owners(Current)) \intersect ToSet(suspended) = {}
      /\ ToSet(Owners(over)) \intersect ToSet(suspended) = {}
      /\ ToSet(Owners(rest)) = ToSet(Owners(Current)) \ ToSet(Woken)
      /\ ToSet(Woken) \subseteq ToSet(Owners(Current))
  BY <1>1, <1>2, TickLists
<1>8. DelayList(delayed) /\ DelayList(overflow)
  BY <1>1 DEF SleepersKnown
<1>9. MaxDelay \in Nat \ {0} /\ xTickCount \in 0 .. MaxDelay
  BY <1>1, KernelAssumption DEF TypeOK, TimeTypeOK
<1>10. ASSUME NEW t \in Tasks,
              NEW r, r = Remaining(t, pend, suspended, delayed, overflow, xTickCount),
              NEW r1, r1 = Remaining(t, pend, suspended, rest, over, Now)
       PROVE  /\ r1 = IF r > 0 THEN r - 1 ELSE r
              /\ t \in Asleep => (r1 # 0 <=> t \notin ToSet(Woken))
  <2>1. /\ t \in ToSet(suspended) => r = -1
        /\ t \notin ToSet(suspended) =>
             \A item \in ToSet(delayed) : item.owner = t => r = item.value - xTickCount
        /\ t \notin ToSet(suspended) /\ t \notin ToSet(Owners(delayed)) =>
             \A item \in ToSet(overflow) :
               item.owner = t => r = item.value + MaxDelay + 1 - xTickCount
        /\ t \notin ToSet(suspended) /\ t \notin ToSet(Owners(delayed))
             /\ t \notin ToSet(Owners(overflow)) => r = 0
    BY <1>4, <1>8, <1>10, RemainingSound
  <2>2. /\ t \in ToSet(suspended) => r1 = -1
        /\ t \notin ToSet(suspended) =>
             \A item \in ToSet(rest) : item.owner = t => r1 = item.value - Now
        /\ t \notin ToSet(suspended) /\ t \notin ToSet(Owners(rest)) =>
             \A item \in ToSet(over) : item.owner = t => r1 = item.value + MaxDelay + 1 - Now
        /\ t \notin ToSet(suspended) /\ t \notin ToSet(Owners(rest))
             /\ t \notin ToSet(Owners(over)) => r1 = 0
    BY <1>4, <1>6, <1>7, <1>10, RemainingSound
  <2>3. CASE t \in ToSet(suspended)
    <3>1. r = -1 /\ r1 = -1 /\ t \notin ToSet(Woken)
      BY <1>7, <2>1, <2>2, <2>3
    <3>2. QED
      BY <3>1
  <2>4. CASE t \in ToSet(Owners(Current))
    <3>1. PICK item \in ToSet(Current) : item.owner = t /\ item \in Items
      BY <1>5, <2>4, ItemsSound
    <3>2. item.value \in 0 .. MaxDelay /\ t \notin ToSet(suspended) /\ t \notin ToSet(Owners(over))
      BY <1>7, <2>4, <3>1 DEF Items
    <3>3. r = item.value - Now + 1 /\ r > 0
      <4>1. CASE Now = 0
        <5>1. Current = overflow /\ over = delayed
          BY <1>2, <4>1 DEF Current
        <5>2. r = item.value + MaxDelay + 1 - xTickCount
          BY <2>1, <3>1, <3>2, <5>1
        <5>3. QED
          BY <1>5, <1>9, <3>2, <4>1, <5>2
      <4>2. CASE Now # 0
        <5>1. Current = delayed
          BY <4>2 DEF Current
        <5>2. r = item.value - xTickCount /\ xTickCount < item.value
          BY <1>1, <2>1, <3>1, <3>2, <5>1 DEF TimeKnown
        <5>3. QED
          BY <1>5, <1>9, <3>2, <4>2, <5>2
      <4>3. QED
        BY <4>1, <4>2
    <3>4. CASE item.value <= Now
      <4>1. t \in ToSet(Woken) /\ t \notin ToSet(Owners(rest))
        BY <1>6, <1>7, <3>1, <3>4
      <4>2. r1 = 0
        BY <2>2, <3>2, <4>1
      <4>3. r = 1
        BY <1>5, <1>9, <3>2, <3>3, <3>4
      <4>4. QED
        BY <4>1, <4>2, <4>3
    <3>5. CASE ~(item.value <= Now)
      <4>1. item \in ToSet(rest)
        BY <1>6, <3>1, <3>5
      <4>2. t \notin ToSet(Woken)
        <5>1. t \in ToSet(Owners(rest))
          BY <1>6, <3>1, <4>1, ItemsSound
        <5>2. QED
          BY <1>7, <5>1
      <4>3. r1 = item.value - Now
        BY <2>2, <3>1, <3>2, <4>1
      <4>4. r1 # 0 /\ r1 = r - 1
        BY <1>5, <1>9, <3>2, <3>3, <3>5, <4>3
      <4>5. QED
        BY <3>3, <4>2, <4>4
    <3>6. QED
      BY <3>4, <3>5
  <2>5. CASE t \in ToSet(Owners(over))
    <3>1. PICK item \in ToSet(over) : item.owner = t /\ item \in Items
      BY <1>7, <2>5, ItemsSound
    <3>2. /\ item.value \in 0 .. MaxDelay /\ t \notin ToSet(suspended)
          /\ t \notin ToSet(Owners(Current)) /\ t \notin ToSet(Woken)
          /\ t \notin ToSet(Owners(rest)) /\ Now # 0
      BY <1>7, <2>5, <3>1 DEF Items
    <3>3. Current = delayed /\ over = overflow
      BY <1>2, <3>2 DEF Current
    <3>4. r = item.value + MaxDelay + 1 - xTickCount
      BY <2>1, <3>1, <3>2, <3>3
    <3>5. r1 = item.value + MaxDelay + 1 - Now
      BY <2>2, <3>1, <3>2
    <3>6. r > 0 /\ r1 = r - 1 /\ r1 # 0
      BY <1>5, <1>9, <3>2, <3>4, <3>5
    <3>7. QED
      BY <3>2, <3>6
  <2>6. CASE /\ t \notin ToSet(suspended) /\ t \notin ToSet(Owners(Current))
             /\ t \notin ToSet(Owners(over))
    <3>1. /\ t \notin ToSet(Owners(delayed)) /\ t \notin ToSet(Owners(overflow))
          /\ t \notin ToSet(Owners(rest))
      BY <1>7, <2>6
    <3>2. r = 0 /\ r1 = 0 /\ t \notin Asleep
      BY <2>1, <2>2, <2>6, <3>1 DEF Asleep
    <3>3. QED
      BY <3>2
  <2>7. QED
    BY <2>3, <2>4, <2>5, <2>6
<1>11. ASSUME NEW t \in Tasks
       PROVE  /\ ToGo(t)' = IF ToGo(t) > 0 THEN ToGo(t) - 1 ELSE ToGo(t)
              /\ t \in Asleep => (ToGo(t)' # 0 <=> t \notin ToSet(Woken))
  <2>1. PICK r, r1 : r = ToGo(t) /\ r1 = ToGo(t)'
    OBVIOUS
  <2>2. /\ r = Remaining(t, pend, suspended, delayed, overflow, xTickCount)
        /\ r1 = Remaining(t, pend, suspended, rest, over, Now)
    BY <1>2, <1>3, <2>1, ToGoRemaining
  <2>3. /\ r1 = IF r > 0 THEN r - 1 ELSE r
        /\ t \in Asleep => (r1 # 0 <=> t \notin ToSet(Woken))
    BY <1>10, <2>2
  <2>4. QED
    BY <2>1, <2>3
<1>12. /\ ToSet(events') = ToSet(events) \ ToSet(Woken)
  BY <1>1, <1>4, Ticked
<1>13. \A t \in ToSet(events) : t \in Tasks /\ t \in Asleep
  <2>1. events \in Seq(Tasks)
    BY <1>4 DEF EventList
  <2>2. QED
    BY <1>4, <2>1, Indices
<1>14. ToSet(events') = {t \in ToSet(events) : ToGo(t)' # 0}
  BY <1>11, <1>12, <1>13
<1>15. QED
  BY <1>11, <1>13, <1>14 DEF Sleep!Tick

\* Removing the tasks ts from the lists of sleeping tasks leaves them with no
\* ticks to go and the others with as many as before.
LEMMA AwokenToGo ==
    ASSUME KernelInv, NEW ts \in Seq(Tasks), IsInjective(ts), ToSet(ts) \subseteq Asleep,
           RemoveState(ToSet(ts)), AddToReady(ts), UNCHANGED xTickCount,
           \A u \in Tasks : u \in ToSet(xPendingReadyList') <=>
                             u \in ToSet(xPendingReadyList) /\ u \notin ToSet(ts)
    PROVE  \A u \in Tasks : ToGo(u)' = IF u \in ToSet(ts) THEN 0 ELSE ToGo(u)
<1>1. TypeOK /\ SleepersKnown /\ ReadyKnown
  BY DEF KernelInv
<1>2. PICK pend, susp, d, o, now, pend1, susp1, d1, o1 :
        /\ pend = xPendingReadyList /\ susp = suspended /\ d = delayed /\ o = overflow
        /\ now = xTickCount
        /\ pend1 = xPendingReadyList' /\ susp1 = suspended' /\ d1 = delayed' /\ o1 = overflow'
  OBVIOUS
<1>3. /\ SleepersKnown' /\ Asleep' = Asleep \ ToSet(ts)
      /\ \A item : item \in ToSet(d1) <=> item \in ToSet(d) /\ item.owner \notin ToSet(ts)
      /\ \A item : item \in ToSet(o1) <=> item \in ToSet(o) /\ item.owner \notin ToSet(ts)
      /\ ToSet(susp1) = ToSet(susp) \ ToSet(ts)
  BY <1>1, <1>2, Awoken
<1>4. DelayList(d1) /\ DelayList(o1)
  BY <1>2, <1>3 DEF SleepersKnown
<1>5. ASSUME NEW u \in Tasks,
             NEW r, r = Remaining(u, pend, susp, d, o, now),
             NEW r1, r1 = Remaining(u, pend1, susp1, d1, o1, now)
      PROVE  r1 = IF u \in ToSet(ts) THEN 0 ELSE r
  <2>1. CASE u \in ToSet(ts)
    <3>1. u \notin ToSet(susp1) /\ u \notin ToSet(Owners(d1)) /\ u \notin ToSet(Owners(o1))
      BY <1>2, <1>3, <2>1 DEF Asleep
    <3>2. r1 = 0
      BY <1>4, <1>5, <3>1, RemainingSound
    <3>3. QED
      BY <2>1, <3>2
  <2>2. CASE u \notin ToSet(ts)
    <3>1. /\ u \in ToSet(pend) <=> u \in ToSet(pend1)
          /\ u \in ToSet(susp) <=> u \in ToSet(susp1)
          /\ \A item : item.owner = u => (item \in ToSet(d) <=> item \in ToSet(d1))
          /\ \A item : item.owner = u => (item \in ToSet(o) <=> item \in ToSet(o1))
      BY <1>2, <1>3, <2>2
    <3>2. r = r1
      BY <1>5, <3>1, RemainingSame
    <3>3. QED
      BY <2>2, <3>2
  <2>3. QED
    BY <2>1, <2>2
<1>6. ASSUME NEW u \in Tasks
      PROVE  ToGo(u)' = IF u \in ToSet(ts) THEN 0 ELSE ToGo(u)
  <2>1. PICK r, r1 : r = ToGo(u) /\ r1 = ToGo(u)'
    OBVIOUS
  <2>2. /\ r = Remaining(u, pend, susp, d, o, now)
        /\ r1 = Remaining(u, pend1, susp1, d1, o1, now)
    BY <1>2, <2>1, ToGoRemaining
  <2>3. r1 = IF u \in ToSet(ts) THEN 0 ELSE r
    BY <1>5, <2>2
  <2>4. QED
    BY <2>1, <2>3
<1>7. QED
  BY <1>6

\* The event wakes a waiting task of the highest priority, and no other.
LEMMA EventWakes ==
    ASSUME KernelInv, Event
    PROVE  \E t \in Tasks : Sleep!Event(t)
<1>1. PICK t, old : t = Head(events) /\ old = events
  OBVIOUS
<1>2. WaitersKnown /\ EventList(old) /\ old # << >>
  BY <1>1 DEF KernelInv, WaitersKnown, Event
<1>3. /\ t \in Tasks /\ t \in ToSet(old) /\ ToSet(Tail(old)) = ToSet(old) \ {t}
      /\ \A u \in ToSet(old) : Priority[u] <= Priority[t]
  BY <1>1, <1>2, FirstWaiter
<1>4. ToSet(events') = ToSet(events) \ {t}
  BY <1>1, <1>3 DEF Event
<1>5. t \in Asleep /\ t \notin ToSet(xPendingReadyList) /\ xTickCount' = xTickCount
  BY <1>1, <1>2, <1>3 DEF WaitersKnown, Event
<1>6. \A u \in Tasks : ToGo(u)' = IF u = t THEN 0 ELSE ToGo(u)
  <2>1. CASE uxSchedulerSuspended = 0
    <3>1. PICK ts : ts = <<t>>
      OBVIOUS
    <3>2. ts \in Seq(Tasks) /\ IsInjective(ts) /\ ToSet(ts) = {t}
      BY <1>3, <3>1 DEF IsInjective, ToSet
    <3>3. RemoveState(ToSet(ts)) /\ AddToReady(ts) /\ xPendingReadyList' = xPendingReadyList
      BY <1>1, <2>1, <3>1, <3>2 DEF Event
    <3>4. \A u \in Tasks : ToGo(u)' = IF u \in ToSet(ts) THEN 0 ELSE ToGo(u)
      BY <1>5, <3>2, <3>3, AwokenToGo
    <3>5. QED
      BY <3>2, <3>4
  <2>2. CASE uxSchedulerSuspended # 0
    <3>1. PICK pend, susp, d, o, now, pend1 :
            /\ pend = xPendingReadyList /\ susp = suspended /\ d = delayed /\ o = overflow
            /\ now = xTickCount /\ pend1 = Append(pend, t)
      OBVIOUS
    <3>2. /\ xPendingReadyList' = pend1 /\ suspended' = susp /\ delayed' = d /\ overflow' = o
          /\ xTickCount' = now
      BY <1>1, <1>5, <2>2, <3>1 DEF Event
    <3>3. ToSet(pend1) = ToSet(pend) \union {t}
      <4>1. pend \in Seq(Tasks) /\ IsInjective(pend) /\ t \notin ToSet(pend)
        BY <1>2, <1>5, <3>1 DEF KernelInv, WaitersKnown, TypeOK, ListsTypeOK
      <4>2. QED
        BY <1>3, <3>1, <4>1, Appended
    <3>4. ASSUME NEW u \in Tasks, NEW r, r = Remaining(u, pend, susp, d, o, now),
                 NEW r1, r1 = Remaining(u, pend1, susp, d, o, now)
          PROVE  r1 = IF u = t THEN 0 ELSE r
      BY <3>3, <3>4 DEF Remaining
    <3>5. ASSUME NEW u \in Tasks
          PROVE  ToGo(u)' = IF u = t THEN 0 ELSE ToGo(u)
      <4>1. PICK r, r1 : r = ToGo(u) /\ r1 = ToGo(u)'
        OBVIOUS
      <4>2. /\ r = Remaining(u, pend, susp, d, o, now)
            /\ r1 = Remaining(u, pend1, susp, d, o, now)
        BY <3>1, <3>2, <4>1, ToGoRemaining
      <4>3. r1 = IF u = t THEN 0 ELSE r
        BY <3>4, <4>2
      <4>4. QED
        BY <4>1, <4>3
    <3>6. QED
      BY <3>5
  <2>3. QED
    BY <2>1, <2>2
<1>7. Sleep!Event(t)
  BY <1>1, <1>3, <1>4, <1>6 DEF Sleep!Event
<1>8. QED
  BY <1>3, <1>7

\* Resuming the scheduler readies tasks that have no ticks to go already.
LEMMA ResumeStutters ==
    ASSUME KernelInv, NEW from, NEW to, ResumeAll(from, to)
    PROVE  UNCHANGED Sleep!vars
<1>1. CASE uxSchedulerSuspended > 1
  BY <1>1 DEF ResumeAll, ToGo, Sleep!vars, time, blocked
<1>2. CASE ~(uxSchedulerSuspended > 1)
  <2>1. PICK ts : ts = xPendingReadyList
    OBVIOUS
  <2>2. /\ RemoveState(ToSet(ts)) /\ AddToReady(ts) /\ xPendingReadyList' = << >>
        /\ events' = events /\ xTickCount' = xTickCount
    BY <1>2, <2>1 DEF ResumeAll
  <2>3. ts \in Seq(Tasks) /\ IsInjective(ts) /\ ToSet(ts) \subseteq Asleep
    BY <2>1 DEF KernelInv, WaitersKnown, TypeOK, ListsTypeOK
  <2>4. ToSet(xPendingReadyList') = {}
    BY <2>2 DEF ToSet
  <2>5. \A u \in Tasks : ToGo(u)' = IF u \in ToSet(ts) THEN 0 ELSE ToGo(u)
    BY <2>1, <2>2, <2>3, <2>4, AwokenToGo
  <2>6. \A u \in ToSet(ts) : ToGo(u) = 0
    BY <2>1 DEF ToGo
  <2>7. \A u \in Tasks : ToGo(u)' = ToGo(u)
    BY <2>5, <2>6
  <2>8. QED
    BY <2>2, <2>7 DEF Sleep!vars
<1>3. QED
  BY <1>1, <1>2

\* A delay gives the running task that many ticks to go, whether or not its
\* wake time is beyond the overflow of the tick.
LEMMA DelayedToGo ==
    ASSUME KernelInv, pxCurrentTCB \notin Asleep, NEW n \in Delays, AddCurrentToDelayed(n),
           UNCHANGED <<xTickCount, suspended, xPendingReadyList>>
    PROVE  \A u \in Tasks : ToGo(u)' = IF u = pxCurrentTCB THEN n ELSE ToGo(u)
<1>1. /\ TypeOK /\ TimeKnown /\ SleepersKnown /\ ReadyKnown /\ WaitersKnown
      /\ n \in 1 .. MaxDelay /\ MaxDelay \in Nat /\ xTickCount \in 0 .. MaxDelay
  BY KernelAssumption DEF KernelInv, TypeOK, TimeTypeOK
<1>2. PICK c, item, pend, susp, d, o, now, d1, o1 :
        /\ c = pxCurrentTCB /\ item = [owner |-> pxCurrentTCB, value |-> WakeTime(n)]
        /\ pend = xPendingReadyList /\ susp = suspended /\ d = delayed /\ o = overflow
        /\ now = xTickCount /\ d1 = delayed' /\ o1 = overflow'
  OBVIOUS
<1>3. /\ SleepersKnown'
      /\ \/ item.value = now + n /\ ToSet(d1) = ToSet(d) \union {item} /\ o1 = o
         \/ item.value = now + n - MaxDelay - 1 /\ ToSet(o1) = ToSet(o) \union {item} /\ d1 = d
  BY <1>1, <1>2, Slept
<1>4. item.owner = c /\ \A u : u # c => item.owner # u
  BY <1>2
<1>5. DelayList(d) /\ DelayList(o) /\ DelayList(d1) /\ DelayList(o1)
  BY <1>1, <1>2, <1>3 DEF SleepersKnown
<1>6. /\ c \notin ToSet(pend) /\ c \notin ToSet(susp) /\ c \notin ToSet(Owners(d))
  BY <1>1, <1>2 DEF Asleep, WaitersKnown
<1>7. ASSUME NEW u \in Tasks,
             NEW r, r = Remaining(u, pend, susp, d, o, now),
             NEW r1, r1 = Remaining(u, pend, susp, d1, o1, now)
      PROVE  r1 = IF u = c THEN n ELSE r
  <2>1. CASE u # c
    <3>1. /\ \A i : i.owner = u => (i \in ToSet(d) <=> i \in ToSet(d1))
          /\ \A i : i.owner = u => (i \in ToSet(o) <=> i \in ToSet(o1))
      BY <1>3, <1>4, <2>1
    <3>2. r = r1
      BY <1>7, <3>1, RemainingSame
    <3>3. QED
      BY <2>1, <3>2
  <2>2. CASE u = c
    <3>1. /\ \A i \in ToSet(d1) : i.owner = c => r1 = i.value - now
          /\ c \notin ToSet(Owners(d1)) =>
               \A i \in ToSet(o1) : i.owner = c => r1 = i.value + MaxDelay + 1 - now
      BY <1>5, <1>6, <1>7, <2>2, RemainingSound
    <3>2. CASE item.value = now + n /\ ToSet(d1) = ToSet(d) \union {item}
      <4>1. item \in ToSet(d1) /\ item.owner = c
        BY <1>4, <3>2
      <4>2. r1 = item.value - now
        BY <3>1, <4>1
      <4>3. QED
        BY <1>1, <1>2, <2>2, <3>2, <4>2
    <3>3. CASE item.value = now + n - MaxDelay - 1 /\ ToSet(o1) = ToSet(o) \union {item} /\ d1 = d
      <4>1. r1 = now + n - MaxDelay - 1 + MaxDelay + 1 - now
        BY <1>4, <1>6, <3>1, <3>3
      <4>2. QED
        BY <1>1, <1>2, <2>2, <4>1
    <3>4. QED
      BY <1>3, <3>2, <3>3
  <2>3. QED
    BY <2>1, <2>2
<1>8. ASSUME NEW u \in Tasks
      PROVE  ToGo(u)' = IF u = pxCurrentTCB THEN n ELSE ToGo(u)
  <2>1. PICK r, r1 : r = ToGo(u) /\ r1 = ToGo(u)'
    OBVIOUS
  <2>2. /\ r = Remaining(u, pend, susp, d, o, now)
        /\ r1 = Remaining(u, pend, susp, d1, o1, now)
    BY <1>2, <2>1, ToGoRemaining
  <2>3. r1 = IF u = c THEN n ELSE r
    BY <1>7, <2>2
  <2>4. QED
    BY <1>2, <2>1, <2>3
<1>9. QED
  BY <1>8

\* portMAX_DELAY lets the running task sleep until the event happens.
LEMMA SuspendedToGo ==
    ASSUME KernelInv, pxCurrentTCB \notin Asleep, LeaveReady,
           suspended' = Append(suspended, pxCurrentTCB),
           UNCHANGED <<xTickCount, delayed, overflow, xPendingReadyList>>
    PROVE  \A u \in Tasks : ToGo(u)' = IF u = pxCurrentTCB THEN -1 ELSE ToGo(u)
<1>1. TypeOK /\ SleepersKnown /\ ReadyKnown /\ WaitersKnown
  BY DEF KernelInv
<1>2. PICK c, pend, susp, d, o, now, susp1 :
        /\ c = pxCurrentTCB /\ pend = xPendingReadyList /\ susp = suspended
        /\ d = delayed /\ o = overflow /\ now = xTickCount /\ susp1 = suspended'
  OBVIOUS
<1>3. ToSet(susp1) = ToSet(susp) \union {c}
  BY <1>1, <1>2, SleptForever
<1>4. DelayList(d) /\ DelayList(o) /\ c \notin ToSet(pend)
  BY <1>1, <1>2 DEF SleepersKnown, WaitersKnown
<1>5. ASSUME NEW u \in Tasks,
             NEW r, r = Remaining(u, pend, susp, d, o, now),
             NEW r1, r1 = Remaining(u, pend, susp1, d, o, now)
      PROVE  r1 = IF u = c THEN -1 ELSE r
  <2>1. CASE u # c
    <3>1. u \in ToSet(susp) <=> u \in ToSet(susp1)
      BY <1>3, <2>1
    <3>2. r = r1
      BY <1>5, <3>1, RemainingSame
    <3>3. QED
      BY <2>1, <3>2
  <2>2. CASE u = c
    <3>1. r1 = -1
      BY <1>3, <1>4, <1>5, <2>2, RemainingSound
    <3>2. QED
      BY <2>2, <3>1
  <2>3. QED
    BY <2>1, <2>2
<1>6. ASSUME NEW u \in Tasks
      PROVE  ToGo(u)' = IF u = pxCurrentTCB THEN -1 ELSE ToGo(u)
  <2>1. PICK r, r1 : r = ToGo(u) /\ r1 = ToGo(u)'
    OBVIOUS
  <2>2. /\ r = Remaining(u, pend, susp, d, o, now)
        /\ r1 = Remaining(u, pend, susp1, d, o, now)
    BY <1>2, <2>1, ToGoRemaining
  <2>3. r1 = IF u = c THEN -1 ELSE r
    BY <1>5, <2>2
  <2>4. QED
    BY <1>2, <2>1, <2>3
<1>7. QED
  BY <1>6

LEMMA AwakeToGo ==
    ASSUME KernelInv, NEW t \in Tasks, t \notin Asleep
    PROVE  ToGo(t) = 0
<1>1. PICK pend, susp, d, o, now :
        /\ pend = xPendingReadyList /\ susp = suspended /\ d = delayed /\ o = overflow
        /\ now = xTickCount
  OBVIOUS
<1>2. DelayList(d) /\ DelayList(o)
  BY <1>1 DEF KernelInv, SleepersKnown
<1>3. t \notin ToSet(susp) /\ t \notin ToSet(Owners(d)) /\ t \notin ToSet(Owners(o))
  BY <1>1 DEF Asleep
<1>4. PICK r : r = Remaining(t, pend, susp, d, o, now)
  OBVIOUS
<1>5. r = 0
  BY <1>2, <1>3, <1>4, RemainingSound
<1>6. QED
  BY <1>1, <1>4, <1>5, ToGoRemaining

\* The calls that block are the sleeps of Sleepers.
LEMMA CallsSleep ==
    ASSUME KernelInv, AddToDelayed \/ PlaceOnEventList
    PROVE  Sleep!Next
<1>1. PICK c \in Tasks : c = pxCurrentTCB
  BY DEF KernelInv, TypeOK, SchedulerTypeOK
<1>2. c \notin Asleep /\ ToGo(c) = 0
  <2>1. pc[pxCurrentTCB] = "add"
    BY DEF AddToDelayed, PlaceOnEventList, Step
  <2>2. c \notin Asleep
    BY <1>1, <2>1 DEF KernelInv, CallsKnown
  <2>3. QED
    BY <2>2, AwakeToGo
<1>3. CASE AddToDelayed
  <2>1. /\ UNCHANGED <<xTickCount, suspended, xPendingReadyList>> /\ events' = events
    BY <1>3 DEF AddToDelayed, blocked
  <2>2. PICK n \in Delays : AddCurrentToDelayed(n)
    BY <1>3 DEF AddToDelayed
  <2>3. \A u \in Tasks : ToGo(u)' = IF u = c THEN n ELSE ToGo(u)
    BY <1>1, <1>2, <2>1, <2>2, DelayedToGo
  <2>4. Sleep!Sleep(c, n, FALSE)
    BY <1>2, <2>1, <2>3 DEF Sleep!Sleep
  <2>5. QED
    BY <2>4 DEF Sleep!Next
<1>4. CASE PlaceOnEventList
  <2>1. xTickCount' = xTickCount /\ xPendingReadyList' = xPendingReadyList
    BY <1>4 DEF PlaceOnEventList
  <2>2. ToSet(events') = ToSet(events) \union {c}
    <3>1. PICK old : old = events
      OBVIOUS
    <3>2. EventList(old) /\ c \notin ToSet(old)
      BY <1>2, <3>1 DEF KernelInv, WaitersKnown
    <3>3. ToSet(InsertByPriority(old, c)) = ToSet(old) \union {c}
      BY <3>2, InsertByPrioritySound
    <3>4. QED
      BY <1>1, <1>4, <3>1, <3>3 DEF PlaceOnEventList
  <2>3. CASE \E n \in Delays \ {MaxDelay} : AddCurrentToDelayed(n) /\ UNCHANGED suspended
    <3>1. PICK n \in Delays : AddCurrentToDelayed(n) /\ UNCHANGED suspended
      BY <2>3
    <3>2. \A u \in Tasks : ToGo(u)' = IF u = c THEN n ELSE ToGo(u)
      BY <1>1, <1>2, <2>1, <3>1, DelayedToGo
    <3>3. Sleep!Sleep(c, n, TRUE)
      BY <1>2, <2>2, <3>2 DEF Sleep!Sleep
    <3>4. QED
      BY <3>3 DEF Sleep!Next
  <2>4. CASE /\ LeaveReady /\ suspended' = Append(suspended, pxCurrentTCB)
             /\ UNCHANGED <<delayed, overflow, xNextTaskUnblockTime>>
    <3>1. \A u \in Tasks : ToGo(u)' = IF u = c THEN -1 ELSE ToGo(u)
      BY <1>1, <1>2, <2>1, <2>4, SuspendedToGo
    <3>2. Sleep!Sleep(c, Sleep!Forever, TRUE)
      BY <1>2, <2>2, <3>1 DEF Sleep!Sleep, Sleep!Forever
    <3>3. QED
      BY <3>2 DEF Sleep!Next
  <2>5. QED
    BY <1>4, <2>3, <2>4 DEF PlaceOnEventList
<1>5. QED
  BY <1>3, <1>4

\* Whatever the tick count wraps to, however many ticks were held pending and
\* whichever of event and timeout comes first, tasks sleep for as many ticks as
\* they asked for, or until their event happens.
THEOREM KernelIsSleepers == Spec => ImplementsSleepers
<1>1. Init => Sleep!Init
  <2> SUFFICES ASSUME Init
               PROVE  Sleep!Init
    OBVIOUS
  <2>1. KernelInv /\ events = << >> /\ delayed = << >> /\ overflow = << >> /\ suspended = << >>
    BY InitKnown DEF Init
  <2>2. ToSet(events) = {}
    BY <2>1 DEF ToSet
  <2>3. Asleep = {}
    <3>1. ToSet(delayed) = {} /\ ToSet(overflow) = {} /\ ToSet(suspended) = {}
      BY <2>1 DEF ToSet
    <3>2. ToSet(Owners(delayed)) = {} /\ ToSet(Owners(overflow)) = {}
      BY <2>1, <3>1, ItemsSound DEF KernelInv, SleepersKnown
    <3>3. QED
      BY <3>1, <3>2 DEF Asleep
  <2>4. \A t \in Tasks : ToGo(t) = 0
    BY <2>1, <2>3, AwakeToGo
  <2>5. QED
    BY <2>2, <2>4 DEF Sleep!Init
<1>2. KernelInv /\ [Next]_vars => [Sleep!Next]_(Sleep!vars)
  <2> SUFFICES ASSUME KernelInv, [Next]_vars
               PROVE  Sleep!Next \/ UNCHANGED Sleep!vars
    OBVIOUS
  <2>1. ASSUME UNCHANGED <<time, blocked>>
        PROVE  UNCHANGED Sleep!vars
    BY <2>1 DEF time, blocked, Sleep!vars, ToGo
  <2>2. CASE Program \/ YieldAsleep \/ LeaveResumeAll \/ SwitchContext \/ UNCHANGED vars
    <3>1. UNCHANGED <<time, blocked>>
      BY <2>2 DEF Program, vTaskSuspendAll, BeginDelay, SuspendAll, Yield, YieldAsleep,
                  RaiseSwitch, LeaveResumeAll, LeaveResume, SwitchContext, vars
    <3>2. QED
      BY <2>1, <3>1
  <2>3. CASE AddToDelayed \/ PlaceOnEventList
    BY <2>3, CallsSleep
  <2>4. CASE xTaskResumeAll
    BY <2>4, ResumeStutters DEF xTaskResumeAll
  <2>5. CASE UnwindTick
    <3>1. uxSchedulerSuspended = 0 /\ IncrementTick
      BY <2>5 DEF UnwindTick, Critical, KernelInv, CallsKnown
    <3>2. QED
      BY <3>1, TickTicks DEF Sleep!Next
  <2>6. CASE TickInterrupt
    <3>1. CASE uxSchedulerSuspended = 0
      <4>1. IncrementTick
        BY <2>6, <3>1 DEF TickInterrupt
      <4>2. QED
        BY <3>1, <4>1, TickTicks DEF Sleep!Next
    <3>2. CASE uxSchedulerSuspended # 0
      BY <2>1, <2>6, <3>2 DEF TickInterrupt
    <3>3. QED
      BY <3>1, <3>2
  <2>7. CASE Event
    BY <2>7, EventWakes DEF Sleep!Next
  <2>8. QED
    BY <2>2, <2>3, <2>4, <2>5, <2>6, <2>7 DEF Next, Work
<1>3. QED
  BY <1>1, <1>2, KernelSound, PTL DEF Spec, ImplementsSleepers, Sleep!Spec

=============================================================================
