---------------------------- MODULE Queue_proofs ----------------------------
(***************************************************************************)
(* Proofs about FreeRTOS' queues, for any tasks, priorities, items and     *)
(* ways to use a queue: who is on an event list and when the queue is      *)
(* locked, that the queue is a mailbox, and that no wake-up is lost.       *)
(***************************************************************************)
EXTENDS Queue, FiniteSetTheorems, Lemmas

(* ---- the inductive invariant ---- *)

\* Where a task stands while it keeps the scheduler suspended, and before and
\* after that.
Suspended == {"lock", "check", "test", "place", "unlockTx", "unlockRx", "resume"}

\* The task that suspended the scheduler is the one in the middle of the blocking
\* part of its call, and how far the queue is locked tells how far that is.
HolderKnown ==
    /\ \A t \in Tasks : holder = t <=> call[t].pc \in Suspended
    /\ \A t \in Tasks :
         /\ call[t].pc \in {"check", "test", "place", "unlockTx"} =>
              cTxLock >= 0 /\ cRxLock >= 0
         /\ call[t].pc = "unlockRx" => cTxLock = queueUNLOCKED /\ cRxLock >= 0
         /\ call[t].pc \in {"lock", "resume"} =>
              cTxLock = queueUNLOCKED /\ cRxLock = queueUNLOCKED
    /\ holder = Nothing =>
         /\ cTxLock = queueUNLOCKED /\ cRxLock = queueUNLOCKED
         /\ \A t \in Tasks : state[t] # "pending"

\* What a call is for and how long it waits, wherever it stands: a task that has
\* been put to sleep has started the clock and time is left.
CallsKnown ==
    \A t \in Tasks :
      /\ Sending(t) => call[t].item \in Items
      /\ call[t].op = "overwrite" => Length = 1
      /\ call[t].pc \in Suspended \union {"suspend"} =>
           call[t].wait \in {"finite", "expired", "forever"}
      /\ call[t].pc \in {"test", "place"} => call[t].wait # "expired"
      /\ state[t] = "blocked" =>
           /\ call[t].pc \in {"try", "unlockTx", "unlockRx", "resume"}
           /\ call[t].wait \in {"finite", "forever"}

\* A task is on the list its call is for exactly when it sleeps, and on no other.
ListsKnown ==
    /\ \A t \in Tasks :
         /\ (state[t] = "blocked") <=>
              (t \in ToSet(IF Sending(t) THEN xTasksWaitingToSend
                                         ELSE xTasksWaitingToReceive))
         /\ t \notin ToSet(IF Sending(t) THEN xTasksWaitingToReceive
                                         ELSE xTasksWaitingToSend)
    /\ IsInjective(xTasksWaitingToSend) /\ IsInjective(xTasksWaitingToReceive)

\* Reading and writing positions are as far apart as there are items.
RingKnown == pcWriteTo = (pcReadFrom + uxMessagesWaiting + 1) % Length

QueueInv == TypeOK /\ HolderKnown /\ CallsKnown /\ ListsKnown /\ RingKnown

-----------------------------------------------------------------------------
\* The constants.
LEMMA Given ==
    ASSUME TypeOK
    PROVE  /\ Length \in Nat \ {0} /\ use \in Use /\ NumberOfTasks \in Nat \ {0}
           /\ Nothing \notin Tasks /\ Nothing \notin Items
           /\ \A t \in Tasks : Priority[t] \in Nat
           /\ "overwrite" \in use.sends \union use.interrupts => Length = 1
<1>1. use \in Use /\ ("overwrite" \in use.sends \union use.interrupts => Length = 1)
  BY QueueAssumption DEF TypeOK, Length
<1>2. Cardinality(Tasks) \in Nat
  BY QueueAssumption, FS_CardinalityType
<1>3. QED
  BY <1>1, <1>2, QueueAssumption DEF Use, Length, NumberOfTasks

\* vListInsert adds a task to a list.
LEMMA InsertSound ==
    ASSUME NEW list \in Seq(Tasks), NEW t \in Tasks
    PROVE  /\ InsertByPriority(list, t) \in Seq(Tasks)
           /\ ToSet(InsertByPriority(list, t)) = ToSet(list) \union {t}
           /\ IsInjective(list) /\ t \notin ToSet(list)
                => IsInjective(InsertByPriority(list, t))
<1> DEFINE I == {i \in 1 .. Len(list) : Priority[list[i]] < Priority[t]}
           new == InsertByPriority(list, t)
<1>1. Len(list) \in Nat /\ Len(list) + 1 \in 1 .. Len(list) + 1
  BY LenProperties
<1>2. \E p \in 1 .. Len(list) + 1 : Gains(Tasks, new, list, t, p)
  <2>1. CASE I = {}
    <3>1. new = Append(list, t)
      BY <2>1 DEF InsertByPriority, SelectInSeq
    <3> HIDE DEF new
    <3>2. QED
      BY <3>1, GainsAtTheEnd
  <2>2. CASE I # {}
    <3>1. I \in SUBSET Nat /\ I \subseteq 1 .. Len(list) + 1
      BY <1>1
    <3>2. Min(I) \in I
      <4> HIDE DEF I
      <4>1. \E i \in I : \A j \in I : i <= j
        BY <2>2, <3>1, Least
      <4>2. QED
        BY <4>1 DEF Min
    <3>3. Min(I) \in 1 .. Len(list) + 1 /\ Min(I) # 0
      BY <3>1, <3>2
    <3>4. new = InsertAt(list, Min(I), t)
      BY <2>2, <3>3 DEF InsertByPriority, SelectInSeq
    <3> HIDE DEF new, I
    <3>5. PICK p \in 1 .. Len(list) + 1 : new = InsertAt(list, p, t)
      BY <3>3, <3>4
    <3>6. QED
      BY <3>5, Inserted
  <2>3. QED
    BY <2>1, <2>2
<1>3. PICK p \in 1 .. Len(list) + 1 : Gains(Tasks, new, list, t, p)
  BY <1>2
<1> HIDE DEF new, I
<1>4. ToSet(new) = ToSet(list) \union {t}
      /\ (IsInjective(list) /\ t \notin ToSet(list) => IsInjective(new))
  BY <1>3, ListWith
<1>5. QED
  BY <1>3, <1>4 DEF new, Gains

(* ---- the ring ---- *)

\* Writing behind the last item moves no other item.
LEMMA BackRing ==
    ASSUME NEW n \in Nat \ {0}, NEW r \in 0 .. n - 1, NEW c \in 0 .. n - 1,
           NEW w, w = (r + c + 1) % n
    PROVE  /\ w \in 0 .. n - 1 /\ (r + (c + 1)) % n = w
           /\ (IF w + 1 >= n THEN 0 ELSE w + 1) = (r + (c + 1) + 1) % n
           /\ \A i \in 1 .. c : (r + i) % n # w /\ (r + i) % n \in 0 .. n - 1
<1> DEFINE at(a) == a % n
<1>1. \A a \in 0 .. 2 * n : at(a) = IF a < n THEN a ELSE IF a < 2 * n THEN a - n ELSE 0
  BY Around, Zenon
<1>2. w = at(r + c + 1)
  OBVIOUS
<1> HIDE DEF at
<1>3. /\ w \in 0 .. n - 1 /\ at(r + (c + 1)) = w
      /\ (IF w + 1 >= n THEN 0 ELSE w + 1) = at(r + (c + 1) + 1)
  BY <1>1, <1>2
<1>4. \A i \in 1 .. c : at(r + i) # w /\ at(r + i) \in 0 .. n - 1
  BY <1>1, <1>2
<1>5. QED
  BY <1>3, <1>4, Zenon DEF at

\* Nor does writing before the first one.
LEMMA FrontRing ==
    ASSUME NEW n \in Nat \ {0}, NEW r \in 0 .. n - 1, NEW c \in 0 .. n - 1,
           NEW q \in 0 .. n - 1, r > 0 => q = r - 1, r = 0 => q = n - 1
    PROVE  /\ (q + 1) % n = r
           /\ (q + (c + 1) + 1) % n = (r + c + 1) % n
           /\ \A i \in 1 .. c : /\ (q + (i + 1)) % n = (r + i) % n
                                /\ (r + i) % n # r /\ (r + i) % n \in 0 .. n - 1
<1> DEFINE at(a) == a % n
<1>1. \A a \in 0 .. 2 * n : at(a) = IF a < n THEN a ELSE IF a < 2 * n THEN a - n ELSE 0
  BY Around, Zenon
<1> HIDE DEF at
<1>2. at(q + 1) = r /\ at(q + (c + 1) + 1) = at(r + c + 1)
  BY <1>1
<1>3. \A i \in 1 .. c : /\ at(q + (i + 1)) = at(r + i)
                        /\ at(r + i) # r /\ at(r + i) \in 0 .. n - 1
  BY <1>1
<1>4. QED
  BY <1>2, <1>3, Zenon DEF at

\* Reading the first item makes the second one the first.
LEMMA TakeRing ==
    ASSUME NEW n \in Nat \ {0}, NEW r \in 0 .. n - 1, NEW c \in 1 .. n,
           NEW q \in 0 .. n - 1, r < n - 1 => q = r + 1, r = n - 1 => q = 0
    PROVE  /\ (r + 1) % n = q
           /\ (q + (c - 1) + 1) % n = (r + c + 1) % n
           /\ \A i \in 1 .. c - 1 : (q + i) % n = (r + (i + 1)) % n
<1> DEFINE at(a) == a % n
<1>1. \A a \in 0 .. 2 * n : at(a) = IF a < n THEN a ELSE IF a < 2 * n THEN a - n ELSE 0
  BY Around, Zenon
<1> HIDE DEF at
<1>2. at(r + 1) = q /\ at(q + (c - 1) + 1) = at(r + c + 1)
  BY <1>1
<1>3. \A i \in 1 .. c - 1 : at(q + i) = at(r + (i + 1))
  BY <1>1
<1>4. QED
  BY <1>2, <1>3, Zenon DEF at

RingInv == RingTypeOK /\ RingKnown

\* An item that is added is the last of the contents, or the first, or the only one.
LEMMA CopyIn ==
    ASSUME TypeOK, RingKnown, NEW i \in Items,
           NEW position \in {"back", "front", "overwrite"}, HasRoom(position),
           position = "overwrite" => Length = 1,
           prvCopyDataToQueue(i, position), UNCHANGED <<use, taken>>
    PROVE  /\ RingInv'
           /\ position = "back" => Box!Post(i)
           /\ position = "front" => Box!PostFront(i)
           /\ position = "overwrite" => Box!Overwrite(i)
<1> DEFINE n == Length
           r == pcReadFrom
           c == uxMessagesWaiting
           w == pcWriteTo
<1>1. /\ n \in Nat \ {0} /\ r \in 0 .. n - 1 /\ c \in 0 .. n /\ w = (r + c + 1) % n
      /\ n' = n /\ taken' = taken /\ taken \in Items \union {Nothing} /\ w \in 0 .. n - 1
      /\ storage \in [0 .. n - 1 -> Items \union {Nothing}]
  BY Given DEF TypeOK, RingTypeOK, RingKnown, Length
<1>2. Len(Contents) = c
  BY <1>1 DEF Contents
<1>3. CASE position = "back"
  <2>1. /\ storage' = [storage EXCEPT ![w] = i] /\ w' = IF w + 1 >= n THEN 0 ELSE w + 1
        /\ r' = r /\ c' = c + 1 /\ c < n
    BY <1>3 DEF prvCopyDataToQueue, CopyTo, Up, HasRoom
  <2>2. /\ (r + (c + 1)) % n = w
        /\ w' = (r + (c + 1) + 1) % n
        /\ \A k \in 1 .. c : (r + k) % n # w /\ (r + k) % n \in 0 .. n - 1
    BY <1>1, <2>1, BackRing
  <2>3. RingInv'
    <3>1. /\ storage' \in [0 .. n - 1 -> Items \union {Nothing}]
          /\ w' \in 0 .. n - 1 /\ r' \in 0 .. n - 1 /\ c' \in 0 .. n
          /\ w' = (r' + c' + 1) % n
      BY <1>1, <2>1, <2>2
    <3>2. Length' = n
      BY <1>1
    <3>3. QED
      BY <1>1, <3>1, <3>2 DEF RingInv, RingTypeOK, RingKnown
  <2>4. Contents' = Append(Contents, i)
    <3>1. Contents' = [k \in 1 .. c + 1 |-> storage'[(r + k) % n]]
      BY <1>1, <2>1 DEF Contents
    <3>2. Contents = [k \in 1 .. c |-> storage[(r + k) % n]]
      BY DEF Contents
    <3>3. ASSUME NEW k \in 1 .. c
          PROVE  storage'[(r + k) % n] = storage[(r + k) % n]
      BY <1>1, <2>1, <2>2
    <3>4. storage'[(r + (c + 1)) % n] = i
      BY <1>1, <2>1, <2>2
    <3>5. Append(Contents, i) = [k \in 1 .. c + 1 |-> IF k = c + 1 THEN i ELSE Contents[k]]
      BY <1>1, <1>2, <3>2
    <3>6. ASSUME NEW k \in 1 .. c + 1
          PROVE  storage'[(r + k) % n] = IF k = c + 1 THEN i ELSE Contents[k]
      <4>1. CASE k = c + 1
        BY <3>4, <4>1
      <4>2. CASE k # c + 1
        <5>1. k \in 1 .. c
          BY <1>1, <4>2
        <5>2. QED
          BY <3>2, <3>3, <4>2, <5>1
      <4>3. QED
        BY <4>1, <4>2
    <3>7. QED
      BY <3>1, <3>5, <3>6
  <2>5. QED
    BY <1>1, <1>2, <1>3, <2>1, <2>3, <2>4 DEF Box!Post
<1>4. CASE position = "front"
  <2>1. /\ storage' = [storage EXCEPT ![r] = i] /\ r' = IF r - 1 < 0 THEN n - 1 ELSE r - 1
        /\ w' = w /\ c' = c + 1 /\ c < n
    BY <1>4 DEF prvCopyDataToQueue, CopyTo, Down, HasRoom
  <2>2. /\ r' \in 0 .. n - 1 /\ (r' + 1) % n = r
        /\ (r' + (c + 1) + 1) % n = (r + c + 1) % n
        /\ \A k \in 1 .. c : /\ (r' + (k + 1)) % n = (r + k) % n
                             /\ (r + k) % n # r /\ (r + k) % n \in 0 .. n - 1
    <3>1. c \in 0 .. n - 1
      BY <1>1, <2>1
    <3>2. PICK q \in 0 .. n - 1 : r' = q /\ (r > 0 => q = r - 1) /\ (r = 0 => q = n - 1)
      <4>1. r' \in 0 .. n - 1 /\ (r > 0 => r' = r - 1) /\ (r = 0 => r' = n - 1)
        <5>1. n \in Nat \ {0} /\ r \in 0 .. n - 1
          BY <1>1
        <5>2. r' = IF r - 1 < 0 THEN n - 1 ELSE r - 1
          BY <2>1
        <5>3. QED
          BY <5>1, <5>2
      <4>2. QED
        BY <4>1
    <3>3. /\ (q + 1) % n = r
          /\ (q + (c + 1) + 1) % n = (r + c + 1) % n
          /\ \A k \in 1 .. c : /\ (q + (k + 1)) % n = (r + k) % n
                               /\ (r + k) % n # r /\ (r + k) % n \in 0 .. n - 1
      BY <1>1, <3>1, <3>2, FrontRing
    <3>4. QED
      BY <3>2, <3>3
  <2>3. RingInv'
    <3>1. /\ storage' \in [0 .. n - 1 -> Items \union {Nothing}]
          /\ w' \in 0 .. n - 1 /\ r' \in 0 .. n - 1 /\ c' \in 0 .. n
          /\ w' = (r' + c' + 1) % n
      BY <1>1, <2>1, <2>2
    <3>2. Length' = n
      BY <1>1
    <3>3. QED
      BY <1>1, <3>1, <3>2 DEF RingInv, RingTypeOK, RingKnown
  <2>4. Contents' = <<i>> \o Contents
    <3>1. Contents' = [k \in 1 .. c + 1 |-> storage'[(r' + k) % n]]
      BY <1>1, <2>1 DEF Contents
    <3>2. Contents = [k \in 1 .. c |-> storage[(r + k) % n]]
      BY DEF Contents
    <3>3. ASSUME NEW k \in 1 .. c
          PROVE  storage'[(r' + (k + 1)) % n] = storage[(r + k) % n]
      BY <1>1, <2>1, <2>2
    <3>4. storage'[(r' + 1) % n] = i
      BY <1>1, <2>1, <2>2
    <3>5. <<i>> \o Contents = [k \in 1 .. c + 1 |-> IF k = 1 THEN i ELSE Contents[k - 1]]
      BY <1>1, <1>2, <3>2
    <3>6. ASSUME NEW k \in 1 .. c + 1, k # 1
          PROVE  storage'[(r' + k) % n] = Contents[k - 1]
      <4>1. k - 1 \in 1 .. c /\ (k - 1) + 1 = k
        BY <1>1, <3>6
      <4>2. QED
        BY <3>2, <3>3, <4>1
    <3>7. QED
      BY <1>1, <3>1, <3>4, <3>5, <3>6
  <2>5. QED
    BY <1>1, <1>2, <1>4, <2>1, <2>3, <2>4 DEF Box!PostFront
<1>5. CASE position = "overwrite"
  <2>1. /\ storage' = [storage EXCEPT ![r] = i] /\ r' = IF r - 1 < 0 THEN n - 1 ELSE r - 1
        /\ w' = w /\ c' = IF c > 0 THEN c ELSE c + 1
    BY <1>5 DEF prvCopyDataToQueue, CopyTo, Down
  <2>2. n = 1 /\ r = 0 /\ w = 0 /\ r' = 0 /\ c' = 1
    BY <1>1, <1>5, <2>1
  <2>3. 1 % 1 = 0 /\ 2 % 1 = 0
    BY Around
  <2>4. RingInv'
    BY <1>1, <2>1, <2>2, <2>3 DEF RingInv, RingTypeOK, RingKnown, Length
  <2>5. Contents' = <<i>>
    <3>1. Contents' = [k \in 1 .. 1 |-> storage'[(0 + k) % 1]]
      BY <1>1, <2>2 DEF Contents
    <3>2. storage'[(0 + 1) % 1] = i
      BY <1>1, <2>1, <2>2, <2>3
    <3>3. QED
      BY <3>1, <3>2
  <2>6. QED
    BY <1>1, <1>5, <2>2, <2>4, <2>5 DEF Box!Overwrite
<1>6. QED
  BY <1>3, <1>4, <1>5

\* The item that is read is the first of the contents.
LEMMA CopyOut ==
    ASSUME TypeOK, RingKnown, uxMessagesWaiting > 0, prvCopyDataFromQueue, UNCHANGED use
    PROVE  RingInv' /\ Box!Fetch
<1> DEFINE n == Length
           r == pcReadFrom
           c == uxMessagesWaiting
           w == pcWriteTo
<1>1. /\ n \in Nat \ {0} /\ r \in 0 .. n - 1 /\ c \in 1 .. n /\ w = (r + c + 1) % n
      /\ n' = n /\ w \in 0 .. n - 1 /\ storage \in [0 .. n - 1 -> Items \union {Nothing}]
  BY Given DEF TypeOK, RingTypeOK, RingKnown, Length
<1>2. /\ taken' = storage[r'] /\ r' = IF r + 1 >= n THEN 0 ELSE r + 1
      /\ c' = c - 1 /\ UNCHANGED <<storage, w>>
  BY DEF prvCopyDataFromQueue, CopyFrom, Up
<1>3. /\ r' \in 0 .. n - 1 /\ (r + 1) % n = r'
      /\ (r' + (c - 1) + 1) % n = (r + c + 1) % n
      /\ \A i \in 1 .. c - 1 : (r' + i) % n = (r + (i + 1)) % n
  <2>1. PICK q \in 0 .. n - 1 : r' = q /\ (r < n - 1 => q = r + 1) /\ (r = n - 1 => q = 0)
    <3>1. r' \in 0 .. n - 1 /\ (r < n - 1 => r' = r + 1) /\ (r = n - 1 => r' = 0)
      <4>1. n \in Nat \ {0} /\ r \in 0 .. n - 1
        BY <1>1
      <4>2. r' = IF r + 1 >= n THEN 0 ELSE r + 1
        BY <1>2
      <4>3. QED
        BY <4>1, <4>2
    <3>2. QED
      BY <3>1
  <2>2. /\ (r + 1) % n = q
        /\ (q + (c - 1) + 1) % n = (r + c + 1) % n
        /\ \A i \in 1 .. c - 1 : (q + i) % n = (r + (i + 1)) % n
    BY <1>1, <2>1, TakeRing
  <2>3. QED
    BY <2>1, <2>2
<1>4. RingInv'
  BY <1>1, <1>2, <1>3 DEF RingInv, RingTypeOK, RingKnown, Length
<1>5. Contents' = [k \in 1 .. c - 1 |-> storage[(r' + k) % n]]
  BY <1>1, <1>2 DEF Contents
<1>6. Contents = [k \in 1 .. c |-> storage[(r + k) % n]]
  BY DEF Contents
<1>7. Contents # << >> /\ Head(Contents) = Contents[1] /\ Len(Contents) = c
  <2>1. Len(Contents) = c
    BY <1>1, <1>6
  <2>2. QED
    BY <1>1, <2>1
<1>8. taken' = Head(Contents)
  <2>1. 1 \in 1 .. c
    BY <1>1
  <2>2. Contents[1] = storage[(r + 1) % n]
    BY <1>6, <2>1
  <2>3. QED
    BY <1>2, <1>3, <1>7, <2>2
<1>9. Contents' = Tail(Contents)
  <2>1. Tail(Contents) = [k \in 1 .. c - 1 |-> Contents[k + 1]]
    BY <1>1, <1>6, <1>7
  <2>2. ASSUME NEW k \in 1 .. c - 1
        PROVE  storage[(r' + k) % n] = Contents[k + 1]
    <3>1. k + 1 \in 1 .. c
      BY <1>1
    <3>2. QED
      BY <1>3, <1>6, <3>1
  <2>3. QED
    BY <1>5, <2>1, <2>2
<1>10. QED
  BY <1>4, <1>7, <1>8, <1>9 DEF Box!Fetch

\* The item that is looked at is the first of the contents as well.
LEMMA PeekAt ==
    ASSUME TypeOK, uxMessagesWaiting > 0, taken' = storage[Up(pcReadFrom)],
           UNCHANGED <<use, storage, pcReadFrom, uxMessagesWaiting>>
    PROVE  Box!Peek /\ taken' \in Items \union {Nothing}
<1> DEFINE n == Length
           r == pcReadFrom
           c == uxMessagesWaiting
<1>1. /\ n \in Nat \ {0} /\ r \in 0 .. n - 1 /\ c \in 1 .. n /\ n' = n
      /\ storage \in [0 .. n - 1 -> Items \union {Nothing}]
  BY Given DEF TypeOK, RingTypeOK, Length
<1>2. PICK q \in 0 .. n - 1 :
        q = Up(pcReadFrom) /\ (r < n - 1 => q = r + 1) /\ (r = n - 1 => q = 0)
  <2>1. n \in Nat \ {0} /\ r \in 0 .. n - 1
    BY <1>1
  <2>2. Up(r) = IF r + 1 >= n THEN 0 ELSE r + 1
    BY DEF Up
  <2>3. Up(r) \in 0 .. n - 1 /\ (r < n - 1 => Up(r) = r + 1) /\ (r = n - 1 => Up(r) = 0)
    BY <2>1, <2>2
  <2>4. QED
    BY <2>3
<1>3. (r + 1) % n = q
  BY <1>1, <1>2, TakeRing
<1>4. Contents = [k \in 1 .. c |-> storage[(r + k) % n]]
  BY DEF Contents
<1>5. Contents # << >> /\ Head(Contents) = Contents[1]
  <2>1. Len(Contents) = c
    BY <1>1, <1>4
  <2>2. QED
    BY <1>1, <2>1
<1>6. Contents[1] = storage[q]
  <2>1. 1 \in 1 .. c
    BY <1>1
  <2>2. QED
    BY <1>3, <1>4, <2>1
<1>7. UNCHANGED Contents
  BY <1>1 DEF Contents
<1>8. QED
  BY <1>1, <1>2, <1>5, <1>6, <1>7 DEF Box!Peek

(* ---- the lists of waiting tasks ---- *)

\* What every step but PlaceOnEventList does to the lists: the tasks that leave
\* them are those that wake up.
Shrunk ==
    /\ xTasksWaitingToSend' \in Seq(Tasks) /\ xTasksWaitingToReceive' \in Seq(Tasks)
    /\ IsInjective(xTasksWaitingToSend)' /\ IsInjective(xTasksWaitingToReceive)'
    /\ state' \in [Tasks -> {"ready", "pending", "blocked"}]
    /\ \A t \in Tasks :
         /\ t \in ToSet(xTasksWaitingToSend)' <=>
              t \in ToSet(xTasksWaitingToSend) /\ state'[t] = "blocked"
         /\ t \in ToSet(xTasksWaitingToReceive)' <=>
              t \in ToSet(xTasksWaitingToReceive) /\ state'[t] = "blocked"
         /\ state'[t] = "blocked" => state[t] = "blocked"
         /\ holder = Nothing /\ state[t] # "pending" => state'[t] # "pending"
         /\ state[t] = "ready" => state'[t] = "ready"

LEMMA Untouched ==
    ASSUME TypeOK, ListsKnown, UNCHANGED <<lists, state>>
    PROVE  Shrunk
BY DEF TypeOK, TasksTypeOK, ListsKnown, Shrunk, lists

LEMMA WokenReceivers ==
    ASSUME TypeOK, ListsKnown, NEW n \in Nat, WakeReceivers(n)
    PROVE  Shrunk
<1> DEFINE list == xTasksWaitingToReceive
           woken == ToSet(SubSeq(list, 1, IF n < Len(list) THEN n ELSE Len(list)))
<1>1. list \in Seq(Tasks) /\ IsInjective(list)
  BY DEF TypeOK, TasksTypeOK, ListsKnown
<1>2. /\ list' = SubSeq(list, n + 1, Len(list)) /\ UNCHANGED xTasksWaitingToSend
      /\ state' = [t \in Tasks |-> IF t \notin woken THEN state[t]
                                   ELSE IF holder = Nothing THEN "ready" ELSE "pending"]
  BY DEF WakeReceivers, Wake
<1>3. /\ list' \in Seq(Tasks) /\ IsInjective(list')
      /\ ToSet(list') = ToSet(list) \ woken /\ woken \subseteq ToSet(list)
  BY <1>1, <1>2, DropSound
<1> HIDE DEF woken
<1>4. \A t \in Tasks :
        /\ t \in ToSet(list) => state[t] = "blocked" /\ t \notin ToSet(xTasksWaitingToSend)
        /\ t \in ToSet(xTasksWaitingToSend) => state[t] = "blocked"
  BY DEF ListsKnown
<1>5. QED
  BY <1>2, <1>3, <1>4 DEF TypeOK, TasksTypeOK, ListsKnown, Shrunk

LEMMA WokenSenders ==
    ASSUME TypeOK, ListsKnown, NEW n \in Nat, WakeSenders(n)
    PROVE  Shrunk
<1> DEFINE list == xTasksWaitingToSend
           woken == ToSet(SubSeq(list, 1, IF n < Len(list) THEN n ELSE Len(list)))
<1>1. list \in Seq(Tasks) /\ IsInjective(list)
  BY DEF TypeOK, TasksTypeOK, ListsKnown
<1>2. /\ list' = SubSeq(list, n + 1, Len(list)) /\ UNCHANGED xTasksWaitingToReceive
      /\ state' = [t \in Tasks |-> IF t \notin woken THEN state[t]
                                   ELSE IF holder = Nothing THEN "ready" ELSE "pending"]
  BY DEF WakeSenders, Wake
<1>3. /\ list' \in Seq(Tasks) /\ IsInjective(list')
      /\ ToSet(list') = ToSet(list) \ woken /\ woken \subseteq ToSet(list)
  BY <1>1, <1>2, DropSound
<1> HIDE DEF woken
<1>4. \A t \in Tasks :
        /\ t \in ToSet(list) => state[t] = "blocked" /\ t \notin ToSet(xTasksWaitingToReceive)
        /\ t \in ToSet(xTasksWaitingToReceive) => state[t] = "blocked"
  BY DEF ListsKnown
<1>5. QED
  BY <1>2, <1>3, <1>4 DEF TypeOK, TasksTypeOK, ListsKnown, Shrunk

\* As long as sleeping tasks go on with the same call, that is all there is to it.
LEMMA ListsStep ==
    ASSUME ListsKnown, Shrunk,
           \A t \in Tasks : state'[t] = "blocked" => (Sending(t)' <=> Sending(t))
    PROVE  ListsKnown'
BY DEF ListsKnown, Shrunk

(* ---- the calls ---- *)

\* What TypeOK says of the calls.
Calls == [Tasks ->
          [pc : {"idle", "try", "suspend", "lock", "check", "test", "place",
                 "unlockTx", "unlockRx", "resume", "last"},
           op : use.sends \union use.reads \union {"none"},
           item : Items \union {Nothing},
           wait : {"none", "fresh", "finite", "expired", "forever"}]]

\* What holds of the tasks, apart from the ring.
TasksInv == TasksTypeOK /\ HolderKnown /\ CallsKnown /\ ListsKnown

\* A call moves on, or returns.
LEMMA AtStep ==
    ASSUME TypeOK, UNCHANGED use, NEW t \in Tasks, NEW from,
           NEW to \in {"idle", "try", "suspend", "lock", "check", "test", "place",
                       "unlockTx", "unlockRx", "resume", "last"},
           At(t, from, to)
    PROVE  /\ Runs(t) /\ call[t].pc = from /\ call' \in Calls'
           /\ \A u \in Tasks \ {t} : call'[u] = call[u]
           /\ call'[t].pc = to
           /\ to # "idle" => /\ call'[t].op = call[t].op /\ call'[t].item = call[t].item
                             /\ call'[t].wait = call[t].wait
           /\ to = "idle" => call'[t].op = "none"
<1>1. call \in Calls /\ UNCHANGED Calls
  BY DEF TypeOK, TasksTypeOK, Calls
<1>2. NoCall \in [pc : {"idle"}, op : {"none"}, item : {Nothing}, wait : {"none"}]
  BY DEF NoCall
<1>3. CASE to = "idle"
  <2>1. call' = [call EXCEPT ![t] = NoCall] /\ Runs(t) /\ call[t].pc = from
    BY <1>3 DEF At
  <2>2. QED
    BY <1>1, <1>2, <1>3, <2>1 DEF Calls
<1>4. CASE to # "idle"
  <2>1. call' = [call EXCEPT ![t] = [@ EXCEPT !.pc = to]] /\ Runs(t) /\ call[t].pc = from
    BY <1>4 DEF At
  <2>2. QED
    BY <1>1, <1>4, <2>1 DEF Calls
<1>5. QED
  BY <1>3, <1>4

\* Who runs outside the part with the scheduler suspended is ready; who runs inside
\* it suspended the scheduler.
LEMMA Running ==
    ASSUME QueueInv, NEW t \in Tasks, Runs(t)
    PROVE  /\ call[t].pc \notin Suspended => holder = Nothing /\ state[t] = "ready"
           /\ call[t].pc \in Suspended => holder = t
BY DEF QueueInv, HolderKnown, Runs

\* A step of a task, or of the tick for it, while the scheduler is not suspended.
LEMMA Outside ==
    ASSUME QueueInv, NEW t \in Tasks, holder = Nothing, Shrunk, state'[t] # "blocked",
           UNCHANGED <<use, holder, locks>>, call' \in Calls',
           \A u \in Tasks \ {t} : call'[u] = call[u],
           call'[t].pc \notin Suspended, Sending(t)' => call'[t].item \in Items,
           call'[t].op = "overwrite" => Length = 1,
           call'[t].pc = "suspend" => call'[t].wait \in {"finite", "expired", "forever"}
    PROVE  TasksInv'
<1>1. TasksTypeOK'
  BY DEF QueueInv, TypeOK, TasksTypeOK, Calls, Shrunk, locks, NumberOfTasks
<1>2. Length' = Length /\ \A u \in Tasks \ {t} : Sending(u)' <=> Sending(u)
  BY DEF Length, Sending
<1>3. ListsKnown'
  BY <1>2, ListsStep DEF QueueInv
<1>4. HolderKnown'
  <2>1. \A u \in Tasks : holder # u /\ call'[u].pc \notin Suspended
    BY Given DEF QueueInv, HolderKnown
  <2>2. /\ cTxLock' = queueUNLOCKED /\ cRxLock' = queueUNLOCKED
        /\ \A u \in Tasks : state'[u] # "pending"
    BY DEF QueueInv, HolderKnown, Shrunk, locks
  <2>3. QED
    BY <2>1, <2>2 DEF HolderKnown, Suspended
<1>5. CallsKnown'
  <2>1. ASSUME NEW u \in Tasks \ {t}
        PROVE  /\ call'[u] = call[u] /\ (state'[u] = "blocked" => state[u] = "blocked")
               /\ Sending(u)' <=> Sending(u)
    BY <1>2 DEF Shrunk
  <2>2. QED
    BY <1>2, <2>1 DEF QueueInv, CallsKnown, Suspended
<1>6. QED
  BY <1>1, <1>3, <1>4, <1>5 DEF TasksInv

\* A step of the task that suspended the scheduler, from one place to the next.
LEMMA Inside ==
    ASSUME QueueInv, NEW t \in Tasks, holder = t, Shrunk, UNCHANGED <<use, holder>>,
           cTxLock' \in queueUNLOCKED .. NumberOfTasks,
           cRxLock' \in queueUNLOCKED .. NumberOfTasks,
           call' \in Calls', \A u \in Tasks \ {t} : call'[u] = call[u],
           call'[t].op = call[t].op, call'[t].item = call[t].item,
           call'[t].wait = call[t].wait, call[t].pc \in Suspended,
           call'[t].pc \in Suspended,
           call'[t].pc \in {"check", "test", "place", "unlockTx"} =>
             cTxLock' >= 0 /\ cRxLock' >= 0,
           call'[t].pc = "unlockRx" => cTxLock' = queueUNLOCKED /\ cRxLock' >= 0,
           call'[t].pc \in {"lock", "resume"} =>
             cTxLock' = queueUNLOCKED /\ cRxLock' = queueUNLOCKED,
           call'[t].pc \in {"test", "place"} => call[t].wait # "expired",
           state'[t] = "blocked" => call'[t].pc \in {"unlockTx", "unlockRx", "resume"}
    PROVE  TasksInv'
<1>1. TasksTypeOK'
  BY DEF QueueInv, TypeOK, TasksTypeOK, Calls, Shrunk, NumberOfTasks
<1>2. Length' = Length /\ \A u \in Tasks : Sending(u)' <=> Sending(u)
  BY DEF Length, Sending
<1>3. ListsKnown'
  BY <1>2, ListsStep DEF QueueInv
<1>4. HolderKnown'
  <2>1. \A u \in Tasks \ {t} : call'[u].pc \notin Suspended
    BY DEF QueueInv, HolderKnown
  <2>2. holder' # Nothing
    BY Given DEF QueueInv
  <2>3. QED
    BY <2>1, <2>2 DEF HolderKnown, Suspended
<1>5. CallsKnown'
  <2>1. ASSUME NEW u \in Tasks \ {t}
        PROVE  /\ call'[u] = call[u] /\ (state'[u] = "blocked" => state[u] = "blocked")
               /\ Sending(u)' <=> Sending(u)
    BY <1>2 DEF Shrunk
  <2>2. state'[t] = "blocked" => state[t] = "blocked"
    BY DEF Shrunk
  <2>3. QED
    BY <1>2, <2>1, <2>2 DEF QueueInv, CallsKnown, Suspended
<1>6. QED
  BY <1>1, <1>3, <1>4, <1>5 DEF TasksInv

\* An interrupt: it counts in a lock that is in use, or wakes a task.
LEMMA Interrupt ==
    ASSUME QueueInv, Shrunk, UNCHANGED <<use, holder, call>>,
           \/ UNCHANGED cTxLock
           \/ cTxLock >= 0 /\ cTxLock' >= 0 /\ cTxLock' \in queueUNLOCKED .. NumberOfTasks,
           \/ UNCHANGED cRxLock
           \/ cRxLock >= 0 /\ cRxLock' >= 0 /\ cRxLock' \in queueUNLOCKED .. NumberOfTasks
    PROVE  TasksInv'
<1>1. TasksTypeOK'
  BY DEF QueueInv, TypeOK, TasksTypeOK, Shrunk, NumberOfTasks
<1>2. Length' = Length /\ \A u \in Tasks : Sending(u)' <=> Sending(u)
  BY DEF Length, Sending
<1>3. ListsKnown'
  BY <1>2, ListsStep DEF QueueInv
<1>4. HolderKnown'
  BY DEF QueueInv, HolderKnown, Shrunk, queueUNLOCKED
<1>5. CallsKnown'
  <2>1. ASSUME NEW u \in Tasks
        PROVE  /\ call'[u] = call[u] /\ (state'[u] = "blocked" => state[u] = "blocked")
               /\ Sending(u)' <=> Sending(u)
    BY <1>2 DEF Shrunk
  <2>2. QED
    BY <1>2, <2>1 DEF QueueInv, CallsKnown
<1>6. QED
  BY <1>1, <1>3, <1>4, <1>5 DEF TasksInv

(* ---- the steps ---- *)

\* What a step has to show: the invariant again, and a step of the mailbox or none.
Good == QueueInv' /\ [Box!Next]_(Box!vars)

LEMMA Assemble ==
    ASSUME QueueInv, UNCHANGED use, TasksInv', RingInv',
           [Box!Next]_(Box!vars)
    PROVE  Good
<1>1. use' \in Uses
  BY DEF QueueInv, TypeOK
<1>2. QED
  BY <1>1 DEF Good, QueueInv, TypeOK, TasksInv, RingInv

\* A step that leaves the ring alone leaves the mailbox alone.
LEMMA AssembleQuiet ==
    ASSUME QueueInv, UNCHANGED <<use, ring, taken>>, TasksInv'
    PROVE  Good
<1>1. RingInv'
  BY DEF QueueInv, TypeOK, RingTypeOK, RingKnown, RingInv, Length, ring
<1>2. UNCHANGED Box!vars
  BY DEF Box!vars, Contents, Length, ring
<1>3. QED
  BY <1>1, <1>2, Assemble

\* Steps of a call that change nothing but where it is.
LEMMA CallGood ==
    ASSUME QueueInv, UNCHANGED use, NEW t \in Tasks,
           \/ \E c \in use.sends, i \in use.items, w \in use.waits : Call(t, c, i, w)
           \/ \E c \in use.reads, w \in use.waits : Call(t, c, Nothing, w)
    PROVE  Good
<1>1. /\ use.sends \subseteq {"back", "front", "overwrite"}
      /\ use.reads \subseteq {"receive", "peek"} /\ use.items \subseteq Items
      /\ use.waits \subseteq {"none", "finite", "forever"}
      /\ "overwrite" \in use.sends => Length = 1
  BY Given DEF QueueInv, Use
<1>2. PICK c \in use.sends \union use.reads, i \in Items \union {Nothing},
           w \in {"none", "finite", "forever"} :
        /\ Call(t, c, i, w)
        /\ c \in {"back", "front", "overwrite"} => i \in Items
        /\ c = "overwrite" => Length = 1
  BY <1>1
<1>3. /\ Runs(t) /\ call[t].pc = "idle" /\ UNCHANGED <<ring, locks, lists, kernel, taken>>
      /\ call' = [call EXCEPT ![t] = [pc |-> "try", op |-> c, item |-> i,
                                      wait |-> IF w = "finite" THEN "fresh" ELSE w]]
  BY <1>2 DEF Call
<1>4. call \in Calls /\ UNCHANGED Calls
  BY DEF QueueInv, TypeOK, TasksTypeOK, Calls
<1>5. /\ call' \in Calls' /\ \A u \in Tasks \ {t} : call'[u] = call[u]
      /\ call'[t].pc = "try" /\ call'[t].op = c /\ call'[t].item = i
  BY <1>3, <1>4 DEF Calls
<1>6. holder = Nothing /\ state[t] = "ready"
  BY <1>3, Running DEF Suspended
<1>7. Shrunk
  BY <1>3, Untouched DEF QueueInv, kernel
<1>8. TasksInv'
  <2>1. Sending(t)' => call'[t].item \in Items
    BY <1>2, <1>5 DEF Sending
  <2>2. call'[t].op = "overwrite" => Length = 1
    BY <1>2, <1>5
  <2>3. UNCHANGED <<use, holder, locks>> /\ state'[t] # "blocked"
    BY <1>3, <1>6 DEF kernel
  <2>4. call'[t].pc \notin Suspended /\ call'[t].pc # "suspend"
    BY <1>5 DEF Suspended
  <2>5. QED
    BY <1>5, <1>6, <1>7, <2>1, <2>2, <2>3, <2>4, Outside
<1>9. QED
  BY <1>3, <1>8, AssembleQuiet

LEMMA QuietGood ==
    ASSUME QueueInv, UNCHANGED use, NEW t \in Tasks, GiveUp(t) \/ LookAgain(t)
    PROVE  Good
<1>1. PICK from \in {"try", "last"}, to \in {"idle", "try"} :
        At(t, from, to) /\ UNCHANGED <<ring, locks, lists, kernel, taken>>
  BY DEF GiveUp, LookAgain
<1>2. /\ Runs(t) /\ call[t].pc = from /\ call' \in Calls'
      /\ \A u \in Tasks \ {t} : call'[u] = call[u]
      /\ call'[t].pc = to
      /\ to # "idle" => /\ call'[t].op = call[t].op /\ call'[t].item = call[t].item
      /\ to = "idle" => call'[t].op = "none"
  BY <1>1, AtStep DEF QueueInv
<1>3. holder = Nothing /\ state[t] = "ready"
  BY <1>1, <1>2, Running DEF Suspended
<1>4. Shrunk
  BY <1>1, Untouched DEF QueueInv, kernel
<1>5. TasksInv'
  <2>1. Sending(t)' => call'[t].item \in Items
    BY <1>2 DEF Sending, QueueInv, CallsKnown
  <2>2. call'[t].op = "overwrite" => Length = 1
    BY <1>2 DEF QueueInv, CallsKnown
  <2>3. UNCHANGED <<use, holder, locks>> /\ state'[t] # "blocked"
    BY <1>1, <1>3 DEF kernel
  <2>4. call'[t].pc \notin Suspended /\ call'[t].pc # "suspend"
    BY <1>1, <1>2 DEF Suspended
  <2>5. QED
    BY <1>2, <1>3, <1>4, <2>1, <2>2, <2>3, <2>4, Outside
<1>6. QED
  BY <1>1, <1>5, AssembleQuiet

LEMMA PrepareGood ==
    ASSUME QueueInv, UNCHANGED use, NEW t \in Tasks, PrepareToWait(t)
    PROVE  Good
<1> DEFINE wait == IF call[t].wait \in {"fresh"} THEN "finite" ELSE call[t].wait
<1>1. /\ Runs(t) /\ call[t].pc = "try" /\ UNCHANGED <<ring, locks, lists, kernel, taken>>
      /\ call' = [call EXCEPT ![t] = [@ EXCEPT !.pc = "suspend", !.wait = wait]]
      /\ call[t].wait # "none"
  BY DEF PrepareToWait, SetTimeOut
<1>2. call \in Calls /\ UNCHANGED Calls
  BY DEF QueueInv, TypeOK, TasksTypeOK, Calls
<1>3. /\ call' \in Calls' /\ \A u \in Tasks \ {t} : call'[u] = call[u]
      /\ call'[t].pc = "suspend" /\ call'[t].op = call[t].op
      /\ call'[t].item = call[t].item /\ call'[t].wait \in {"finite", "expired", "forever"}
  <2>1. wait \in {"finite", "expired", "forever"}
    BY <1>1, <1>2 DEF Calls
  <2> HIDE DEF wait
  <2>2. /\ call'[t] = [call[t] EXCEPT !.pc = "suspend", !.wait = wait]
        /\ \A u \in Tasks \ {t} : call'[u] = call[u]
        /\ DOMAIN call' = Tasks
    BY <1>1, <1>2 DEF Calls
  <2>3. call' \in Calls
    <3>1. /\ call[t].op \in use.sends \union use.reads \union {"none"}
          /\ call[t].item \in Items \union {Nothing}
          /\ call[t] = [pc |-> call[t].pc, op |-> call[t].op, item |-> call[t].item,
                        wait |-> call[t].wait]
      BY <1>2 DEF Calls
    <3>2. call'[t] = [pc |-> "suspend", op |-> call[t].op, item |-> call[t].item,
                      wait |-> wait]
      BY <2>2, <3>1
    <3>3. call'[t] \in [pc : {"suspend"},
                        op : use.sends \union use.reads \union {"none"},
                        item : Items \union {Nothing},
                        wait : {"finite", "expired", "forever"}]
      BY <2>1, <3>1, <3>2
    <3>4. call' = [call EXCEPT ![t] = call'[t]]
      BY <1>1, <1>2, <2>2 DEF Calls
    <3>5. QED
      BY <1>2, <3>3, <3>4 DEF Calls
  <2>4. call'[t].pc = "suspend" /\ call'[t].wait = wait
        /\ call'[t].op = call[t].op /\ call'[t].item = call[t].item
    BY <1>2, <2>2 DEF Calls
  <2>5. QED
    BY <1>2, <2>1, <2>2, <2>3, <2>4
<1>4. holder = Nothing /\ state[t] = "ready"
  BY <1>1, Running DEF Suspended
<1>5. Shrunk
  BY <1>1, Untouched DEF QueueInv, kernel
<1>6. TasksInv'
  <2>1. Sending(t)' => call'[t].item \in Items
    BY <1>3 DEF Sending, QueueInv, CallsKnown
  <2>2. call'[t].op = "overwrite" => Length = 1
    BY <1>3 DEF QueueInv, CallsKnown
  <2>3. UNCHANGED <<use, holder, locks>> /\ state'[t] # "blocked"
    BY <1>1, <1>4 DEF kernel
  <2>4. call'[t].pc \notin Suspended
    BY <1>3 DEF Suspended
  <2>5. QED
    BY <1>3, <1>4, <1>5, <2>1, <2>2, <2>3, <2>4, Outside
<1>7. QED
  BY <1>1, <1>6, AssembleQuiet

\* A task returns with what it came for: it has sent, read or peeked.
LEMMA ReturnGood ==
    ASSUME QueueInv, UNCHANGED use, NEW t \in Tasks, Send(t) \/ Receive(t) \/ Peek(t)
    PROVE  Good
<1>1. At(t, "try", "idle") /\ UNCHANGED <<locks, holder>>
  BY DEF Send, Receive, Peek, PeekWaking
<1>2. /\ Runs(t) /\ call[t].pc = "try" /\ call' \in Calls'
      /\ \A u \in Tasks \ {t} : call'[u] = call[u]
      /\ call'[t].pc = "idle" /\ call'[t].op = "none"
  BY <1>1, AtStep DEF QueueInv
<1>3. holder = Nothing /\ state[t] = "ready"
  BY <1>2, Running DEF Suspended
<1>4. Shrunk
  BY WokenReceivers, WokenSenders DEF QueueInv, Send, Receive, Peek, PeekWaking
<1>5. TasksInv'
  <2>1. /\ ~Sending(t)' /\ call'[t].op # "overwrite" /\ call'[t].pc \notin Suspended
        /\ call'[t].pc # "suspend"
    BY <1>2 DEF Sending, Suspended
  <2>2. state'[t] # "blocked"
    BY <1>3, <1>4 DEF Shrunk
  <2>3. QED
    BY <1>1, <1>2, <1>3, <1>4, <2>1, <2>2, Outside
<1>6. Length' = Length
  BY DEF Length
<1>7. CASE Send(t)
  <2>1. call[t].op \in {"back", "front", "overwrite"} /\ call[t].item \in Items
    BY <1>7 DEF Send, Sending, QueueInv, CallsKnown
  <2>2. call[t].op = "overwrite" => Length = 1
    BY DEF QueueInv, CallsKnown
  <2>3. /\ HasRoom(call[t].op) /\ prvCopyDataToQueue(call[t].item, call[t].op)
        /\ UNCHANGED taken
    BY <1>7 DEF Send
  <2>4. RingInv' /\ \E i \in Items : Box!Post(i) \/ Box!PostFront(i) \/ Box!Overwrite(i)
    BY <2>1, <2>2, <2>3, CopyIn DEF QueueInv
  <2>5. Box!Next
    BY <1>6, <2>4 DEF Box!Next
  <2>6. QED
    BY <1>5, <2>4, <2>5, Assemble
<1>8. CASE Receive(t)
  <2>1. RingInv' /\ Box!Fetch
    BY <1>8, CopyOut DEF Receive, QueueInv
  <2>2. QED
    BY <1>5, <1>6, <2>1, Assemble DEF Box!Next
<1>9. CASE Peek(t)
  <2>1. /\ taken' = storage[Up(pcReadFrom)] /\ uxMessagesWaiting > 0
        /\ UNCHANGED <<storage, pcWriteTo, pcReadFrom, uxMessagesWaiting>>
    BY <1>9 DEF Peek, PeekWaking, ring
  <2>2. Box!Peek /\ taken' \in Items \union {Nothing}
    BY <2>1, PeekAt DEF QueueInv
  <2>3. RingInv'
    BY <1>6, <2>1, <2>2 DEF QueueInv, TypeOK, RingTypeOK, RingKnown, RingInv
  <2>4. QED
    BY <1>5, <1>6, <2>2, <2>3, Assemble DEF Box!Next
<1>10. QED
  BY <1>7, <1>8, <1>9

LEMMA ResetGood ==
    ASSUME QueueInv, UNCHANGED use, NEW t \in Tasks, Reset(t)
    PROVE  Good
<1>1. /\ At(t, "idle", "idle") /\ WakeSenders(1)
      /\ uxMessagesWaiting' = 0 /\ pcWriteTo' = 0 /\ pcReadFrom' = Length - 1
      /\ cRxLock' = queueUNLOCKED /\ cTxLock' = queueUNLOCKED
      /\ UNCHANGED <<storage, holder, taken>>
  BY DEF Reset
<1>2. /\ Runs(t) /\ call[t].pc = "idle" /\ call' \in Calls'
      /\ \A u \in Tasks \ {t} : call'[u] = call[u]
      /\ call'[t].pc = "idle" /\ call'[t].op = "none"
  BY <1>1, AtStep DEF QueueInv
<1>3. holder = Nothing /\ state[t] = "ready"
  BY <1>2, Running DEF Suspended
<1>4. Shrunk
  BY <1>1, WokenSenders DEF QueueInv
<1>5. TasksInv'
  <2>1. /\ ~Sending(t)' /\ call'[t].op # "overwrite" /\ call'[t].pc \notin Suspended
        /\ call'[t].pc # "suspend"
    BY <1>2 DEF Sending, Suspended
  <2>2. state'[t] # "blocked"
    BY <1>3, <1>4 DEF Shrunk
  <2>3. UNCHANGED locks
    BY <1>1, <1>3 DEF QueueInv, HolderKnown, locks
  <2>4. QED
    BY <1>1, <1>2, <1>3, <1>4, <2>1, <2>2, <2>3, Outside
<1>6. Length' = Length /\ Length \in Nat \ {0}
  BY Given DEF Length, QueueInv
<1>7. RingInv'
  <2>1. (Length - 1 + 0 + 1) % Length = 0
    <3>1. PICK n \in Nat \ {0} : n = Length
      BY <1>6
    <3>2. n \in 0 .. 2 * n /\ n % n = 0
      BY Around
    <3>3. n - 1 + 0 + 1 = n
      OBVIOUS
    <3>4. QED
      BY <3>1, <3>2, <3>3
  <2>2. RingTypeOK'
    BY <1>1, <1>6 DEF QueueInv, TypeOK, RingTypeOK
  <2>3. RingKnown'
    BY <1>1, <1>6, <2>1 DEF RingKnown
  <2>4. QED
    BY <2>2, <2>3 DEF RingInv
<1>8. Box!Reset
  <2>1. Contents' = [i \in 1 .. 0 |-> storage'[(pcReadFrom' + i) % Length']]
    BY <1>1 DEF Contents
  <2>2. QED
    BY <1>1, <2>1 DEF Box!Reset
<1>9. QED
  BY <1>5, <1>6, <1>7, <1>8, Assemble DEF Box!Next

LEMMA SuspendGood ==
    ASSUME QueueInv, UNCHANGED use, NEW t \in Tasks, SuspendAll(t)
    PROVE  Good
<1>1. /\ At(t, "suspend", "lock") /\ holder' = t
      /\ UNCHANGED <<ring, locks, lists, state, taken>>
  BY DEF SuspendAll
<1>2. /\ Runs(t) /\ call[t].pc = "suspend" /\ call' \in Calls'
      /\ \A u \in Tasks \ {t} : call'[u] = call[u]
      /\ call'[t].pc = "lock" /\ call'[t].op = call[t].op
      /\ call'[t].item = call[t].item /\ call'[t].wait = call[t].wait
  BY <1>1, AtStep DEF QueueInv
<1>3. holder = Nothing /\ state[t] = "ready" /\ holder' # Nothing
  BY <1>1, <1>2, Running, Given DEF Suspended, QueueInv
<1>4. Shrunk
  BY <1>1, Untouched DEF QueueInv
<1>5. TasksTypeOK'
  BY <1>1, <1>2, <1>4 DEF QueueInv, TypeOK, TasksTypeOK, Calls, Shrunk, locks, NumberOfTasks
<1>6. Length' = Length /\ \A u \in Tasks : Sending(u)' <=> Sending(u)
  BY <1>2 DEF Length, Sending
<1>7. ListsKnown'
  BY <1>4, <1>6, ListsStep DEF QueueInv
<1>8. HolderKnown'
  <2>1. \A u \in Tasks \ {t} : call'[u].pc \notin Suspended /\ holder' # u
    BY <1>1, <1>2, <1>3, Given DEF QueueInv, HolderKnown
  <2>2. cTxLock' = queueUNLOCKED /\ cRxLock' = queueUNLOCKED
    BY <1>1, <1>3 DEF QueueInv, HolderKnown, locks
  <2>3. QED
    BY <1>1, <1>2, <1>3, <2>1, <2>2 DEF HolderKnown, Suspended
<1>9. CallsKnown'
  <2>1. ASSUME NEW u \in Tasks
        PROVE  /\ call'[u].op = call[u].op /\ call'[u].item = call[u].item
               /\ call'[u].wait = call[u].wait /\ state'[u] = state[u]
               /\ u # t => call'[u].pc = call[u].pc
    BY <1>1, <1>2
  <2>2. call[t].wait \in {"finite", "expired", "forever"}
    BY <1>2 DEF QueueInv, CallsKnown
  <2>3. QED
    BY <1>2, <1>3, <1>6, <2>1, <2>2 DEF QueueInv, CallsKnown, Suspended
<1>10. QED
  BY <1>1, <1>5, <1>7, <1>8, <1>9, AssembleQuiet DEF TasksInv

\* The steps between vTaskSuspendAll and xTaskResumeAll.
LEMMA SuspendedGood ==
    ASSUME QueueInv, UNCHANGED use, NEW t \in Tasks,
           LockQueue(t) \/ CheckForTimeOut(t) \/ Test(t) \/ prvUnlockQueue(t)
    PROVE  Good
<1>1. PICK from \in {"lock", "check", "test", "unlockTx", "unlockRx"},
           to \in {"check", "test", "place", "unlockTx", "unlockRx", "resume"} :
        /\ At(t, from, to) /\ UNCHANGED <<ring, holder, taken>>
        /\ \/ /\ from = "lock" /\ to = "check" /\ UNCHANGED <<lists, state>>
              /\ cRxLock' = IF cRxLock = queueUNLOCKED THEN queueLOCKED_UNMODIFIED
                            ELSE cRxLock
              /\ cTxLock' = IF cTxLock = queueUNLOCKED THEN queueLOCKED_UNMODIFIED
                            ELSE cTxLock
           \/ /\ from = "check" /\ to \in {"unlockTx", "test"}
              /\ to = "test" => call[t].wait # "expired"
              /\ UNCHANGED <<lists, state, locks>>
           \/ /\ from = "test" /\ to \in {"unlockTx", "place"}
              /\ UNCHANGED <<lists, state, locks>>
           \/ /\ from = "unlockTx" /\ to = "unlockRx" /\ WakeReceivers(cTxLock)
              /\ cTxLock' = queueUNLOCKED /\ UNCHANGED cRxLock
           \/ /\ from = "unlockRx" /\ to = "resume" /\ WakeSenders(cRxLock)
              /\ cRxLock' = queueUNLOCKED /\ UNCHANGED cTxLock
  <2>1. CASE LockQueue(t)
    <3>1. At(t, "lock", "check")
      BY <2>1 DEF LockQueue
    <3>2. QED
      BY <2>1, <3>1 DEF LockQueue, kernel
  <2>2. CASE CheckForTimeOut(t)
    <3>1. At(t, "check", IF call[t].wait = "expired" THEN "unlockTx" ELSE "test")
      BY <2>2 DEF CheckForTimeOut
    <3>2. UNCHANGED <<ring, locks, lists, holder, state, taken>>
      BY <2>2 DEF CheckForTimeOut, kernel
    <3>3. CASE call[t].wait = "expired"
      <4>1. At(t, "check", "unlockTx")
        BY <3>1, <3>3
      <4>2. QED
        BY <3>2, <4>1
    <3>4. CASE call[t].wait # "expired"
      <4>1. At(t, "check", "test")
        BY <3>1, <3>4
      <4>2. QED
        BY <3>2, <3>4, <4>1
    <3>5. QED
      BY <3>3, <3>4
  <2>3. CASE Test(t)
    <3>1. At(t, "test", "place") \/ At(t, "test", "unlockTx")
      <4> DEFINE none == IF Sending(t) THEN uxMessagesWaiting = Length
                                       ELSE uxMessagesWaiting = 0
      <4>1. At(t, "test", IF none THEN "place" ELSE "unlockTx")
        BY <2>3 DEF Test
      <4> HIDE DEF none
      <4>2. CASE none
        BY <4>1, <4>2
      <4>3. CASE ~none
        BY <4>1, <4>3
      <4>4. QED
        BY <4>2, <4>3
    <3>2. UNCHANGED <<ring, locks, lists, holder, state, taken>>
      BY <2>3 DEF Test, kernel
    <3>3. QED
      BY <3>1, <3>2
  <2>4. CASE UnlockTx(t, cTxLock)
    <3>1. At(t, "unlockTx", "unlockRx")
      BY <2>4 DEF UnlockTx
    <3>2. QED
      BY <2>4, <3>1 DEF UnlockTx
  <2>5. CASE UnlockRx(t, cRxLock)
    <3>1. At(t, "unlockRx", "resume")
      BY <2>5 DEF UnlockRx
    <3>2. QED
      BY <2>5, <3>1 DEF UnlockRx
  <2>6. QED
    BY <2>1, <2>2, <2>3, <2>4, <2>5 DEF prvUnlockQueue
<1>2. /\ Runs(t) /\ call[t].pc = from /\ call' \in Calls'
      /\ \A u \in Tasks \ {t} : call'[u] = call[u]
      /\ call'[t].pc = to /\ call'[t].op = call[t].op
      /\ call'[t].item = call[t].item /\ call'[t].wait = call[t].wait
  BY <1>1, AtStep DEF QueueInv
<1>3. call[t].pc \in Suspended /\ call'[t].pc \in Suspended
  BY <1>1, <1>2 DEF Suspended
<1>4. holder = t
  BY <1>2, <1>3, Running
<1>5. /\ from \in {"check", "test", "unlockTx"} => cTxLock >= 0 /\ cRxLock >= 0
      /\ from = "unlockRx" => cTxLock = queueUNLOCKED /\ cRxLock >= 0
      /\ from = "lock" => cTxLock = queueUNLOCKED /\ cRxLock = queueUNLOCKED
      /\ from = "test" => call[t].wait # "expired"
      /\ from \in {"lock", "check", "test"} => state[t] # "blocked"
      /\ cTxLock \in queueUNLOCKED .. NumberOfTasks
      /\ cRxLock \in queueUNLOCKED .. NumberOfTasks
      /\ NumberOfTasks \in Nat \ {0}
  BY <1>2, Given DEF QueueInv, HolderKnown, CallsKnown, TypeOK, TasksTypeOK
<1>6. Shrunk
  <2>1. CASE from \in {"lock", "check", "test"}
    BY <1>1, <2>1, Untouched DEF QueueInv
  <2>2. CASE from = "unlockTx"
    <3>1. cTxLock \in Nat
      BY <1>5, <2>2 DEF queueUNLOCKED
    <3>2. QED
      BY <1>1, <2>2, <3>1, WokenReceivers DEF QueueInv
  <2>3. CASE from = "unlockRx"
    <3>1. cRxLock \in Nat
      BY <1>5, <2>3 DEF queueUNLOCKED
    <3>2. QED
      BY <1>1, <2>3, <3>1, WokenSenders DEF QueueInv
  <2>4. QED
    BY <2>1, <2>2, <2>3
<1>7. /\ cTxLock' \in queueUNLOCKED .. NumberOfTasks
      /\ cRxLock' \in queueUNLOCKED .. NumberOfTasks
      /\ to \in {"check", "test", "place", "unlockTx"} => cTxLock' >= 0 /\ cRxLock' >= 0
      /\ to = "unlockRx" => cTxLock' = queueUNLOCKED /\ cRxLock' >= 0
      /\ to = "resume" => cTxLock' = queueUNLOCKED /\ cRxLock' = queueUNLOCKED
  BY <1>1, <1>5 DEF locks, queueUNLOCKED, queueLOCKED_UNMODIFIED
<1>8. /\ to \in {"test", "place"} => call[t].wait # "expired"
      /\ state'[t] = "blocked" => to \in {"unlockTx", "unlockRx", "resume"}
  BY <1>1, <1>5, <1>6 DEF Shrunk
<1>9. TasksInv'
  BY <1>1, <1>2, <1>3, <1>4, <1>6, <1>7, <1>8, Inside
<1>10. QED
  BY <1>1, <1>9, AssembleQuiet

\* A task goes to sleep, on the list of its call.
LEMMA PlaceGood ==
    ASSUME QueueInv, UNCHANGED use, NEW t \in Tasks, PlaceOnEventList(t)
    PROVE  Good
<1>1. /\ At(t, "place", "unlockTx") /\ state' = [state EXCEPT ![t] = "blocked"]
      /\ UNCHANGED <<ring, locks, holder, taken>>
      /\ \/ /\ Sending(t) /\ UNCHANGED xTasksWaitingToReceive
            /\ xTasksWaitingToSend' = InsertByPriority(xTasksWaitingToSend, t)
         \/ /\ ~Sending(t) /\ UNCHANGED xTasksWaitingToSend
            /\ xTasksWaitingToReceive' = InsertByPriority(xTasksWaitingToReceive, t)
  BY DEF PlaceOnEventList
<1>2. /\ Runs(t) /\ call[t].pc = "place" /\ call' \in Calls'
      /\ \A u \in Tasks \ {t} : call'[u] = call[u]
      /\ call'[t].pc = "unlockTx" /\ call'[t].op = call[t].op
      /\ call'[t].item = call[t].item /\ call'[t].wait = call[t].wait
  BY <1>1, AtStep DEF QueueInv
<1>3. /\ holder = t /\ holder # Nothing /\ state[t] # "blocked"
      /\ call[t].wait \in {"finite", "forever"}
      /\ state \in [Tasks -> {"ready", "pending", "blocked"}]
  BY <1>2, Running, Given DEF Suspended, QueueInv, CallsKnown, TypeOK, TasksTypeOK
<1>4. t \notin ToSet(xTasksWaitingToSend) /\ t \notin ToSet(xTasksWaitingToReceive)
  BY <1>3 DEF QueueInv, ListsKnown
<1>5. /\ xTasksWaitingToSend' \in Seq(Tasks) /\ xTasksWaitingToReceive' \in Seq(Tasks)
      /\ IsInjective(xTasksWaitingToSend)' /\ IsInjective(xTasksWaitingToReceive)'
      /\ Sending(t) => /\ ToSet(xTasksWaitingToSend)' = ToSet(xTasksWaitingToSend) \union {t}
                       /\ UNCHANGED xTasksWaitingToReceive
      /\ ~Sending(t) => /\ ToSet(xTasksWaitingToReceive)'
                             = ToSet(xTasksWaitingToReceive) \union {t}
                        /\ UNCHANGED xTasksWaitingToSend
  <2>1. /\ xTasksWaitingToSend \in Seq(Tasks) /\ xTasksWaitingToReceive \in Seq(Tasks)
        /\ IsInjective(xTasksWaitingToSend) /\ IsInjective(xTasksWaitingToReceive)
    BY DEF QueueInv, TypeOK, TasksTypeOK, ListsKnown
  <2>2. CASE Sending(t)
    BY <1>1, <1>4, <2>1, <2>2, InsertSound
  <2>3. CASE ~Sending(t)
    BY <1>1, <1>4, <2>1, <2>3, InsertSound
  <2>4. QED
    BY <2>2, <2>3
<1>6. TasksTypeOK'
  <2>1. state' \in [Tasks -> {"ready", "pending", "blocked"}]
    BY <1>1, <1>3
  <2>2. QED
    BY <1>1, <1>2, <1>5, <2>1
       DEF QueueInv, TypeOK, TasksTypeOK, Calls, locks, NumberOfTasks
<1>7. Length' = Length /\ \A u \in Tasks : Sending(u)' <=> Sending(u)
  BY <1>2 DEF Length, Sending
<1>8. state'[t] = "blocked" /\ \A u \in Tasks \ {t} : state'[u] = state[u]
  BY <1>1, <1>3
<1>9. ListsKnown'
  <2>1. ASSUME NEW u \in Tasks
        PROVE  /\ (state'[u] = "blocked") <=>
                    (u \in ToSet(IF Sending(u) THEN xTasksWaitingToSend'
                                               ELSE xTasksWaitingToReceive'))
               /\ u \notin ToSet(IF Sending(u) THEN xTasksWaitingToReceive'
                                               ELSE xTasksWaitingToSend')
    <3>1. CASE u = t
      BY <1>4, <1>5, <1>8, <3>1
    <3>2. CASE u # t
      <4>1. /\ u \in ToSet(xTasksWaitingToSend') <=> u \in ToSet(xTasksWaitingToSend)
            /\ u \in ToSet(xTasksWaitingToReceive') <=> u \in ToSet(xTasksWaitingToReceive)
        BY <1>5, <3>2
      <4>2. QED
        BY <1>8, <3>2, <4>1 DEF QueueInv, ListsKnown
    <3>3. QED
      BY <3>1, <3>2
  <2>2. QED
    BY <1>5, <1>7, <2>1 DEF ListsKnown
<1>10. HolderKnown'
  <2>1. \A u \in Tasks \ {t} : call'[u].pc \notin Suspended /\ holder' # u
    BY <1>1, <1>2, <1>3 DEF QueueInv, HolderKnown
  <2>2. cTxLock' >= 0 /\ cRxLock' >= 0
    BY <1>1, <1>2 DEF QueueInv, HolderKnown, locks
  <2>3. QED
    BY <1>1, <1>2, <1>3, <2>1, <2>2 DEF HolderKnown, Suspended
<1>11. CallsKnown'
  <2>1. ASSUME NEW u \in Tasks \ {t}
        PROVE  call'[u] = call[u] /\ state'[u] = state[u] /\ (Sending(u)' <=> Sending(u))
    BY <1>2, <1>7, <1>8
  <2>2. /\ Sending(t) => call[t].item \in Items
        /\ call[t].op = "overwrite" => Length = 1
    BY DEF QueueInv, CallsKnown
  <2>3. QED
    BY <1>2, <1>3, <1>7, <2>1, <2>2 DEF QueueInv, CallsKnown, Suspended
<1>12. QED
  BY <1>1, <1>6, <1>9, <1>10, <1>11, AssembleQuiet DEF TasksInv

\* The scheduler goes on, and with it the tasks that were woken meanwhile.
LEMMA ResumeGood ==
    ASSUME QueueInv, UNCHANGED use, NEW t \in Tasks, ResumeAll(t)
    PROVE  Good
<1>1. PICK to \in {"try", "idle", "last"} :
        /\ At(t, "resume", to) /\ holder' = Nothing
        /\ state' = [u \in Tasks |-> IF state[u] = "pending" THEN "ready" ELSE state[u]]
        /\ to # "try" => call[t].wait = "expired"
        /\ UNCHANGED <<ring, locks, lists, taken>>
  <2>1. CASE call[t].wait # "expired"
    BY <2>1 DEF ResumeAll
  <2>2. CASE call[t].wait = "expired" /\ Sending(t)
    BY <2>2 DEF ResumeAll
  <2>3. CASE call[t].wait = "expired" /\ ~Sending(t)
    BY <2>3 DEF ResumeAll
  <2>4. QED
    BY <2>1, <2>2, <2>3
<1>2. /\ Runs(t) /\ call[t].pc = "resume" /\ call' \in Calls'
      /\ \A u \in Tasks \ {t} : call'[u] = call[u]
      /\ call'[t].pc = to
      /\ to # "idle" => /\ call'[t].op = call[t].op /\ call'[t].item = call[t].item
                        /\ call'[t].wait = call[t].wait
      /\ to = "idle" => call'[t].op = "none"
  BY <1>1, AtStep DEF QueueInv
<1>3. /\ holder = t /\ state \in [Tasks -> {"ready", "pending", "blocked"}]
      /\ to # "try" => state[t] # "blocked"
  BY <1>1, <1>2, Running DEF Suspended, QueueInv, CallsKnown, TypeOK, TasksTypeOK
<1>4. /\ state' \in [Tasks -> {"ready", "pending", "blocked"}]
      /\ \A u \in Tasks : /\ state'[u] # "pending"
                          /\ (state'[u] = "blocked") <=> (state[u] = "blocked")
  BY <1>1, <1>3
<1>5. Shrunk
  <2>1. \A u \in Tasks : state[u] = "ready" => state'[u] = "ready"
    BY <1>1
  <2>2. QED
    BY <1>1, <1>4, <2>1 DEF QueueInv, TypeOK, TasksTypeOK, ListsKnown, Shrunk, lists
<1>6. TasksTypeOK'
  BY <1>1, <1>2, <1>5 DEF QueueInv, TypeOK, TasksTypeOK, Calls, Shrunk, locks, NumberOfTasks
<1>7. Length' = Length /\ \A u \in Tasks : state'[u] = "blocked" => (Sending(u)' <=> Sending(u))
  <2>1. \A u \in Tasks : state'[u] = "blocked" => call'[u].op = call[u].op
    BY <1>1, <1>2, <1>3, <1>4
  <2>2. QED
    BY <2>1 DEF Length, Sending
<1>8. ListsKnown'
  BY <1>5, <1>7, ListsStep DEF QueueInv
<1>9. HolderKnown'
  <2>1. \A u \in Tasks : call'[u].pc \notin Suspended /\ holder' # u
    BY <1>1, <1>2, <1>3, Given DEF QueueInv, HolderKnown, Suspended
  <2>2. cTxLock' = queueUNLOCKED /\ cRxLock' = queueUNLOCKED
    BY <1>1, <1>2 DEF QueueInv, HolderKnown, locks
  <2>3. QED
    BY <1>4, <2>1, <2>2 DEF HolderKnown, Suspended
<1>10. CallsKnown'
  <2>1. ASSUME NEW u \in Tasks \ {t}
        PROVE  /\ call'[u] = call[u] /\ (Sending(u)' <=> Sending(u))
               /\ (state'[u] = "blocked") <=> (state[u] = "blocked")
    BY <1>2, <1>4 DEF Sending
  <2>2. /\ Sending(t)' => call'[t].item \in Items
        /\ call'[t].op = "overwrite" => Length = 1
    BY <1>2 DEF QueueInv, CallsKnown, Sending
  <2>3. state'[t] = "blocked" => /\ to = "try" /\ call'[t].wait \in {"finite", "forever"}
    BY <1>2, <1>3, <1>4 DEF QueueInv, CallsKnown
  <2>4. to \notin Suspended \union {"suspend"}
    BY DEF Suspended
  <2>5. QED
    BY <1>2, <1>7, <2>1, <2>2, <2>3, <2>4 DEF QueueInv, CallsKnown, Suspended
<1>11. QED
  BY <1>1, <1>6, <1>8, <1>9, <1>10, AssembleQuiet DEF TasksInv

\* The tick interrupt ends a wait.
LEMMA TimeGood ==
    ASSUME QueueInv, UNCHANGED use, NEW t \in Tasks, TimePasses(t)
    PROVE  Good
<1>1. /\ holder = Nothing /\ call[t].wait = "finite"
      /\ call' = [call EXCEPT ![t].wait = "expired"]
      /\ state' = [state EXCEPT ![t] = "ready"]
      /\ xTasksWaitingToSend' = RemoveFirst(xTasksWaitingToSend, t)
      /\ xTasksWaitingToReceive' = RemoveFirst(xTasksWaitingToReceive, t)
      /\ UNCHANGED <<ring, locks, holder, taken>>
  BY DEF TimePasses, Expire
<1>2. call \in Calls /\ UNCHANGED Calls
  BY DEF QueueInv, TypeOK, TasksTypeOK, Calls
<1>3. /\ call' \in Calls' /\ \A u \in Tasks \ {t} : call'[u] = call[u]
      /\ call'[t].pc = call[t].pc /\ call'[t].op = call[t].op
      /\ call'[t].item = call[t].item /\ call'[t].wait = "expired"
  BY <1>1, <1>2 DEF Calls
<1>4. Shrunk
  <2>1. /\ xTasksWaitingToSend \in Seq(Tasks) /\ xTasksWaitingToReceive \in Seq(Tasks)
        /\ IsInjective(xTasksWaitingToSend) /\ IsInjective(xTasksWaitingToReceive)
        /\ state \in [Tasks -> {"ready", "pending", "blocked"}]
    BY DEF QueueInv, TypeOK, TasksTypeOK, ListsKnown
  <2>2. /\ xTasksWaitingToSend' \in Seq(Tasks) /\ xTasksWaitingToReceive' \in Seq(Tasks)
        /\ IsInjective(xTasksWaitingToSend)' /\ IsInjective(xTasksWaitingToReceive)'
        /\ ToSet(xTasksWaitingToSend)' = ToSet(xTasksWaitingToSend) \ {t}
        /\ ToSet(xTasksWaitingToReceive)' = ToSet(xTasksWaitingToReceive) \ {t}
    BY <1>1, <2>1, RemoveSound
  <2>3. /\ state' \in [Tasks -> {"ready", "pending", "blocked"}] /\ state'[t] = "ready"
        /\ \A u \in Tasks \ {t} : state'[u] = state[u]
    BY <1>1, <2>1
  <2>4. \A u \in Tasks : /\ u \in ToSet(xTasksWaitingToSend) => state[u] = "blocked"
                         /\ u \in ToSet(xTasksWaitingToReceive) => state[u] = "blocked"
    BY DEF QueueInv, ListsKnown
  <2>5. QED
    BY <2>2, <2>3, <2>4 DEF Shrunk
<1>5. TasksInv'
  <2>1. Sending(t)' => call'[t].item \in Items
    BY <1>3 DEF Sending, QueueInv, CallsKnown
  <2>2. call'[t].op = "overwrite" => Length = 1
    BY <1>3 DEF QueueInv, CallsKnown
  <2>3. UNCHANGED <<use, holder, locks>> /\ state'[t] # "blocked"
    BY <1>1 DEF QueueInv, TypeOK, TasksTypeOK
  <2>4. call'[t].pc \notin Suspended
    BY <1>1, <1>3, Given DEF QueueInv, HolderKnown
  <2>5. QED
    BY <1>1, <1>3, <1>4, <2>1, <2>2, <2>3, <2>4, Outside
<1>6. QED
  BY <1>1, <1>5, AssembleQuiet

\* What an interrupt adds to a lock keeps it in range.
LEMMA Incremented ==
    ASSUME QueueInv, NEW lock \in queueUNLOCKED .. NumberOfTasks, lock # queueUNLOCKED
    PROVE  /\ lock >= 0 /\ Increment(lock) >= 0
           /\ Increment(lock) \in queueUNLOCKED .. NumberOfTasks
<1>1. NumberOfTasks \in Nat
  BY Given DEF QueueInv
<1>2. QED
  BY <1>1 DEF Increment, queueUNLOCKED

LEMMA SendISRGood ==
    ASSUME QueueInv, UNCHANGED use, NEW i \in use.items,
           NEW c \in use.interrupts \ {"receive"}, xQueueGenericSendFromISR(i, c)
    PROVE  Good
<1>1. /\ HasRoom(c) /\ prvCopyDataToQueue(i, c) /\ UNCHANGED <<cRxLock, holder, call, taken>>
      /\ \/ cTxLock = queueUNLOCKED /\ WakeReceivers(1) /\ UNCHANGED cTxLock
         \/ /\ cTxLock # queueUNLOCKED /\ cTxLock' = Increment(cTxLock)
            /\ UNCHANGED <<lists, state>>
  BY DEF xQueueGenericSendFromISR, SendFromISR
<1>2. /\ i \in Items /\ c \in {"back", "front", "overwrite"}
      /\ c = "overwrite" => Length = 1
  BY Given DEF QueueInv, Use
<1>3. RingInv' /\ \E j \in Items : Box!Post(j) \/ Box!PostFront(j) \/ Box!Overwrite(j)
  BY <1>1, <1>2, CopyIn DEF QueueInv
<1>4. Shrunk
  BY <1>1, WokenReceivers, Untouched DEF QueueInv
<1>5. TasksInv'
  <2>1. cTxLock \in queueUNLOCKED .. NumberOfTasks
    BY DEF QueueInv, TypeOK, TasksTypeOK
  <2>2. \/ UNCHANGED cTxLock
        \/ cTxLock >= 0 /\ cTxLock' >= 0 /\ cTxLock' \in queueUNLOCKED .. NumberOfTasks
    BY <1>1, <2>1, Incremented
  <2>3. QED
    BY <1>1, <1>4, <2>2, Interrupt
<1>6. Box!Next
  BY <1>3 DEF Box!Next, Length
<1>7. QED
  BY <1>3, <1>5, <1>6, Assemble

LEMMA ReceiveISRGood ==
    ASSUME QueueInv, UNCHANGED use, xQueueReceiveFromISR
    PROVE  Good
<1>1. /\ uxMessagesWaiting > 0 /\ prvCopyDataFromQueue /\ UNCHANGED <<cTxLock, holder, call>>
      /\ \/ cRxLock = queueUNLOCKED /\ WakeSenders(1) /\ UNCHANGED cRxLock
         \/ /\ cRxLock # queueUNLOCKED /\ cRxLock' = Increment(cRxLock)
            /\ UNCHANGED <<lists, state>>
  BY DEF xQueueReceiveFromISR
<1>2. RingInv' /\ Box!Fetch
  BY <1>1, CopyOut DEF QueueInv
<1>3. Shrunk
  BY <1>1, WokenSenders, Untouched DEF QueueInv
<1>4. TasksInv'
  <2>1. cRxLock \in queueUNLOCKED .. NumberOfTasks
    BY DEF QueueInv, TypeOK, TasksTypeOK
  <2>2. \/ UNCHANGED cRxLock
        \/ cRxLock >= 0 /\ cRxLock' >= 0 /\ cRxLock' \in queueUNLOCKED .. NumberOfTasks
    BY <1>1, <2>1, Incremented
  <2>3. QED
    BY <1>1, <1>3, <2>2, Interrupt
<1>5. Box!Next
  BY <1>2 DEF Box!Next, Length
<1>6. QED
  BY <1>2, <1>4, <1>5, Assemble

LEMMA StutterGood ==
    ASSUME QueueInv, UNCHANGED <<use, ring, locks, lists, kernel, call, taken>>
    PROVE  Good
<1>1. Shrunk
  BY Untouched DEF QueueInv, kernel
<1>2. TasksInv'
  BY <1>1, Interrupt DEF kernel, locks
<1>3. QED
  BY <1>2, AssembleQuiet

\* Every step.
LEMMA StepGood ==
    ASSUME QueueInv, [Next]_vars
    PROVE  Good
<1>1. CASE UNCHANGED vars
  BY <1>1, StutterGood DEF vars
<1>2. CASE Next
  <2>1. use.callers \subseteq Tasks /\ UNCHANGED use
    BY <1>2, Given DEF QueueInv, Use, Next
  <2>2. ASSUME NEW t \in use.callers,
               \/ \E c \in use.sends, i \in use.items, w \in use.waits : Call(t, c, i, w)
               \/ \E c \in use.reads, w \in use.waits : Call(t, c, Nothing, w)
        PROVE  Good
    BY <2>1, <2>2, CallGood
  <2>3. ASSUME NEW t \in use.callers, Advance(t)
        PROVE  Good
    <3>1. t \in Tasks
      BY <2>1
    <3>2. QED
      BY <2>1, <2>3, <3>1, ReturnGood, QuietGood, PrepareGood, SuspendGood,
         SuspendedGood, PlaceGood, ResumeGood DEF Advance
  <2>4. ASSUME NEW t \in use.callers, Reset(t) \/ TimePasses(t)
        PROVE  Good
    BY <2>1, <2>4, ResetGood, TimeGood
  <2>5. ASSUME NEW i \in use.items, NEW c \in use.interrupts \ {"receive"},
               xQueueGenericSendFromISR(i, c) \/ SendFromISRFails(c)
        PROVE  Good
    BY <2>1, <2>5, SendISRGood, StutterGood DEF SendFromISRFails
  <2>6. ASSUME xQueueReceiveFromISR
        PROVE  Good
    BY <2>1, <2>6, ReceiveISRGood
  <2>7. QED
    BY <1>2, <2>2, <2>3, <2>4, <2>5, <2>6 DEF Next
<1>3. QED
  BY <1>1, <1>2

-----------------------------------------------------------------------------

LEMMA InitGood == Init => QueueInv /\ Box!Init
<1> SUFFICES ASSUME Init
             PROVE  QueueInv /\ Box!Init
  OBVIOUS
<1>1. use \in Uses /\ use \in Use
  BY QueueAssumption DEF Init
<1>2. Length \in Nat \ {0}
  BY <1>1 DEF Length, Use
<1>3. NumberOfTasks \in Nat \ {0}
  BY QueueAssumption, FS_CardinalityType DEF NumberOfTasks
<1>4. RingTypeOK
  BY <1>2 DEF Init, RingTypeOK
<1>5. TasksTypeOK
  BY <1>3 DEF Init, TasksTypeOK, NoCall, queueUNLOCKED
<1>6. RingKnown
  <2>1. PICK n \in Nat \ {0} : n = Length
    BY <1>2
  <2>2. n \in 0 .. 2 * n /\ n % n = 0
    BY Around
  <2>3. n - 1 + 0 + 1 = n
    OBVIOUS
  <2>4. QED
    BY <2>1, <2>2, <2>3 DEF Init, RingKnown
<1>7. HolderKnown
  BY QueueAssumption DEF Init, HolderKnown, NoCall, Suspended
<1>8. CallsKnown
  BY DEF Init, CallsKnown, NoCall, Suspended, Sending
<1>9. ListsKnown
  BY DEF Init, ListsKnown, ToSet, IsInjective
<1>10. Box!Init
  <2>1. Contents = [i \in 1 .. 0 |-> storage[(pcReadFrom + i) % Length]]
    BY DEF Init, Contents
  <2>2. QED
    BY <1>2, <2>1 DEF Init, Box!Init
<1>11. QED
  BY <1>1, <1>4, <1>5, <1>6, <1>7, <1>8, <1>9, <1>10 DEF QueueInv, TypeOK

LEMMA QueueSound == Spec => []QueueInv
<1>1. Init => QueueInv
  BY InitGood
<1>2. QueueInv /\ [Next]_vars => QueueInv'
  BY StepGood DEF Good
<1>3. QED
  BY <1>1, <1>2, PTL DEF Spec

\* For any tasks, priorities, items and ways to use a queue, whoever interrupts whom:
\* tasks are on an event list exactly while they sleep, on the one their call is for
\* and once, and the queue is unlocked and nobody is pending when the scheduler runs.
THEOREM ListsSound == Spec => []ListsAgree
<1>1. QueueInv => ListsAgree
  BY DEF QueueInv, HolderKnown, ListsKnown, ListsAgree
<1>2. QED
  BY <1>1, QueueSound, PTL

\* For any of them, the queue is a mailbox: ring, indices and counter together, with
\* sends to both ends, overwriting, peeking and resets, lose, repeat and reorder
\* nothing.
THEOREM QueueIsMailbox == Spec => ImplementsMailbox
<1>1. Init => Box!Init
  BY InitGood
<1>2. QueueInv /\ [Next]_vars => [Box!Next]_(Box!vars)
  BY StepGood DEF Good
<1>3. QED
  BY <1>1, <1>2, QueueSound, PTL DEF Spec, ImplementsMailbox, Box!Spec

(* ---- wake-ups ---- *)

\* The tasks on their way to the queue: they will look at it, those that were woken
\* while the scheduler is suspended as soon as it goes on.
OnTheWay(kinds) ==
    {t \in Tasks :
       /\ state[t] # "blocked" /\ call[t].op \in kinds
       /\ \/ call[t].pc = "try"
          \/ call[t].pc \in {"unlockRx", "resume"} /\ state[t] = "pending"}

Readers == OnTheWay({"receive", "peek"})
Senders == OnTheWay(use.sends)

\* The wake-ups prvUnlockQueue will make up for.
Owed(lock) == IF lock = queueUNLOCKED THEN 0 ELSE lock

\* While tasks wait on a list for n items, or n places, as many are on their way or
\* owed a wake-up; a lock that has reached its limit stands for all of them.
Serves(list, ready, lock, n) ==
    list # << >> /\ lock < NumberOfTasks => Cardinality(ready) + Owed(lock) >= n

\* Every call is for something, a woken task goes on to look again, and what came
\* since a task found the queue full, or empty, and decided to sleep was counted.
CallersKnown ==
    \A t \in Tasks :
      /\ call[t].pc # "idle" => call[t].op # "none"
      /\ state[t] = "pending" => /\ call[t].pc \in {"try", "unlockRx", "resume"}
                                 /\ call[t].wait \in {"finite", "forever"}
      /\ call[t].pc = "place" =>
           /\ Sending(t) /\ cRxLock < NumberOfTasks
                => Owed(cRxLock) >= Length - uxMessagesWaiting
           /\ ~Sending(t) /\ cTxLock < NumberOfTasks
                => Owed(cTxLock) >= uxMessagesWaiting

ReadersServed == Serves(xTasksWaitingToReceive, Readers, cTxLock, uxMessagesWaiting)

SendersServed ==
    (use.resets => Length = 1) =>
      Serves(xTasksWaitingToSend, Senders, cRxLock, Length - uxMessagesWaiting)

WakeUpsKnown == CallersKnown /\ ReadersServed /\ SendersServed

\* Some of the tasks can be counted.
LEMMA Counted ==
    /\ IsFiniteSet(Tasks) /\ NumberOfTasks \in Nat \ {0}
    /\ \A A \in SUBSET Tasks : IsFiniteSet(A) /\ Cardinality(A) \in Nat
    /\ \A A \in SUBSET Tasks, B \in SUBSET Tasks :
         /\ A \subseteq B => Cardinality(A) <= Cardinality(B)
         /\ A \intersect B = {} =>
              Cardinality(A \union B) = Cardinality(A) + Cardinality(B)
    /\ \A A \in SUBSET Tasks, t \in Tasks : Cardinality(A \ {t}) >= Cardinality(A) - 1
<1>1. IsFiniteSet(Tasks) /\ Cardinality(Tasks) \in Nat
  BY QueueAssumption, FS_CardinalityType
<1>2. ASSUME NEW A \in SUBSET Tasks
      PROVE  IsFiniteSet(A) /\ Cardinality(A) \in Nat
  BY <1>1, <1>2, FS_Subset, FS_CardinalityType
<1>3. ASSUME NEW A \in SUBSET Tasks, NEW B \in SUBSET Tasks, A \subseteq B
      PROVE  Cardinality(A) <= Cardinality(B)
  BY <1>2, <1>3, FS_Subset
<1>4. ASSUME NEW A \in SUBSET Tasks, NEW B \in SUBSET Tasks, A \intersect B = {}
      PROVE  Cardinality(A \union B) = Cardinality(A) + Cardinality(B)
  <2>1. /\ IsFiniteSet(A) /\ IsFiniteSet(B)
        /\ Cardinality(A) \in Nat /\ Cardinality(B) \in Nat
    BY <1>2
  <2>2. Cardinality(A \intersect B) = 0
    BY <1>4, FS_EmptySet
  <2>3. Cardinality(A \union B)
          = Cardinality(A) + Cardinality(B) - Cardinality(A \intersect B)
    BY <2>1, FS_Union
  <2>4. QED
    BY <2>1, <2>2, <2>3
<1>5. ASSUME NEW A \in SUBSET Tasks, NEW t \in Tasks
      PROVE  Cardinality(A \ {t}) >= Cardinality(A) - 1
  <2>1. IsFiniteSet(A) /\ Cardinality(A) \in Nat
    BY <1>2
  <2>2. Cardinality(A \ {t}) = IF t \in A THEN Cardinality(A) - 1 ELSE Cardinality(A)
    BY <2>1, FS_RemoveElement
  <2>3. QED
    BY <2>1, <2>2
<1>6. QED
  BY <1>1, <1>2, <1>3, <1>4, <1>5 DEF NumberOfTasks

Lock == queueUNLOCKED .. NumberOfTasks

\* Nobody fewer on the way, and no more to come for than was counted.
LEMMA StillServed ==
    ASSUME NEW list, NEW list2, NEW A \in SUBSET Tasks, NEW B \in SUBSET Tasks,
           A \subseteq B, NEW lock \in Lock, NEW lock2 \in Lock, NEW n \in Int,
           NEW n2 \in Int, Serves(list, A, lock, n), list2 # << >> => list # << >>,
           lock2 < NumberOfTasks =>
             lock < NumberOfTasks /\ Owed(lock2) - Owed(lock) >= n2 - n
    PROVE  Serves(list2, B, lock2, n2)
<1>1. Cardinality(A) \in Nat /\ Cardinality(B) \in Nat /\ Cardinality(A) <= Cardinality(B)
  BY Counted
<1>2. Owed(lock) \in Int /\ Owed(lock2) \in Int
  BY Counted DEF Owed, Lock, queueUNLOCKED
<1>3. QED
  BY <1>1, <1>2 DEF Serves

\* One task comes for one item, or place.
LEMMA OneCame ==
    ASSUME NEW list, NEW A \in SUBSET Tasks, NEW B \in SUBSET Tasks, NEW t \in Tasks,
           A \ {t} \subseteq B, NEW lock \in Lock, NEW n \in Int, NEW n2 \in Int,
           n2 <= n - 1, Serves(list, A, lock, n)
    PROVE  Serves(list, B, lock, n2) /\ Serves(list, A \ {t}, lock, n - 1)
<1>1. /\ Cardinality(A) \in Nat /\ Cardinality(A \ {t}) \in Nat /\ Cardinality(B) \in Nat
      /\ Cardinality(A \ {t}) >= Cardinality(A) - 1
      /\ Cardinality(A \ {t}) <= Cardinality(B)
  <2>1. A \ {t} \in SUBSET Tasks
    OBVIOUS
  <2>2. QED
    BY <2>1, Counted
<1>2. Owed(lock) \in Int
  BY Counted DEF Owed, Lock, queueUNLOCKED
<1>3. QED
  BY <1>1, <1>2 DEF Serves

FirstOf(list, k) == ToSet(SubSeq(list, 1, IF k < Len(list) THEN k ELSE Len(list)))

\* The first k on a list are woken; who is left there is one more than k at least.
LEMMA WokenServed ==
    ASSUME NEW list \in Seq(Tasks), IsInjective(list), NEW k \in Nat,
           NEW A \in SUBSET Tasks, NEW B \in SUBSET Tasks,
           A \union FirstOf(list, k) \subseteq B, A \intersect FirstOf(list, k) = {},
           NEW lock \in Lock, NEW lock2 \in Lock, NEW n \in Int, NEW n2 \in Int,
           Serves(list, A, lock, n), lock \in {k, queueUNLOCKED},
           k + Owed(lock2) - Owed(lock) >= n2 - n
    PROVE  Serves(SubSeq(list, k + 1, Len(list)), B, lock2, n2)
<1> DEFINE rest == SubSeq(list, k + 1, Len(list))
<1>1. SUFFICES ASSUME rest # << >>
               PROVE  Cardinality(B) + Owed(lock2) >= n2
  BY DEF Serves
<1>2. Len(list) \in Nat /\ \A i \in 1 .. Len(list) : list[i] \in Tasks
  BY Indices
<1>3. k < Len(list)
  <2>1. ASSUME k >= Len(list)
        PROVE  FALSE
    <3>1. k + 1 \in Int /\ Len(list) \in Int /\ \A i \in k + 1 .. Len(list) : list[i] \in Tasks
      BY <1>2
    <3>2. rest \in Seq(Tasks) /\ Len(rest) = IF k + 1 <= Len(list) THEN Len(list) - (k + 1) + 1 ELSE 0
      BY <3>1, SubSeqProperties
    <3>3. Len(rest) = 0
      BY <1>2, <2>1, <3>2
    <3> HIDE DEF rest
    <3>4. rest = << >>
      BY <3>2, <3>3, EmptySeq
    <3>5. QED
      BY <1>1, <3>4
  <2>2. QED
    BY <1>2, <2>1
<1>4. FirstOf(list, k) = ToSet(SubSeq(list, 1, k))
  BY <1>3 DEF FirstOf
<1>5. Cardinality(FirstOf(list, k)) = k /\ k < Cardinality(Tasks)
  BY <1>3, <1>4, Counted, FirstCount
<1>6. Cardinality(B) >= Cardinality(A) + k /\ Cardinality(A) \in Nat /\ Cardinality(B) \in Nat
  <2>1. FirstOf(list, k) \in SUBSET Tasks /\ A \union FirstOf(list, k) \in SUBSET Tasks
    OBVIOUS
  <2>2. /\ Cardinality(A \union FirstOf(list, k)) = Cardinality(A) + Cardinality(FirstOf(list, k))
        /\ Cardinality(A \union FirstOf(list, k)) <= Cardinality(B)
        /\ Cardinality(A) \in Nat /\ Cardinality(B) \in Nat
        /\ Cardinality(A \union FirstOf(list, k)) \in Nat
    BY <2>1, Counted
  <2>3. QED
    BY <1>5, <2>2
<1>7. lock < NumberOfTasks /\ list # << >>
  BY <1>2, <1>3, <1>5, Counted DEF NumberOfTasks, queueUNLOCKED
<1>8. Cardinality(A) + Owed(lock) >= n
  BY <1>7 DEF Serves
<1>9. Owed(lock) \in Int /\ Owed(lock2) \in Int
  BY Counted DEF Owed, Lock, queueUNLOCKED
<1>10. QED
  BY <1>6, <1>8, <1>9

\* The queue's counts and the sets of tasks, before a step and after it.
LEMMA Kit ==
    ASSUME QueueInv, QueueInv', UNCHANGED use
    PROVE  /\ Readers \in SUBSET Tasks /\ Readers' \in SUBSET Tasks
           /\ Senders \in SUBSET Tasks /\ Senders' \in SUBSET Tasks
           /\ cTxLock \in Lock /\ cTxLock' \in Lock /\ cRxLock \in Lock /\ cRxLock' \in Lock
           /\ uxMessagesWaiting \in 0 .. Length /\ uxMessagesWaiting' \in 0 .. Length
           /\ Length \in Nat \ {0} /\ Length' = Length
           /\ xTasksWaitingToReceive \in Seq(Tasks) /\ IsInjective(xTasksWaitingToReceive)
           /\ xTasksWaitingToSend \in Seq(Tasks) /\ IsInjective(xTasksWaitingToSend)
<1>1. Length \in Nat \ {0} /\ Length' = Length
  BY Given DEF QueueInv, Length
<1>2. Readers \in SUBSET Tasks /\ Senders \in SUBSET Tasks
  BY DEF Readers, Senders, OnTheWay
<1>3. Readers' \in SUBSET Tasks /\ Senders' \in SUBSET Tasks
  BY DEF Readers, Senders, OnTheWay
<1>4. cTxLock \in Lock /\ cTxLock' \in Lock /\ cRxLock \in Lock /\ cRxLock' \in Lock
  BY DEF QueueInv, TypeOK, TasksTypeOK, Lock, NumberOfTasks
<1>5. uxMessagesWaiting \in 0 .. Length /\ uxMessagesWaiting' \in 0 .. Length
  BY <1>1 DEF QueueInv, TypeOK, RingTypeOK
<1>6. QED
  BY <1>1, <1>2, <1>3, <1>4, <1>5 DEF QueueInv, TypeOK, TasksTypeOK, ListsKnown

\* A step of one task, or for one, leaves the others on their way.
LEMMA OthersOnTheWay ==
    ASSUME QueueInv, UNCHANGED use, NEW t \in Tasks, holder \in {Nothing, t},
           \A u \in Tasks \ {t} : /\ call'[u] = call[u]
                                  /\ state'[u] = "blocked" => state[u] = "blocked"
    PROVE  Readers \ {t} \subseteq Readers' /\ Senders \ {t} \subseteq Senders'
<1>1. ASSUME NEW kinds, NEW u \in OnTheWay(kinds) \ {t}
      PROVE  /\ u \in Tasks \ {t} /\ call'[u].pc = "try" /\ call'[u].op \in kinds
             /\ state'[u] # "blocked"
  <2>1. u \in Tasks \ {t} /\ state[u] # "blocked" /\ call[u].op \in kinds
    BY DEF OnTheWay
  <2>2. call[u].pc \notin Suspended
    BY <2>1, Given DEF QueueInv, HolderKnown
  <2>3. call[u].pc = "try"
    BY <2>2 DEF OnTheWay, Suspended
  <2>4. QED
    BY <2>1, <2>3
<1>2. ASSUME NEW u \in Readers \ {t}
      PROVE  u \in Readers'
  BY <1>1, <1>2 DEF Readers, OnTheWay
<1>3. ASSUME NEW u \in Senders \ {t}
      PROVE  u \in Senders'
  BY <1>1, <1>3 DEF Senders, OnTheWay
<1>4. QED
  BY <1>2, <1>3

\* It changes what is known of the callers only where it is.
LEMMA CallersStep ==
    ASSUME QueueInv, CallersKnown, UNCHANGED use, NEW t \in Tasks, holder \in {Nothing, t},
           \A u \in Tasks \ {t} : /\ call'[u] = call[u]
                                  /\ state'[u] = "pending" => state[u] # "ready",
           state \in [Tasks -> {"ready", "pending", "blocked"}],
           call'[t].pc # "idle" => call'[t].op # "none",
           state'[t] = "pending" => /\ call'[t].pc \in {"try", "unlockRx", "resume"}
                                    /\ call'[t].wait \in {"finite", "forever"},
           call'[t].pc = "place" =>
             /\ Sending(t)' /\ cRxLock' < NumberOfTasks
                  => Owed(cRxLock') >= Length - uxMessagesWaiting'
             /\ ~Sending(t)' /\ cTxLock' < NumberOfTasks
                  => Owed(cTxLock') >= uxMessagesWaiting'
    PROVE  CallersKnown'
<1>1. ASSUME NEW u \in Tasks \ {t}
      PROVE  /\ call'[u].pc # "idle" => call'[u].op # "none"
             /\ state'[u] = "pending" => /\ call'[u].pc \in {"try", "unlockRx", "resume"}
                                         /\ call'[u].wait \in {"finite", "forever"}
             /\ call'[u].pc # "place"
  <2>1. call[u].pc \notin Suspended
    BY Given DEF QueueInv, HolderKnown
  <2>2. state'[u] = "pending" => state[u] \in {"pending", "blocked"}
    OBVIOUS
  <2>3. state[u] = "blocked" => call[u].pc = "try" /\ call[u].wait \in {"finite", "forever"}
    BY <2>1 DEF QueueInv, CallsKnown, Suspended
  <2>4. QED
    BY <2>1, <2>2, <2>3 DEF CallersKnown, Suspended
<1>2. Length' = Length
  BY DEF Length
<1>3. QED
  BY <1>1, <1>2 DEF CallersKnown

\* Steps that wake nobody and change nothing in the queue: who leaves found it empty,
\* or full.
LEMMA MoveServed ==
    ASSUME QueueInv, QueueInv', WakeUpsKnown, UNCHANGED <<use, uxMessagesWaiting>>,
           xTasksWaitingToReceive' # << >> => xTasksWaitingToReceive # << >>,
           xTasksWaitingToSend' # << >> => xTasksWaitingToSend # << >>,
           Owed(cTxLock') = Owed(cTxLock), cTxLock' < NumberOfTasks => cTxLock < NumberOfTasks,
           Owed(cRxLock') = Owed(cRxLock), cRxLock' < NumberOfTasks => cRxLock < NumberOfTasks,
           Readers \subseteq Readers' \/ uxMessagesWaiting = 0,
           Senders \subseteq Senders' \/ uxMessagesWaiting = Length
    PROVE  ReadersServed' /\ SendersServed'
<1>1. ASSUME NEW list, NEW ready \in SUBSET Tasks, NEW lock \in Lock
      PROVE  Serves(list, ready, lock, 0)
  BY Counted DEF Serves, Owed, Lock, queueUNLOCKED
<1>2. Serves(xTasksWaitingToReceive', Readers', cTxLock', uxMessagesWaiting')
  <2>1. CASE uxMessagesWaiting = 0
    BY <1>1, <2>1, Kit
  <2>2. CASE Readers \subseteq Readers'
    <3>1. Owed(cTxLock') - Owed(cTxLock) >= uxMessagesWaiting' - uxMessagesWaiting
      BY Kit, Counted DEF Owed, Lock, queueUNLOCKED
    <3>2. uxMessagesWaiting \in Int /\ uxMessagesWaiting' \in Int
      BY Kit
    <3>3. QED
      BY <2>2, <3>1, <3>2, Kit, StillServed DEF WakeUpsKnown, ReadersServed
  <2>3. QED
    BY <2>1, <2>2
<1>3. ASSUME use.resets => Length = 1
      PROVE  Serves(xTasksWaitingToSend', Senders', cRxLock', Length - uxMessagesWaiting')
  <2>1. CASE uxMessagesWaiting = Length
    <3>1. Length - uxMessagesWaiting' = 0
      BY <2>1, Kit
    <3>2. QED
      BY <1>1, <3>1, Kit
  <2>2. CASE Senders \subseteq Senders'
    <3>1. /\ Length - uxMessagesWaiting \in Int /\ Length - uxMessagesWaiting' \in Int
          /\ Length - uxMessagesWaiting' = Length - uxMessagesWaiting
      BY Kit
    <3>2. Owed(cRxLock') \in Int /\ Owed(cRxLock) \in Int
      BY Kit, Counted DEF Owed, Lock, queueUNLOCKED
    <3>3. Owed(cRxLock') - Owed(cRxLock)
            >= (Length - uxMessagesWaiting') - (Length - uxMessagesWaiting)
      BY <3>1, <3>2
    <3>4. QED
      BY <1>3, <2>2, <3>1, <3>3, Kit, StillServed DEF WakeUpsKnown, SendersServed
  <2>3. QED
    BY <2>1, <2>2
<1>4. QED
  BY <1>2, <1>3, Kit DEF ReadersServed, SendersServed, Length

\* Where a sleeping task is in its call: the scheduler runs, or goes on, or is still
\* suspended by the task itself.
Sleeping(t) ==
    call'[t].op = call[t].op /\ \/ call'[t].pc = "try"
                                \/ holder # Nothing /\ call'[t].pc \in {"unlockRx", "resume"}

\* What the tasks on a list wait for.
LEMMA WaitsFor ==
    ASSUME QueueInv, CallersKnown, NEW t \in Tasks
    PROVE  /\ t \in ToSet(xTasksWaitingToReceive) =>
                state[t] = "blocked" /\ call[t].op \in {"receive", "peek"}
           /\ t \in ToSet(xTasksWaitingToSend) =>
                state[t] = "blocked" /\ call[t].op \in use.sends
<1>1. /\ call[t].op \in use.sends \union use.reads \union {"none"}
      /\ use.sends \subseteq {"back", "front", "overwrite"}
      /\ use.reads \subseteq {"receive", "peek"}
  BY Given DEF QueueInv, TypeOK, TasksTypeOK, Use
<1>2. /\ t \in ToSet(xTasksWaitingToReceive) => state[t] = "blocked" /\ ~Sending(t)
      /\ t \in ToSet(xTasksWaitingToSend) => state[t] = "blocked" /\ Sending(t)
  BY DEF QueueInv, ListsKnown
<1>3. state[t] = "blocked" => call[t].op # "none"
  BY DEF QueueInv, CallsKnown, CallersKnown
<1>4. QED
  BY <1>1, <1>2, <1>3 DEF Sending

\* Waking the first k tasks that wait for an item.
LEMMA ReadersWokenUp ==
    ASSUME QueueInv, QueueInv', CallersKnown, UNCHANGED use, NEW k \in Nat,
           WakeReceivers(k), NEW n \in Int, NEW A \in SUBSET Tasks, A \subseteq Readers,
           A \subseteq Readers', Serves(xTasksWaitingToReceive, A, cTxLock, n),
           \A t \in ToSet(xTasksWaitingToReceive) : Sleeping(t),
           cTxLock \in {k, queueUNLOCKED},
           k + Owed(cTxLock') - Owed(cTxLock) >= uxMessagesWaiting' - n
    PROVE  ReadersServed'
<1> DEFINE list == xTasksWaitingToReceive
           first == FirstOf(list, k)
<1>1. /\ list' = SubSeq(list, k + 1, Len(list))
      /\ state' = [t \in Tasks |-> IF t \notin first THEN state[t]
                                   ELSE IF holder = Nothing THEN "ready" ELSE "pending"]
  BY DEF WakeReceivers, Wake, FirstOf
<1>2. first \subseteq ToSet(list) /\ list \in Seq(Tasks) /\ IsInjective(list)
  BY Kit, DropSound DEF FirstOf
<1>3. ToSet(list) \subseteq Tasks
  BY <1>2, Indices
<1> HIDE DEF first, list
<1>4. ASSUME NEW t \in first
      PROVE  t \in Readers' /\ t \notin Readers
  <2>1. t \in Tasks /\ t \in ToSet(list)
    BY <1>2, <1>3
  <2>2. state[t] = "blocked" /\ call[t].op \in {"receive", "peek"} /\ Sleeping(t)
    BY <2>1, WaitsFor DEF list
  <2>3. state'[t] = IF holder = Nothing THEN "ready" ELSE "pending"
    BY <1>1, <2>1
  <2>4. QED
    BY <2>1, <2>2, <2>3 DEF Readers, OnTheWay, Sleeping
<1>5. A \union first \subseteq Readers' /\ A \intersect first = {}
  BY <1>4
<1>6. Serves(list', Readers', cTxLock', uxMessagesWaiting')
  <2>1. uxMessagesWaiting' \in Int
    BY Kit
  <2>2. Serves(SubSeq(list, k + 1, Len(list)), Readers', cTxLock', uxMessagesWaiting')
    BY <1>2, <1>5, <2>1, Kit, WokenServed DEF first, list
  <2>3. QED
    BY <1>1, <2>2
<1>7. QED
  BY <1>6 DEF ReadersServed, list

\* Waking the first k tasks that wait for a place.
LEMMA SendersWokenUp ==
    ASSUME QueueInv, QueueInv', CallersKnown, UNCHANGED use, NEW k \in Nat,
           WakeSenders(k), NEW n \in Int, NEW A \in SUBSET Tasks, A \subseteq Senders,
           A \subseteq Senders', (use.resets => Length = 1) =>
             /\ Serves(xTasksWaitingToSend, A, cRxLock, n)
             /\ k + Owed(cRxLock') - Owed(cRxLock) >= (Length - uxMessagesWaiting') - n,
           \A t \in ToSet(xTasksWaitingToSend) : Sleeping(t),
           cRxLock \in {k, queueUNLOCKED}
    PROVE  SendersServed'
<1> DEFINE list == xTasksWaitingToSend
           first == FirstOf(list, k)
<1>1. /\ list' = SubSeq(list, k + 1, Len(list))
      /\ state' = [t \in Tasks |-> IF t \notin first THEN state[t]
                                   ELSE IF holder = Nothing THEN "ready" ELSE "pending"]
  BY DEF WakeSenders, Wake, FirstOf
<1>2. first \subseteq ToSet(list) /\ list \in Seq(Tasks) /\ IsInjective(list)
  BY Kit, DropSound DEF FirstOf
<1>3. ToSet(list) \subseteq Tasks
  BY <1>2, Indices
<1> HIDE DEF first, list
<1>4. ASSUME NEW t \in first
      PROVE  t \in Senders' /\ t \notin Senders
  <2>1. t \in Tasks /\ t \in ToSet(list)
    BY <1>2, <1>3
  <2>2. state[t] = "blocked" /\ call[t].op \in use.sends /\ Sleeping(t)
    BY <2>1, WaitsFor DEF list
  <2>3. state'[t] = IF holder = Nothing THEN "ready" ELSE "pending"
    BY <1>1, <2>1
  <2>4. QED
    BY <2>1, <2>2, <2>3 DEF Senders, OnTheWay, Sleeping
<1>5. A \union first \subseteq Senders' /\ A \intersect first = {}
  BY <1>4
<1>6. ASSUME use.resets => Length = 1
      PROVE  Serves(list', Senders', cRxLock', Length - uxMessagesWaiting')
  <2>1. Length - uxMessagesWaiting' \in Int
    BY Kit
  <2>2. Serves(SubSeq(list, k + 1, Len(list)), Senders', cRxLock', Length - uxMessagesWaiting')
    BY <1>2, <1>5, <1>6, <2>1, Kit, WokenServed DEF first, list
  <2>3. QED
    BY <1>1, <2>2
<1>7. QED
  BY <1>6, Kit DEF SendersServed, list

(* ---- what each step does to the wake-ups ---- *)

\* Steps of a call that wake nobody, outside the part with the scheduler suspended.
LEMMA CallKept ==
    ASSUME QueueInv, QueueInv', WakeUpsKnown, UNCHANGED use, NEW t \in Tasks,
           \/ \E c \in use.sends, i \in use.items, w \in use.waits : Call(t, c, i, w)
           \/ \E c \in use.reads, w \in use.waits : Call(t, c, Nothing, w)
    PROVE  WakeUpsKnown'
<1>1. "none" \notin use.sends \union use.reads
  BY Given DEF QueueInv, Use
<1>2. PICK c \in use.sends \union use.reads, i \in use.items \union {Nothing},
           w \in use.waits : Call(t, c, i, w)
  OBVIOUS
<1>3. /\ Runs(t) /\ call[t].pc = "idle" /\ UNCHANGED <<ring, locks, lists, kernel, taken>>
      /\ call' = [call EXCEPT ![t] = [pc |-> "try", op |-> c, item |-> i,
                                      wait |-> IF w = "finite" THEN "fresh" ELSE w]]
  BY <1>2 DEF Call
<1>4. call \in Calls
  BY DEF QueueInv, TypeOK, TasksTypeOK, Calls
<1>5. /\ \A u \in Tasks \ {t} : call'[u] = call[u]
      /\ call'[t].pc = "try" /\ call'[t].op = c /\ UNCHANGED state
  BY <1>3, <1>4 DEF Calls, kernel
<1>6. holder = Nothing /\ state[t] = "ready"
  BY <1>3, Running DEF Suspended
<1>7. Readers \subseteq Readers' /\ Senders \subseteq Senders'
  <2>1. t \notin Readers /\ t \notin Senders
    BY <1>3 DEF Readers, Senders, OnTheWay
  <2>2. QED
    BY <1>5, <1>6, <2>1, OthersOnTheWay
<1>8. CallersKnown'
  BY <1>1, <1>5, <1>6, CallersStep DEF QueueInv, TypeOK, TasksTypeOK, WakeUpsKnown
<1>9. ReadersServed' /\ SendersServed'
  BY <1>3, <1>7, MoveServed DEF ring, locks, lists
<1>10. QED
  BY <1>8, <1>9 DEF WakeUpsKnown

\* Who cannot have what it wants found the queue empty, or full.
LEMMA CannotHave ==
    ASSUME QueueInv, CallersKnown, NEW t \in Tasks, Cannot(t), call[t].pc = "try"
    PROVE  /\ t \in Readers => uxMessagesWaiting = 0
           /\ t \in Senders => uxMessagesWaiting = Length
<1>1. Length \in Nat \ {0} /\ uxMessagesWaiting \in 0 .. Length
  BY Given DEF QueueInv, TypeOK, RingTypeOK
<1>2. use.sends \subseteq {"back", "front", "overwrite"}
  BY Given DEF QueueInv, Use
<1>3. t \in Readers => ~Sending(t)
  BY DEF Readers, OnTheWay, Sending
<1>4. t \in Senders => Sending(t)
  BY <1>2 DEF Senders, OnTheWay, Sending
<1>5. QED
  BY <1>1, <1>3, <1>4 DEF Cannot, HasRoom

LEMMA LeaveKept ==
    ASSUME QueueInv, QueueInv', WakeUpsKnown, UNCHANGED use, NEW t \in Tasks,
           GiveUp(t) \/ PrepareToWait(t) \/ LookAgain(t)
    PROVE  WakeUpsKnown'
<1>1. /\ Runs(t) /\ UNCHANGED <<ring, locks, lists, kernel, taken>>
      /\ call[t].pc \in {"try", "last"}
      /\ \A u \in Tasks \ {t} : call'[u] = call[u]
      /\ call'[t].pc \in {"idle", "try", "suspend"}
      /\ call'[t].pc # "idle" => call'[t].op # "none"
      /\ call[t].pc = "try" => Cannot(t)
  <2>1. CASE GiveUp(t) \/ LookAgain(t)
    <3>1. PICK from \in {"try", "last"}, to \in {"idle", "try"} :
            /\ At(t, from, to) /\ UNCHANGED <<ring, locks, lists, kernel, taken>>
            /\ from = "try" => Cannot(t)
      BY <2>1 DEF GiveUp, LookAgain
    <3>2. /\ Runs(t) /\ call[t].pc = from /\ call'[t].pc = to
          /\ \A u \in Tasks \ {t} : call'[u] = call[u]
          /\ to # "idle" => call'[t].op = call[t].op
      BY <3>1, AtStep DEF QueueInv
    <3>3. QED
      BY <3>1, <3>2 DEF WakeUpsKnown, CallersKnown
  <2>2. CASE PrepareToWait(t)
    <3> DEFINE wait == IF call[t].wait \in {"fresh"} THEN "finite" ELSE call[t].wait
    <3>1. /\ Runs(t) /\ call[t].pc = "try" /\ UNCHANGED <<ring, locks, lists, kernel, taken>>
          /\ call' = [call EXCEPT ![t] = [@ EXCEPT !.pc = "suspend", !.wait = wait]]
          /\ Cannot(t)
      BY <2>2 DEF PrepareToWait, SetTimeOut
    <3>2. call \in Calls
      BY DEF QueueInv, TypeOK, TasksTypeOK, Calls
    <3> HIDE DEF wait
    <3>3. /\ \A u \in Tasks \ {t} : call'[u] = call[u]
          /\ call'[t].pc = "suspend" /\ call'[t].op = call[t].op
      BY <3>1, <3>2 DEF Calls
    <3>4. QED
      BY <3>1, <3>3 DEF WakeUpsKnown, CallersKnown
  <2>3. QED
    BY <2>1, <2>2
<1>2. holder = Nothing /\ state[t] = "ready" /\ UNCHANGED state
  BY <1>1, Running DEF Suspended, kernel
<1>3. /\ Readers \subseteq Readers' \/ uxMessagesWaiting = 0
      /\ Senders \subseteq Senders' \/ uxMessagesWaiting = Length
  <2>1. Readers \ {t} \subseteq Readers' /\ Senders \ {t} \subseteq Senders'
    BY <1>1, <1>2, OthersOnTheWay
  <2>2. t \in Readers \union Senders => call[t].pc = "try"
    BY <1>2 DEF Readers, Senders, OnTheWay
  <2>3. /\ t \in Readers => uxMessagesWaiting = 0
        /\ t \in Senders => uxMessagesWaiting = Length
    BY <1>1, <2>2, CannotHave DEF WakeUpsKnown
  <2>4. QED
    BY <2>1, <2>3
<1>4. CallersKnown'
  BY <1>1, <1>2, CallersStep DEF QueueInv, TypeOK, TasksTypeOK, WakeUpsKnown
<1>5. ReadersServed' /\ SendersServed'
  BY <1>1, <1>3, MoveServed DEF ring, locks, lists
<1>6. QED
  BY <1>4, <1>5 DEF WakeUpsKnown

\* Where nothing is left to come for, everybody is served.
LEMMA NothingLeft ==
    ASSUME NEW list, NEW ready \in SUBSET Tasks, NEW lock \in Lock, NEW n \in Int, n <= 0
    PROVE  Serves(list, ready, lock, n)
<1>1. Cardinality(ready) \in Nat /\ Owed(lock) \in Nat
  BY Counted DEF Owed, Lock, queueUNLOCKED
<1>2. QED
  BY <1>1 DEF Serves

\* While a task that is awake makes a step outside that part, the others sleep on.
LEMMA SleepOn ==
    ASSUME QueueInv, NEW t \in Tasks, holder = Nothing, state[t] = "ready",
           \A u \in Tasks \ {t} : call'[u] = call[u]
    PROVE  /\ \A u \in ToSet(xTasksWaitingToReceive) : Sleeping(u)
           /\ \A u \in ToSet(xTasksWaitingToSend) : Sleeping(u)
<1>1. ASSUME NEW u \in Tasks, state[u] = "blocked"
      PROVE  Sleeping(u)
  <2>1. u # t /\ call[u].pc \notin Suspended
    BY <1>1, Given DEF QueueInv, HolderKnown
  <2>2. call[u].pc = "try"
    BY <1>1, <2>1 DEF QueueInv, CallsKnown, Suspended
  <2>3. QED
    BY <2>1, <2>2 DEF Sleeping
<1>2. /\ \A u \in ToSet(xTasksWaitingToReceive) : u \in Tasks /\ state[u] = "blocked"
      /\ \A u \in ToSet(xTasksWaitingToSend) : u \in Tasks /\ state[u] = "blocked"
  <2>1. /\ \A u \in ToSet(xTasksWaitingToReceive) : u \in Tasks
        /\ \A u \in ToSet(xTasksWaitingToSend) : u \in Tasks
    <3>1. /\ xTasksWaitingToReceive \in Seq(Tasks)
          /\ xTasksWaitingToSend \in Seq(Tasks)
      BY DEF QueueInv, TypeOK, TasksTypeOK
    <3>2. \A u \in ToSet(xTasksWaitingToReceive) : u \in Tasks
      BY <3>1, Indices
    <3>3. \A u \in ToSet(xTasksWaitingToSend) : u \in Tasks
      BY <3>1, Indices
    <3>4. QED
      BY <3>2, <3>3
  <2>2. QED
    BY <2>1 DEF QueueInv, ListsKnown
<1>3. QED
  BY <1>1, <1>2

\* What sending does to the count.
LEMMA CountIn ==
    ASSUME QueueInv, QueueInv', UNCHANGED use, NEW i, NEW position, HasRoom(position),
           position = "overwrite" => Length = 1, prvCopyDataToQueue(i, position)
    PROVE  /\ uxMessagesWaiting' \in {uxMessagesWaiting, uxMessagesWaiting + 1}
           /\ uxMessagesWaiting' = uxMessagesWaiting + 1 \/ uxMessagesWaiting' = Length
<1>1. uxMessagesWaiting' = IF position = "overwrite" /\ uxMessagesWaiting > 0
                             THEN uxMessagesWaiting ELSE uxMessagesWaiting + 1
  BY DEF prvCopyDataToQueue, CopyTo
<1>2. QED
  BY <1>1, Kit

LEMMA SendKept ==
    ASSUME QueueInv, QueueInv', WakeUpsKnown, UNCHANGED use, NEW t \in Tasks, Send(t)
    PROVE  WakeUpsKnown'
<1>1. /\ At(t, "try", "idle") /\ Sending(t) /\ HasRoom(call[t].op)
      /\ prvCopyDataToQueue(call[t].item, call[t].op) /\ WakeReceivers(1)
      /\ UNCHANGED <<locks, holder, taken>>
  BY DEF Send
<1>2. /\ Runs(t) /\ call[t].pc = "try" /\ call'[t].pc = "idle"
      /\ \A u \in Tasks \ {t} : call'[u] = call[u]
  BY <1>1, AtStep DEF QueueInv
<1>3. holder = Nothing /\ state[t] = "ready"
  BY <1>2, Running DEF Suspended
<1>4. Shrunk
  BY <1>1, WokenReceivers DEF QueueInv
<1>5. /\ uxMessagesWaiting' \in {uxMessagesWaiting, uxMessagesWaiting + 1}
      /\ uxMessagesWaiting' = uxMessagesWaiting + 1 \/ uxMessagesWaiting' = Length
  BY <1>1, CountIn DEF QueueInv, CallsKnown
<1>6. Readers \ {t} \subseteq Readers' /\ Senders \ {t} \subseteq Senders' /\ t \notin Readers
  <2>1. t \notin Readers
    BY <1>1 DEF Readers, OnTheWay, Sending
  <2>2. QED
    BY <1>2, <1>3, <1>4, <2>1, OthersOnTheWay DEF Shrunk
<1>7. CallersKnown'
  BY <1>2, <1>3, <1>4, CallersStep DEF QueueInv, TypeOK, TasksTypeOK, WakeUpsKnown, Shrunk
<1>8. ReadersServed'
  <2>1. Readers \subseteq Readers'
    BY <1>6
  <2>2. cTxLock = queueUNLOCKED /\ cTxLock' = queueUNLOCKED
    BY <1>1, <1>3 DEF QueueInv, HolderKnown, locks
  <2>3. 1 + Owed(cTxLock') - Owed(cTxLock) >= uxMessagesWaiting' - uxMessagesWaiting
    BY <1>5, <2>2, Kit DEF Owed
  <2>4. \A u \in ToSet(xTasksWaitingToReceive) : Sleeping(u)
    BY <1>2, <1>3, SleepOn
  <2>5. uxMessagesWaiting \in Int
    BY Kit
  <2>6. QED
    BY <1>1, <2>1, <2>2, <2>3, <2>4, <2>5, Kit, ReadersWokenUp
       DEF WakeUpsKnown, ReadersServed
<1>9. SendersServed'
  <2>1. SUFFICES ASSUME use.resets => Length = 1
                 PROVE  Serves(xTasksWaitingToSend', Senders', cRxLock',
                               Length - uxMessagesWaiting')
    BY Kit DEF SendersServed
  <2>2. /\ UNCHANGED <<xTasksWaitingToSend, cRxLock>>
        /\ Serves(xTasksWaitingToSend, Senders, cRxLock, Length - uxMessagesWaiting)
    BY <1>1, <2>1 DEF WakeReceivers, locks, WakeUpsKnown, SendersServed
  <2>3. CASE uxMessagesWaiting' = Length
    <3>1. Length - uxMessagesWaiting' \in Int /\ Length - uxMessagesWaiting' <= 0
      BY <2>3, Kit
    <3>2. QED
      BY <3>1, Kit, NothingLeft
  <2>4. CASE uxMessagesWaiting' = uxMessagesWaiting + 1
    <3>1. PICK n \in Int, n2 \in Int :
            n = Length - uxMessagesWaiting /\ n2 = Length - uxMessagesWaiting' /\ n2 <= n - 1
      BY <2>4, Kit
    <3>2. Serves(xTasksWaitingToSend, Senders', cRxLock, n2)
      BY <1>6, <2>2, <3>1, Kit, OneCame
    <3>3. QED
      BY <2>2, <3>1, <3>2
  <2>5. QED
    BY <1>5, <2>3, <2>4
<1>10. QED
  BY <1>7, <1>8, <1>9 DEF WakeUpsKnown

\* A task that reads does not send.
LEMMA ReadersDoNotSend ==
    ASSUME QueueInv, NEW t \in Tasks, call[t].op \in {"receive", "peek", "none"}
    PROVE  t \notin Senders
<1>1. use.sends \subseteq {"back", "front", "overwrite"}
  BY Given DEF QueueInv, Use
<1>2. QED
  BY <1>1 DEF Senders, OnTheWay

LEMMA ReceiveKept ==
    ASSUME QueueInv, QueueInv', WakeUpsKnown, UNCHANGED use, NEW t \in Tasks, Receive(t)
    PROVE  WakeUpsKnown'
<1>1. /\ At(t, "try", "idle") /\ call[t].op = "receive" /\ uxMessagesWaiting > 0
      /\ uxMessagesWaiting' = uxMessagesWaiting - 1 /\ WakeSenders(1)
      /\ UNCHANGED <<locks, holder>>
  BY DEF Receive, prvCopyDataFromQueue, CopyFrom
<1>2. /\ Runs(t) /\ call[t].pc = "try" /\ call'[t].pc = "idle"
      /\ \A u \in Tasks \ {t} : call'[u] = call[u]
  BY <1>1, AtStep DEF QueueInv
<1>3. holder = Nothing /\ state[t] = "ready"
  BY <1>2, Running DEF Suspended
<1>4. Shrunk
  BY <1>1, WokenSenders DEF QueueInv
<1>5. Readers \ {t} \subseteq Readers' /\ Senders \subseteq Senders'
  BY <1>1, <1>2, <1>3, <1>4, ReadersDoNotSend, OthersOnTheWay DEF Shrunk
<1>6. CallersKnown'
  BY <1>2, <1>3, <1>4, CallersStep DEF QueueInv, TypeOK, TasksTypeOK, WakeUpsKnown, Shrunk
<1>7. ReadersServed'
  <2>1. UNCHANGED <<xTasksWaitingToReceive, cTxLock>>
    BY <1>1 DEF WakeSenders, locks
  <2>2. /\ uxMessagesWaiting \in Int /\ uxMessagesWaiting' \in Int
        /\ uxMessagesWaiting' <= uxMessagesWaiting - 1
    BY <1>1, Kit
  <2>3. Serves(xTasksWaitingToReceive, Readers', cTxLock, uxMessagesWaiting')
    BY <1>5, <2>2, Kit, OneCame DEF WakeUpsKnown, ReadersServed
  <2>4. QED
    BY <2>1, <2>3 DEF ReadersServed
<1>8. SendersServed'
  <2>1. cRxLock = queueUNLOCKED /\ cRxLock' = queueUNLOCKED
    BY <1>1, <1>3 DEF QueueInv, HolderKnown, locks
  <2>2. PICK n \in Int : n = Length - uxMessagesWaiting
    BY Kit
  <2>3. 1 + Owed(cRxLock') - Owed(cRxLock) >= Length - uxMessagesWaiting' - n
    BY <1>1, <2>1, <2>2, Kit DEF Owed
  <2>4. \A u \in ToSet(xTasksWaitingToSend) : Sleeping(u)
    BY <1>2, <1>3, SleepOn
  <2>5. (use.resets => Length = 1) => Serves(xTasksWaitingToSend, Senders, cRxLock, n)
    BY <2>2 DEF WakeUpsKnown, SendersServed
  <2>6. QED
    BY <1>1, <1>5, <2>1, <2>3, <2>4, <2>5, Kit, SendersWokenUp DEF WakeUpsKnown
<1>9. QED
  BY <1>6, <1>7, <1>8 DEF WakeUpsKnown

LEMMA PeekKept ==
    ASSUME QueueInv, QueueInv', WakeUpsKnown, UNCHANGED use, NEW t \in Tasks, Peek(t)
    PROVE  WakeUpsKnown'
<1>1. /\ At(t, "try", "idle") /\ call[t].op = "peek" /\ uxMessagesWaiting > 0
      /\ WakeReceivers(1) /\ UNCHANGED <<ring, locks, holder>>
  BY DEF Peek, PeekWaking
<1>2. /\ Runs(t) /\ call[t].pc = "try" /\ call'[t].pc = "idle"
      /\ \A u \in Tasks \ {t} : call'[u] = call[u]
  BY <1>1, AtStep DEF QueueInv
<1>3. holder = Nothing /\ state[t] = "ready"
  BY <1>2, Running DEF Suspended
<1>4. Shrunk
  BY <1>1, WokenReceivers DEF QueueInv
<1>5. Readers \ {t} \subseteq Readers' /\ Senders \subseteq Senders'
  BY <1>1, <1>2, <1>3, <1>4, ReadersDoNotSend, OthersOnTheWay DEF Shrunk
<1>6. CallersKnown'
  BY <1>2, <1>3, <1>4, CallersStep DEF QueueInv, TypeOK, TasksTypeOK, WakeUpsKnown, Shrunk
<1>7. UNCHANGED <<uxMessagesWaiting, cTxLock, cRxLock, xTasksWaitingToSend>>
  BY <1>1 DEF ring, locks, WakeReceivers
<1>8. ReadersServed'
  <2>1. cTxLock = queueUNLOCKED
    BY <1>3 DEF QueueInv, HolderKnown
  <2>2. PICK n \in Int : n = uxMessagesWaiting - 1
    BY Kit
  <2>3. Serves(xTasksWaitingToReceive, Readers \ {t}, cTxLock, n)
    <3>1. uxMessagesWaiting \in Int /\ n <= uxMessagesWaiting - 1
      BY <2>2, Kit
    <3>2. Serves(xTasksWaitingToReceive, Readers \ {t}, cTxLock, uxMessagesWaiting - 1)
      BY <1>5, <2>2, <3>1, Kit, OneCame DEF WakeUpsKnown, ReadersServed
    <3>3. QED
      BY <2>2, <3>2
  <2>4. 1 + Owed(cTxLock') - Owed(cTxLock) >= uxMessagesWaiting' - n
    BY <1>7, <2>1, <2>2, Kit DEF Owed
  <2>5. \A u \in ToSet(xTasksWaitingToReceive) : Sleeping(u)
    BY <1>2, <1>3, SleepOn
  <2>6. Readers \ {t} \in SUBSET Tasks /\ Readers \ {t} \subseteq Readers
    BY Kit
  <2>7. QED
    BY <1>1, <1>5, <2>1, <2>3, <2>4, <2>5, <2>6, ReadersWokenUp DEF WakeUpsKnown
<1>9. SendersServed'
  <2>1. SUFFICES ASSUME use.resets => Length = 1
                 PROVE  Serves(xTasksWaitingToSend, Senders', cRxLock, Length - uxMessagesWaiting)
    BY <1>7, Kit DEF SendersServed
  <2>2. PICK n \in Int : n = Length - uxMessagesWaiting
    BY Kit
  <2>3. Serves(xTasksWaitingToSend, Senders, cRxLock, n)
    BY <2>1, <2>2 DEF WakeUpsKnown, SendersServed
  <2>4. Owed(cRxLock) - Owed(cRxLock) >= n - n
    BY Kit, Counted DEF Owed, Lock, queueUNLOCKED
  <2>5. QED
    BY <1>5, <2>2, <2>3, <2>4, Kit, StillServed
<1>10. QED
  BY <1>6, <1>8, <1>9 DEF WakeUpsKnown

LEMMA ResetKept ==
    ASSUME QueueInv, QueueInv', WakeUpsKnown, UNCHANGED use, NEW t \in Tasks, Reset(t)
    PROVE  WakeUpsKnown'
<1>1. /\ use.resets /\ At(t, "idle", "idle") /\ WakeSenders(1) /\ uxMessagesWaiting' = 0
      /\ cRxLock' = queueUNLOCKED /\ cTxLock' = queueUNLOCKED /\ UNCHANGED holder
  BY DEF Reset
<1>2. /\ Runs(t) /\ call[t].pc = "idle" /\ call'[t].pc = "idle"
      /\ \A u \in Tasks \ {t} : call'[u] = call[u]
  BY <1>1, AtStep DEF QueueInv
<1>3. holder = Nothing /\ state[t] = "ready"
  BY <1>2, Running DEF Suspended
<1>4. Shrunk
  BY <1>1, WokenSenders DEF QueueInv
<1>5. Senders \subseteq Senders'
  <2>1. t \notin Senders
    BY <1>2, <1>3 DEF Senders, OnTheWay
  <2>2. QED
    BY <1>2, <1>3, <1>4, <2>1, OthersOnTheWay DEF Shrunk
<1>6. CallersKnown'
  BY <1>2, <1>3, <1>4, CallersStep DEF QueueInv, TypeOK, TasksTypeOK, WakeUpsKnown, Shrunk
<1>7. ReadersServed'
  <2>1. uxMessagesWaiting' \in Int /\ uxMessagesWaiting' <= 0
    BY <1>1
  <2>2. QED
    BY <2>1, Kit, NothingLeft DEF ReadersServed
<1>8. SendersServed'
  <2>1. cRxLock = queueUNLOCKED
    BY <1>3 DEF QueueInv, HolderKnown
  <2>2. PICK n \in Int : n = 0
    OBVIOUS
  <2>3. (use.resets => Length = 1) =>
          /\ Serves(xTasksWaitingToSend, Senders, cRxLock, n)
          /\ 1 + Owed(cRxLock') - Owed(cRxLock) >= (Length - uxMessagesWaiting') - n
    <3>1. Serves(xTasksWaitingToSend, Senders, cRxLock, n)
      BY <2>2, Kit, NothingLeft
    <3>2. (use.resets => Length = 1) =>
            1 + Owed(cRxLock') - Owed(cRxLock) >= (Length - uxMessagesWaiting') - n
      BY <1>1, <2>1, <2>2 DEF Owed
    <3>3. QED
      BY <3>1, <3>2
  <2>4. \A u \in ToSet(xTasksWaitingToSend) : Sleeping(u)
    BY <1>2, <1>3, SleepOn
  <2>5. QED
    BY <1>1, <1>5, <2>1, <2>3, <2>4, Kit, SendersWokenUp DEF WakeUpsKnown
<1>9. QED
  BY <1>6, <1>7, <1>8 DEF WakeUpsKnown

\* vTaskSuspendAll, and the steps under it that wake nobody.
LEMMA LookKept ==
    ASSUME QueueInv, QueueInv', WakeUpsKnown, UNCHANGED use, NEW t \in Tasks,
           SuspendAll(t) \/ LockQueue(t) \/ CheckForTimeOut(t) \/ Test(t)
    PROVE  WakeUpsKnown'
<1>1. PICK from \in {"suspend", "lock", "check", "test"},
           to \in {"lock", "check", "test", "place", "unlockTx"} :
        /\ At(t, from, to) /\ UNCHANGED <<ring, lists, state, taken>>
        /\ \/ UNCHANGED locks
           \/ /\ cRxLock' = IF cRxLock = queueUNLOCKED THEN queueLOCKED_UNMODIFIED
                            ELSE cRxLock
              /\ cTxLock' = IF cTxLock = queueUNLOCKED THEN queueLOCKED_UNMODIFIED
                            ELSE cTxLock
        /\ to = "place" => IF Sending(t) THEN uxMessagesWaiting = Length
                                         ELSE uxMessagesWaiting = 0
  <2>1. CASE SuspendAll(t)
    <3>1. At(t, "suspend", "lock") /\ UNCHANGED <<ring, lists, state, taken, locks>>
      BY <2>1 DEF SuspendAll
    <3>2. QED
      BY <3>1
  <2>2. CASE LockQueue(t)
    <3>1. At(t, "lock", "check") /\ UNCHANGED <<ring, lists, state, taken>>
      BY <2>2 DEF LockQueue, kernel
    <3>2. QED
      BY <2>2, <3>1 DEF LockQueue
  <2>3. CASE CheckForTimeOut(t)
    <3>1. At(t, "check", "unlockTx") \/ At(t, "check", "test")
      <4>1. CASE call[t].wait = "expired"
        BY <2>3, <4>1 DEF CheckForTimeOut
      <4>2. CASE call[t].wait # "expired"
        BY <2>3, <4>2 DEF CheckForTimeOut
      <4>3. QED
        BY <4>1, <4>2
    <3>2. UNCHANGED <<ring, lists, state, taken, locks>>
      BY <2>3 DEF CheckForTimeOut, kernel
    <3>3. QED
      BY <3>1, <3>2
  <2>4. CASE Test(t)
    <3> DEFINE none == IF Sending(t) THEN uxMessagesWaiting = Length
                                     ELSE uxMessagesWaiting = 0
    <3>1. At(t, "test", IF none THEN "place" ELSE "unlockTx")
      BY <2>4 DEF Test
    <3>2. UNCHANGED <<ring, lists, state, taken, locks>>
      BY <2>4 DEF Test, kernel
    <3>3. CASE none
      BY <3>1, <3>2, <3>3
    <3> HIDE DEF none
    <3>4. CASE ~none
      BY <3>1, <3>2, <3>4
    <3>5. QED
      BY <3>3, <3>4
  <2>5. QED
    BY <2>1, <2>2, <2>3, <2>4
<1>2. /\ Runs(t) /\ call[t].pc = from /\ call'[t].pc = to /\ call'[t].op = call[t].op
      /\ \A u \in Tasks \ {t} : call'[u] = call[u]
  BY <1>1, AtStep DEF QueueInv
<1>3. holder \in {Nothing, t} /\ UNCHANGED <<state, lists, uxMessagesWaiting>>
  BY <1>1, <1>2, Running DEF Suspended, ring
<1>4. /\ Owed(cTxLock') = Owed(cTxLock) /\ (cTxLock' < NumberOfTasks => cTxLock < NumberOfTasks)
      /\ Owed(cRxLock') = Owed(cRxLock) /\ (cRxLock' < NumberOfTasks => cRxLock < NumberOfTasks)
  BY <1>1, Counted DEF Owed, locks, queueUNLOCKED, queueLOCKED_UNMODIFIED
<1>5. Readers \subseteq Readers' /\ Senders \subseteq Senders'
  <2>1. t \notin Readers /\ t \notin Senders
    BY <1>1, <1>2 DEF Readers, Senders, OnTheWay
  <2>2. QED
    BY <1>2, <1>3, <2>1, OthersOnTheWay
<1>6. CallersKnown'
  <2>1. state'[t] # "pending"
    BY <1>1, <1>2, <1>3 DEF WakeUpsKnown, CallersKnown
  <2>2. call'[t].op # "none"
    BY <1>1, <1>2 DEF WakeUpsKnown, CallersKnown
  <2>3. call'[t].pc = "place" =>
          /\ Sending(t)' => Owed(cRxLock') >= Length - uxMessagesWaiting'
          /\ ~Sending(t)' => Owed(cTxLock') >= uxMessagesWaiting'
    <3>1. Sending(t)' <=> Sending(t)
      BY <1>2 DEF Sending
    <3>2. Owed(cRxLock') \in Nat /\ Owed(cTxLock') \in Nat
      BY Kit, Counted DEF Owed, Lock, queueUNLOCKED
    <3>3. /\ call'[t].pc = "place" /\ Sending(t) => Length - uxMessagesWaiting' = 0
          /\ call'[t].pc = "place" /\ ~Sending(t) => uxMessagesWaiting' = 0
      BY <1>1, <1>2, <1>3, Kit
    <3>4. QED
      BY <3>1, <3>2, <3>3
  <2>4. QED
    BY <1>2, <1>3, <2>1, <2>2, <2>3, CallersStep
       DEF QueueInv, TypeOK, TasksTypeOK, WakeUpsKnown
<1>7. ReadersServed' /\ SendersServed'
  BY <1>3, <1>4, <1>5, MoveServed DEF lists
<1>8. QED
  BY <1>6, <1>7 DEF WakeUpsKnown

\* A task that goes to sleep was counted on by nobody, and what came since it looked
\* is counted.
LEMMA PlaceKept ==
    ASSUME QueueInv, QueueInv', WakeUpsKnown, UNCHANGED use, NEW t \in Tasks,
           PlaceOnEventList(t)
    PROVE  WakeUpsKnown'
<1>1. /\ At(t, "place", "unlockTx") /\ state' = [state EXCEPT ![t] = "blocked"]
      /\ UNCHANGED <<ring, locks, holder, taken>>
      /\ Sending(t) => UNCHANGED xTasksWaitingToReceive
      /\ ~Sending(t) => UNCHANGED xTasksWaitingToSend
  BY DEF PlaceOnEventList
<1>2. /\ Runs(t) /\ call[t].pc = "place" /\ call'[t].pc = "unlockTx"
      /\ call'[t].op = call[t].op /\ \A u \in Tasks \ {t} : call'[u] = call[u]
  BY <1>1, AtStep DEF QueueInv
<1>3. /\ holder = t /\ state'[t] = "blocked" /\ \A u \in Tasks \ {t} : state'[u] = state[u]
      /\ state \in [Tasks -> {"ready", "pending", "blocked"}]
      /\ UNCHANGED <<uxMessagesWaiting, cTxLock, cRxLock>>
  BY <1>1, <1>2, Running DEF Suspended, QueueInv, TypeOK, TasksTypeOK, ring, locks
<1>4. Readers \subseteq Readers' /\ Senders \subseteq Senders'
  <2>1. t \notin Readers /\ t \notin Senders
    BY <1>2 DEF Readers, Senders, OnTheWay
  <2>2. QED
    BY <1>2, <1>3, <2>1, OthersOnTheWay
<1>5. CallersKnown'
  BY <1>2, <1>3, CallersStep DEF WakeUpsKnown, CallersKnown
<1>6. ASSUME NEW list, NEW ready \in SUBSET Tasks, NEW lock \in Lock, NEW n \in Int,
             lock < NumberOfTasks => Owed(lock) >= n
      PROVE  Serves(list, ready, lock, n)
  <2>1. Cardinality(ready) \in Nat /\ Owed(lock) \in Int
    BY Counted DEF Owed, Lock, queueUNLOCKED
  <2>2. QED
    BY <1>6, <2>1 DEF Serves
<1>7. ReadersServed'
  <2>1. uxMessagesWaiting \in Int /\ Owed(cTxLock) - Owed(cTxLock) >= uxMessagesWaiting - uxMessagesWaiting
    BY Kit, Counted DEF Owed, Lock, queueUNLOCKED
  <2>2. CASE Sending(t)
    BY <1>1, <1>3, <1>4, <2>1, <2>2, Kit, StillServed DEF WakeUpsKnown, ReadersServed
  <2>3. CASE ~Sending(t)
    <3>1. cTxLock < NumberOfTasks => Owed(cTxLock) >= uxMessagesWaiting
      BY <1>2, <2>3 DEF WakeUpsKnown, CallersKnown
    <3>2. QED
      BY <1>3, <1>6, <2>1, <3>1, Kit DEF ReadersServed
  <2>4. QED
    BY <2>2, <2>3
<1>8. SendersServed'
  <2>1. SUFFICES ASSUME use.resets => Length = 1
                 PROVE  Serves(xTasksWaitingToSend', Senders', cRxLock, Length - uxMessagesWaiting)
    BY <1>3, Kit DEF SendersServed
  <2>2. PICK n \in Int : n = Length - uxMessagesWaiting
    BY Kit
  <2>3. Owed(cRxLock) - Owed(cRxLock) >= n - n
    BY Kit, Counted DEF Owed, Lock, queueUNLOCKED
  <2>4. CASE ~Sending(t)
    <3>1. Serves(xTasksWaitingToSend, Senders, cRxLock, n)
      BY <2>1, <2>2 DEF WakeUpsKnown, SendersServed
    <3>2. QED
      BY <1>1, <1>4, <2>2, <2>3, <2>4, <3>1, Kit, StillServed
  <2>5. CASE Sending(t)
    <3>1. cRxLock < NumberOfTasks => Owed(cRxLock) >= n
      BY <1>2, <2>2, <2>5 DEF WakeUpsKnown, CallersKnown
    <3>2. QED
      BY <1>6, <2>2, <3>1, Kit
  <2>6. QED
    BY <2>4, <2>5
<1>9. QED
  BY <1>5, <1>7, <1>8 DEF WakeUpsKnown

\* Under the suspended scheduler the tasks that sleep are those before that, and
\* perhaps the one that suspended it.
LEMMA SleepUnder ==
    ASSUME QueueInv, NEW t \in Tasks, holder = t, call'[t].op = call[t].op,
           call'[t].pc \in {"unlockRx", "resume"},
           \A u \in Tasks \ {t} : call'[u] = call[u]
    PROVE  /\ \A u \in ToSet(xTasksWaitingToReceive) : Sleeping(u)
           /\ \A u \in ToSet(xTasksWaitingToSend) : Sleeping(u)
<1>1. ASSUME NEW u \in Tasks, state[u] = "blocked"
      PROVE  Sleeping(u)
  <2>1. CASE u = t
    BY <2>1, Given DEF Sleeping, QueueInv
  <2>2. CASE u # t
    <3>1. call[u].pc \notin Suspended
      BY <2>2, Given DEF QueueInv, HolderKnown
    <3>2. call[u].pc = "try"
      BY <1>1, <3>1 DEF QueueInv, CallsKnown, Suspended
    <3>3. QED
      BY <2>2, <3>2 DEF Sleeping
  <2>3. QED
    BY <2>1, <2>2
<1>2. /\ \A u \in ToSet(xTasksWaitingToReceive) : u \in Tasks /\ state[u] = "blocked"
      /\ \A u \in ToSet(xTasksWaitingToSend) : u \in Tasks /\ state[u] = "blocked"
  <2>1. /\ \A u \in ToSet(xTasksWaitingToReceive) : u \in Tasks
        /\ \A u \in ToSet(xTasksWaitingToSend) : u \in Tasks
    <3>1. /\ xTasksWaitingToReceive \in Seq(Tasks)
          /\ xTasksWaitingToSend \in Seq(Tasks)
      BY DEF QueueInv, TypeOK, TasksTypeOK
    <3>2. \A u \in ToSet(xTasksWaitingToReceive) : u \in Tasks
      BY <3>1, Indices
    <3>3. \A u \in ToSet(xTasksWaitingToSend) : u \in Tasks
      BY <3>1, Indices
    <3>4. QED
      BY <3>2, <3>3
  <2>2. QED
    BY <2>1 DEF QueueInv, ListsKnown
<1>3. QED
  BY <1>1, <1>2

\* The first half of prvUnlockQueue makes up for the items that came.
LEMMA UnlockTxKept ==
    ASSUME QueueInv, QueueInv', WakeUpsKnown, UNCHANGED use, NEW t \in Tasks,
           UnlockTx(t, cTxLock)
    PROVE  WakeUpsKnown'
<1>1. /\ At(t, "unlockTx", "unlockRx") /\ WakeReceivers(cTxLock)
      /\ cTxLock' = queueUNLOCKED /\ UNCHANGED <<ring, cRxLock, holder, taken>>
  BY DEF UnlockTx
<1>2. /\ Runs(t) /\ call[t].pc = "unlockTx" /\ call'[t].pc = "unlockRx"
      /\ call'[t].op = call[t].op /\ call'[t].wait = call[t].wait
      /\ \A u \in Tasks \ {t} : call'[u] = call[u]
  BY <1>1, AtStep DEF QueueInv
<1>3. holder = t /\ cTxLock \in Nat
  BY <1>2, Running, Kit, Counted DEF Suspended, QueueInv, HolderKnown, Lock, queueUNLOCKED
<1>4. Shrunk
  BY <1>1, <1>3, WokenReceivers DEF QueueInv
<1>5. Readers \subseteq Readers' /\ Senders \subseteq Senders'
  <2>1. t \notin Readers /\ t \notin Senders
    BY <1>2 DEF Readers, Senders, OnTheWay
  <2>2. QED
    BY <1>2, <1>3, <1>4, <2>1, OthersOnTheWay DEF Shrunk
<1>6. CallersKnown'
  <2>1. state'[t] = "pending" => call[t].wait \in {"finite", "forever"}
    BY <1>2, <1>4 DEF WakeUpsKnown, CallersKnown, Shrunk, QueueInv, CallsKnown,
                      TypeOK, TasksTypeOK
  <2>2. call[t].op # "none"
    BY <1>2 DEF WakeUpsKnown, CallersKnown
  <2>3. CallersKnown /\ state \in [Tasks -> {"ready", "pending", "blocked"}]
    BY DEF QueueInv, TypeOK, TasksTypeOK, WakeUpsKnown
  <2>4. \A u \in Tasks \ {t} : state'[u] = "pending" => state[u] # "ready"
    BY <1>4 DEF Shrunk
  <2>5. QED
    BY <1>2, <1>3, <2>1, <2>2, <2>3, <2>4, CallersStep
<1>7. UNCHANGED <<uxMessagesWaiting, xTasksWaitingToSend>>
  BY <1>1 DEF ring, WakeReceivers
<1>8. ReadersServed'
  <2>1. cTxLock + Owed(cTxLock') - Owed(cTxLock) >= uxMessagesWaiting' - uxMessagesWaiting
    BY <1>1, <1>3, <1>7, Kit DEF Owed, queueUNLOCKED
  <2>2. uxMessagesWaiting \in Int
    BY Kit
  <2>3. \A u \in ToSet(xTasksWaitingToReceive) : Sleeping(u)
    BY <1>2, <1>3, SleepUnder
  <2>4. QED
    BY <1>1, <1>3, <1>5, <2>1, <2>2, <2>3, Kit, ReadersWokenUp
       DEF WakeUpsKnown, ReadersServed
<1>9. SendersServed'
  <2>1. SUFFICES ASSUME use.resets => Length = 1
                 PROVE  Serves(xTasksWaitingToSend, Senders', cRxLock, Length - uxMessagesWaiting)
    BY <1>1, <1>7, Kit DEF SendersServed
  <2>2. PICK n \in Int : n = Length - uxMessagesWaiting
    BY Kit
  <2>3. Serves(xTasksWaitingToSend, Senders, cRxLock, n)
    BY <2>1, <2>2 DEF WakeUpsKnown, SendersServed
  <2>4. Owed(cRxLock) - Owed(cRxLock) >= n - n
    BY Kit, Counted DEF Owed, Lock, queueUNLOCKED
  <2>5. QED
    BY <1>5, <2>2, <2>3, <2>4, Kit, StillServed
<1>10. QED
  BY <1>6, <1>8, <1>9 DEF WakeUpsKnown

\* The second half makes up for the places that became free.
LEMMA UnlockRxKept ==
    ASSUME QueueInv, QueueInv', WakeUpsKnown, UNCHANGED use, NEW t \in Tasks,
           UnlockRx(t, cRxLock)
    PROVE  WakeUpsKnown'
<1>1. /\ At(t, "unlockRx", "resume") /\ WakeSenders(cRxLock)
      /\ cRxLock' = queueUNLOCKED /\ UNCHANGED <<ring, cTxLock, holder, taken>>
  BY DEF UnlockRx
<1>2. /\ Runs(t) /\ call[t].pc = "unlockRx" /\ call'[t].pc = "resume"
      /\ call'[t].op = call[t].op /\ call'[t].wait = call[t].wait
      /\ \A u \in Tasks \ {t} : call'[u] = call[u]
  BY <1>1, AtStep DEF QueueInv
<1>3. holder = t /\ holder # Nothing /\ cRxLock \in Nat
  BY <1>2, Running, Kit, Counted, Given
     DEF Suspended, QueueInv, HolderKnown, Lock, queueUNLOCKED
<1>4. Shrunk
  BY <1>1, <1>3, WokenSenders DEF QueueInv
<1>5. state[t] = "pending" => state'[t] = "pending"
  BY <1>1, <1>3 DEF WakeSenders, Wake
<1>6. Readers \subseteq Readers' /\ Senders \subseteq Senders'
  <2>1. /\ t \in Readers => t \in Readers'
        /\ t \in Senders => t \in Senders'
    BY <1>2, <1>5 DEF Readers, Senders, OnTheWay
  <2>2. QED
    BY <1>2, <1>3, <1>4, <2>1, OthersOnTheWay DEF Shrunk
<1>7. CallersKnown'
  <2>1. state'[t] = "pending" => call[t].wait \in {"finite", "forever"}
    BY <1>2, <1>4 DEF WakeUpsKnown, CallersKnown, Shrunk, QueueInv, CallsKnown,
                      TypeOK, TasksTypeOK
  <2>2. call[t].op # "none"
    BY <1>2 DEF WakeUpsKnown, CallersKnown
  <2>3. QED
    BY <1>2, <1>3, <1>4, <2>1, <2>2, CallersStep
       DEF QueueInv, TypeOK, TasksTypeOK, WakeUpsKnown, Shrunk
<1>8. UNCHANGED <<uxMessagesWaiting, xTasksWaitingToReceive>>
  BY <1>1 DEF ring, WakeSenders
<1>9. ReadersServed'
  <2>1. /\ uxMessagesWaiting \in Int
        /\ Owed(cTxLock) - Owed(cTxLock) >= uxMessagesWaiting - uxMessagesWaiting
    BY Kit, Counted DEF Owed, Lock, queueUNLOCKED
  <2>2. QED
    BY <1>1, <1>6, <1>8, <2>1, Kit, StillServed DEF WakeUpsKnown, ReadersServed
<1>10. SendersServed'
  <2>1. PICK n \in Int : n = Length - uxMessagesWaiting
    BY Kit
  <2>2. cRxLock + Owed(cRxLock') - Owed(cRxLock) >= (Length - uxMessagesWaiting') - n
    BY <1>1, <1>3, <1>8, <2>1, Kit DEF Owed, queueUNLOCKED
  <2>3. (use.resets => Length = 1) => Serves(xTasksWaitingToSend, Senders, cRxLock, n)
    BY <2>1 DEF WakeUpsKnown, SendersServed
  <2>4. \A u \in ToSet(xTasksWaitingToSend) : Sleeping(u)
    BY <1>2, <1>3, SleepUnder
  <2>5. QED
    BY <1>1, <1>3, <1>6, <2>2, <2>3, <2>4, Kit, SendersWokenUp DEF WakeUpsKnown
<1>11. QED
  BY <1>7, <1>9, <1>10 DEF WakeUpsKnown

\* Only tasks are on a list.
LEMMA OnList ==
    ASSUME NEW list \in Seq(Tasks), NEW t \in ToSet(list)
    PROVE  t \in Tasks
BY Indices

\* A list somebody is on is not empty.
LEMMA NonEmpty ==
    ASSUME NEW list \in Seq(Tasks)
    PROVE  list # << >> <=> ToSet(list) # {}
<1>1. ASSUME list # << >>
      PROVE  ToSet(list) # {}
  <2>1. 1 \in 1 .. Len(list)
    BY <1>1, EmptySeq
  <2>2. QED
    BY <2>1, Indices
<1>2. ASSUME list = << >>
      PROVE  ToSet(list) = {}
  BY <1>2 DEF ToSet
<1>3. QED
  BY <1>1, <1>2

\* xTaskResumeAll, and the end of a wait: whoever was on the way stays so.
LEMMA AwakeKept ==
    ASSUME QueueInv, QueueInv', WakeUpsKnown, UNCHANGED use, NEW t \in Tasks,
           ResumeAll(t) \/ TimePasses(t)
    PROVE  WakeUpsKnown'
<1>1. /\ Shrunk /\ holder \in {Nothing, t} /\ UNCHANGED <<ring, locks>>
      /\ \A u \in Tasks \ {t} : call'[u] = call[u]
      /\ call'[t].pc \notin {"place"} /\ state'[t] # "pending"
      /\ call'[t].pc # "idle" => call'[t].op # "none"
      /\ t \in Readers => t \in Readers'
      /\ t \in Senders => t \in Senders'
  <2>1. CASE ResumeAll(t)
    <3>1. PICK to \in {"try", "idle", "last"} :
            /\ At(t, "resume", to)
            /\ state' = [u \in Tasks |-> IF state[u] = "pending" THEN "ready" ELSE state[u]]
            /\ to # "try" => call[t].wait = "expired"
            /\ UNCHANGED <<ring, locks, lists, taken>>
      <4>1. CASE call[t].wait # "expired"
        BY <2>1, <4>1 DEF ResumeAll
      <4>2. CASE call[t].wait = "expired" /\ Sending(t)
        BY <2>1, <4>2 DEF ResumeAll
      <4>3. CASE call[t].wait = "expired" /\ ~Sending(t)
        BY <2>1, <4>3 DEF ResumeAll
      <4>4. QED
        BY <4>1, <4>2, <4>3
    <3>2. /\ Runs(t) /\ call[t].pc = "resume" /\ call'[t].pc = to
          /\ \A u \in Tasks \ {t} : call'[u] = call[u]
          /\ to # "idle" => call'[t].op = call[t].op
      BY <3>1, AtStep DEF QueueInv
    <3>3. holder = t
      BY <3>2, Running DEF Suspended
    <3>4. Shrunk
      <4>1. state \in [Tasks -> {"ready", "pending", "blocked"}]
        BY DEF QueueInv, TypeOK, TasksTypeOK
      <4>2. /\ state' \in [Tasks -> {"ready", "pending", "blocked"}]
            /\ \A u \in Tasks : /\ state'[u] # "pending"
                                /\ (state'[u] = "blocked") <=> (state[u] = "blocked")
                                /\ state[u] = "ready" => state'[u] = "ready"
        BY <3>1, <4>1
      <4>3. QED
        BY <3>1, <4>2 DEF QueueInv, TypeOK, TasksTypeOK, ListsKnown, Shrunk, lists
    <3>5. state[t] = "pending" => to = "try" /\ state'[t] = "ready"
      BY <3>1 DEF WakeUpsKnown, CallersKnown
    <3>6. /\ t \in Readers => t \in Readers'
          /\ t \in Senders => t \in Senders'
      BY <3>2, <3>5 DEF Readers, Senders, OnTheWay
    <3>7. call[t].op # "none" /\ state'[t] # "pending"
      BY <3>1, <3>2 DEF WakeUpsKnown, CallersKnown
    <3>8. QED
      BY <3>1, <3>2, <3>3, <3>4, <3>6, <3>7
  <2>2. CASE TimePasses(t)
    <3>1. /\ holder = Nothing /\ call' = [call EXCEPT ![t].wait = "expired"]
          /\ state' = [state EXCEPT ![t] = "ready"]
          /\ xTasksWaitingToSend' = RemoveFirst(xTasksWaitingToSend, t)
          /\ xTasksWaitingToReceive' = RemoveFirst(xTasksWaitingToReceive, t)
          /\ UNCHANGED <<ring, locks>>
      BY <2>2 DEF TimePasses, Expire
    <3>2. call \in Calls /\ state \in [Tasks -> {"ready", "pending", "blocked"}]
      BY DEF QueueInv, TypeOK, TasksTypeOK, Calls
    <3>3. /\ \A u \in Tasks \ {t} : call'[u] = call[u] /\ state'[u] = state[u]
          /\ call'[t].pc = call[t].pc /\ call'[t].op = call[t].op /\ state'[t] = "ready"
      BY <3>1, <3>2 DEF Calls
    <3>4. call[t].pc \notin Suspended
      BY <3>1, Given DEF QueueInv, HolderKnown
    <3>5. /\ t \in Readers => t \in Readers'
          /\ t \in Senders => t \in Senders'
      BY <3>3, <3>4 DEF Readers, Senders, OnTheWay, Suspended
    <3>6. Shrunk
      <4>1. /\ xTasksWaitingToSend \in Seq(Tasks) /\ xTasksWaitingToReceive \in Seq(Tasks)
            /\ IsInjective(xTasksWaitingToSend) /\ IsInjective(xTasksWaitingToReceive)
        BY Kit
      <4>2. /\ xTasksWaitingToSend' \in Seq(Tasks) /\ xTasksWaitingToReceive' \in Seq(Tasks)
            /\ IsInjective(xTasksWaitingToSend)' /\ IsInjective(xTasksWaitingToReceive)'
            /\ ToSet(xTasksWaitingToSend)' = ToSet(xTasksWaitingToSend) \ {t}
            /\ ToSet(xTasksWaitingToReceive)' = ToSet(xTasksWaitingToReceive) \ {t}
        BY <3>1, <4>1, RemoveSound
      <4>3. \A u \in Tasks : /\ u \in ToSet(xTasksWaitingToSend) => state[u] = "blocked"
                             /\ u \in ToSet(xTasksWaitingToReceive) => state[u] = "blocked"
        BY DEF QueueInv, ListsKnown
      <4>4. state' \in [Tasks -> {"ready", "pending", "blocked"}]
        BY <3>1, <3>2
      <4>5. QED
        BY <3>3, <4>2, <4>3, <4>4 DEF Shrunk
    <3>7. QED
      BY <3>1, <3>3, <3>4, <3>5, <3>6 DEF WakeUpsKnown, CallersKnown, Suspended
  <2>3. QED
    BY <2>1, <2>2
<1>2. Readers \subseteq Readers' /\ Senders \subseteq Senders'
  BY <1>1, OthersOnTheWay DEF Shrunk
<1>3. CallersKnown'
  BY <1>1, CallersStep DEF QueueInv, TypeOK, TasksTypeOK, WakeUpsKnown, Shrunk
<1>4. /\ xTasksWaitingToReceive' # << >> => xTasksWaitingToReceive # << >>
      /\ xTasksWaitingToSend' # << >> => xTasksWaitingToSend # << >>
  <2>1. /\ xTasksWaitingToSend \in Seq(Tasks) /\ xTasksWaitingToReceive \in Seq(Tasks)
        /\ xTasksWaitingToSend' \in Seq(Tasks) /\ xTasksWaitingToReceive' \in Seq(Tasks)
    BY <1>1, Kit DEF Shrunk
  <2>2. /\ \A u \in ToSet(xTasksWaitingToSend') : u \in Tasks
        /\ \A u \in ToSet(xTasksWaitingToReceive') : u \in Tasks
    BY <2>1, OnList
  <2>3. /\ ToSet(xTasksWaitingToSend') \subseteq ToSet(xTasksWaitingToSend)
        /\ ToSet(xTasksWaitingToReceive') \subseteq ToSet(xTasksWaitingToReceive)
    BY <1>1, <2>2 DEF Shrunk
  <2>4. QED
    BY <2>1, <2>3, NonEmpty
<1>5. ReadersServed' /\ SendersServed'
  BY <1>1, <1>2, <1>4, MoveServed DEF ring, locks
<1>6. QED
  BY <1>3, <1>5 DEF WakeUpsKnown

\* An interrupt finds the queue locked and counts, or wakes a task.
LEMMA InterruptKept ==
    ASSUME QueueInv, QueueInv', WakeUpsKnown, UNCHANGED <<use, call, holder>>, Shrunk,
           \/ UNCHANGED state
           \/ cTxLock = queueUNLOCKED /\ WakeReceivers(1)
           \/ cRxLock = queueUNLOCKED /\ WakeSenders(1)
    PROVE  /\ Readers \subseteq Readers' /\ Senders \subseteq Senders'
           /\ \A t \in Tasks : state'[t] = "pending" =>
                /\ call'[t].pc \in {"try", "unlockRx", "resume"}
                /\ call'[t].wait \in {"finite", "forever"}
           /\ cTxLock = queueUNLOCKED \/ cRxLock = queueUNLOCKED =>
                /\ \A t \in ToSet(xTasksWaitingToReceive) : Sleeping(t)
                /\ \A t \in ToSet(xTasksWaitingToSend) : Sleeping(t)
<1>1. \A t \in Tasks : state[t] = "pending" => state'[t] = "pending"
  BY DEF QueueInv, HolderKnown, WakeReceivers, WakeSenders, Wake
<1>2. Readers \subseteq Readers'
  BY <1>1 DEF Readers, OnTheWay, Shrunk
<1>3. Senders \subseteq Senders'
  BY <1>1 DEF Senders, OnTheWay, Shrunk
<1>4. ASSUME NEW t \in Tasks, state[t] = "blocked",
             cTxLock = queueUNLOCKED \/ cRxLock = queueUNLOCKED
      PROVE  Sleeping(t) /\ call[t].pc \in {"try", "unlockRx", "resume"}
  <2>1. call[t].pc \in {"try", "unlockTx", "unlockRx", "resume"}
    BY <1>4 DEF QueueInv, CallsKnown
  <2>2. call[t].pc # "unlockTx"
    BY <1>4 DEF QueueInv, HolderKnown, queueUNLOCKED
  <2>3. call[t].pc # "try" => holder # Nothing
    BY <2>1, Given DEF QueueInv, HolderKnown, Suspended
  <2>4. QED
    BY <2>1, <2>2, <2>3 DEF Sleeping
<1>5. ASSUME NEW t \in Tasks, state'[t] = "pending"
      PROVE  /\ call'[t].pc \in {"try", "unlockRx", "resume"}
             /\ call'[t].wait \in {"finite", "forever"}
  <2>1. CASE state[t] = "pending"
    BY <2>1 DEF WakeUpsKnown, CallersKnown
  <2>2. CASE state[t] = "blocked"
    <3>1. call[t].pc \in {"try", "unlockRx", "resume"}
      BY <1>4, <1>5, <2>2
    <3>2. QED
      BY <2>2, <3>1 DEF QueueInv, CallsKnown
  <2>3. state[t] # "ready"
    BY <1>5 DEF Shrunk
  <2>4. QED
    BY <2>1, <2>2, <2>3 DEF QueueInv, TypeOK, TasksTypeOK
<1>6. /\ \A t \in ToSet(xTasksWaitingToReceive) : t \in Tasks /\ state[t] = "blocked"
      /\ \A t \in ToSet(xTasksWaitingToSend) : t \in Tasks /\ state[t] = "blocked"
  <2>1. /\ \A t \in ToSet(xTasksWaitingToReceive) : t \in Tasks
        /\ \A t \in ToSet(xTasksWaitingToSend) : t \in Tasks
    BY Kit, OnList
  <2>2. QED
    BY <2>1 DEF QueueInv, ListsKnown
<1>7. QED
  BY <1>2, <1>3, <1>4, <1>5, <1>6

\* A lock that is in use counts one more, unless it has reached its limit.
LEMMA CountedUp ==
    ASSUME NEW lock \in Lock, lock # queueUNLOCKED, NEW lock2 \in Lock,
           lock2 = Increment(lock)
    PROVE  lock2 < NumberOfTasks => lock < NumberOfTasks /\ Owed(lock2) = Owed(lock) + 1
BY Counted DEF Increment, Owed, Lock, queueUNLOCKED

LEMMA SendISRKept ==
    ASSUME QueueInv, QueueInv', WakeUpsKnown, UNCHANGED use, NEW i \in use.items,
           NEW c \in use.interrupts \ {"receive"}, xQueueGenericSendFromISR(i, c)
    PROVE  WakeUpsKnown'
<1>1. /\ HasRoom(c) /\ prvCopyDataToQueue(i, c) /\ UNCHANGED <<cRxLock, holder, call, taken>>
      /\ \/ cTxLock = queueUNLOCKED /\ WakeReceivers(1) /\ UNCHANGED cTxLock
         \/ /\ cTxLock # queueUNLOCKED /\ cTxLock' = Increment(cTxLock)
            /\ UNCHANGED <<lists, state>>
  BY DEF xQueueGenericSendFromISR, SendFromISR
<1>2. c = "overwrite" => Length = 1
  BY Given DEF QueueInv, Use
<1>3. /\ uxMessagesWaiting' \in {uxMessagesWaiting, uxMessagesWaiting + 1}
      /\ uxMessagesWaiting' = uxMessagesWaiting + 1 \/ uxMessagesWaiting' = Length
  BY <1>1, <1>2, CountIn
<1>4. Shrunk
  BY <1>1, WokenReceivers, Untouched DEF QueueInv
<1>5. /\ Readers \subseteq Readers' /\ Senders \subseteq Senders'
      /\ \A t \in Tasks : state'[t] = "pending" =>
           /\ call'[t].pc \in {"try", "unlockRx", "resume"}
           /\ call'[t].wait \in {"finite", "forever"}
      /\ cTxLock = queueUNLOCKED => \A t \in ToSet(xTasksWaitingToReceive) : Sleeping(t)
  BY <1>1, <1>4, InterruptKept
<1>6. PICK m \in Int, m2 \in Int : m = uxMessagesWaiting /\ m2 = uxMessagesWaiting'
  BY Kit
<1>7. (m2 = m \/ m2 = m + 1) /\ UNCHANGED xTasksWaitingToSend
  BY <1>1, <1>3, <1>6 DEF WakeReceivers, lists
<1>8. cTxLock # queueUNLOCKED /\ cTxLock' < NumberOfTasks =>
        cTxLock < NumberOfTasks /\ Owed(cTxLock') = Owed(cTxLock) + 1
  <2>1. SUFFICES ASSUME cTxLock # queueUNLOCKED
                 PROVE  cTxLock' < NumberOfTasks =>
                          cTxLock < NumberOfTasks /\ Owed(cTxLock') = Owed(cTxLock) + 1
    OBVIOUS
  <2>2. cTxLock' = Increment(cTxLock) /\ cTxLock \in Lock /\ cTxLock' \in Lock
    BY <1>1, <2>1, Kit
  <2>3. QED
    BY <2>1, <2>2, CountedUp
<1>9. Owed(cTxLock) \in Int /\ Owed(cRxLock) \in Int
  BY Kit, Counted DEF Owed, Lock, queueUNLOCKED
<1>10. CallersKnown'
  <2>1. ASSUME NEW t \in Tasks, call[t].pc = "place"
        PROVE  /\ Sending(t) /\ cRxLock < NumberOfTasks => Owed(cRxLock) >= Length - m2
               /\ ~Sending(t) /\ cTxLock' < NumberOfTasks => Owed(cTxLock') >= m2
    <3>1. cTxLock # queueUNLOCKED
      BY <2>1 DEF QueueInv, HolderKnown, queueUNLOCKED
    <3>2. /\ Sending(t) /\ cRxLock < NumberOfTasks => Owed(cRxLock) >= Length - m
          /\ ~Sending(t) /\ cTxLock < NumberOfTasks => Owed(cTxLock) >= m
      BY <1>6, <2>1 DEF WakeUpsKnown, CallersKnown
    <3>3. Length \in Int
      BY Kit
    <3>4. QED
      BY <1>7, <1>8, <1>9, <3>1, <3>2, <3>3
  <2>2. Length' = Length /\ \A t \in Tasks : Sending(t)' <=> Sending(t)
    BY <1>1 DEF Length, Sending
  <2>3. QED
    BY <1>1, <1>5, <1>6, <2>1, <2>2 DEF WakeUpsKnown, CallersKnown
<1>11. ReadersServed'
  <2>1. CASE cTxLock = queueUNLOCKED
    <3>1. WakeReceivers(1) /\ UNCHANGED cTxLock
      BY <1>1, <2>1
    <3>2. 1 + Owed(cTxLock') - Owed(cTxLock) >= uxMessagesWaiting' - m
      <4>1. Owed(cTxLock') = 0 /\ Owed(cTxLock) = 0
        BY <2>1, <3>1 DEF Owed
      <4>2. 1 + 0 - 0 >= m2 - m
        BY <1>7
      <4>3. QED
        BY <1>6, <4>1, <4>2
    <3>3. Serves(xTasksWaitingToReceive, Readers, cTxLock, m)
      BY <1>6 DEF WakeUpsKnown, ReadersServed
    <3>4. QED
      BY <1>5, <2>1, <3>1, <3>2, <3>3, Kit, ReadersWokenUp DEF WakeUpsKnown
  <2>2. CASE cTxLock # queueUNLOCKED
    <3>1. cTxLock' < NumberOfTasks =>
            cTxLock < NumberOfTasks /\ Owed(cTxLock') - Owed(cTxLock) >= m2 - m
      BY <1>7, <1>8, <1>9, <2>2
    <3>2. UNCHANGED xTasksWaitingToReceive
      BY <1>1, <2>2 DEF lists
    <3>3. Serves(xTasksWaitingToReceive, Readers, cTxLock, m)
      BY <1>6 DEF WakeUpsKnown, ReadersServed
    <3>4. Serves(xTasksWaitingToReceive', Readers', cTxLock', m2)
      BY <1>5, <3>1, <3>2, <3>3, Kit, StillServed
    <3>5. QED
      BY <1>6, <3>4 DEF ReadersServed
  <2>3. QED
    BY <2>1, <2>2
<1>12. SendersServed'
  <2>1. SUFFICES ASSUME use.resets => Length = 1
                 PROVE  Serves(xTasksWaitingToSend', Senders', cRxLock', Length - m2)
    BY <1>6, Kit DEF SendersServed
  <2>2. PICK n \in Int, n2 \in Int : n = Length - m /\ n2 = Length - m2
    BY Kit
  <2>3. Serves(xTasksWaitingToSend, Senders, cRxLock, n)
    BY <1>6, <2>1, <2>2 DEF WakeUpsKnown, SendersServed
  <2>4. Owed(cRxLock) - Owed(cRxLock) >= n2 - n
    <3>1. PICK l \in Nat : l = Length
      BY Kit
    <3>2. n = l - m /\ n2 = l - m2 /\ (m2 = m \/ m2 = m + 1)
      BY <1>7, <2>2, <3>1
    <3>3. n2 <= n
      BY <3>2
    <3>4. QED
      BY <1>9, <2>2, <3>3
  <2>5. Serves(xTasksWaitingToSend, Senders', cRxLock, n2)
    BY <1>5, <2>3, <2>4, Kit, StillServed
  <2>6. QED
    BY <1>1, <1>7, <2>2, <2>5
<1>13. QED
  BY <1>10, <1>11, <1>12 DEF WakeUpsKnown

LEMMA ReceiveISRKept ==
    ASSUME QueueInv, QueueInv', WakeUpsKnown, UNCHANGED use, xQueueReceiveFromISR
    PROVE  WakeUpsKnown'
<1>1. /\ uxMessagesWaiting' = uxMessagesWaiting - 1 /\ UNCHANGED <<cTxLock, holder, call>>
      /\ \/ cRxLock = queueUNLOCKED /\ WakeSenders(1) /\ UNCHANGED cRxLock
         \/ /\ cRxLock # queueUNLOCKED /\ cRxLock' = Increment(cRxLock)
            /\ UNCHANGED <<lists, state>>
  BY DEF xQueueReceiveFromISR, prvCopyDataFromQueue, CopyFrom
<1>2. Shrunk
  BY <1>1, WokenSenders, Untouched DEF QueueInv
<1>3. /\ Readers \subseteq Readers' /\ Senders \subseteq Senders'
      /\ \A t \in Tasks : state'[t] = "pending" =>
           /\ call'[t].pc \in {"try", "unlockRx", "resume"}
           /\ call'[t].wait \in {"finite", "forever"}
      /\ cRxLock = queueUNLOCKED => \A t \in ToSet(xTasksWaitingToSend) : Sleeping(t)
  BY <1>1, <1>2, InterruptKept
<1>4. PICK m \in Int, m2 \in Int :
        m = uxMessagesWaiting /\ m2 = uxMessagesWaiting' /\ m2 = m - 1
  BY <1>1, Kit
<1>5. UNCHANGED xTasksWaitingToReceive
  BY <1>1 DEF WakeSenders, lists
<1>6. PICK n \in Int, n2 \in Int : n = Length - m /\ n2 = Length - m2 /\ n2 = n + 1
  BY <1>4, Kit
<1>7. cRxLock # queueUNLOCKED /\ cRxLock' < NumberOfTasks =>
        cRxLock < NumberOfTasks /\ Owed(cRxLock') = Owed(cRxLock) + 1
  <2>1. SUFFICES ASSUME cRxLock # queueUNLOCKED
                 PROVE  cRxLock' < NumberOfTasks =>
                          cRxLock < NumberOfTasks /\ Owed(cRxLock') = Owed(cRxLock) + 1
    OBVIOUS
  <2>2. cRxLock' = Increment(cRxLock) /\ cRxLock \in Lock /\ cRxLock' \in Lock
    BY <1>1, <2>1, Kit
  <2>3. QED
    BY <2>1, <2>2, CountedUp
<1>8. Owed(cTxLock) \in Int /\ Owed(cRxLock) \in Int
  BY Kit, Counted DEF Owed, Lock, queueUNLOCKED
<1>9. CallersKnown'
  <2>1. ASSUME NEW t \in Tasks, call[t].pc = "place"
        PROVE  /\ Sending(t) /\ cRxLock' < NumberOfTasks => Owed(cRxLock') >= n2
               /\ ~Sending(t) /\ cTxLock < NumberOfTasks => Owed(cTxLock) >= m2
    <3>1. cRxLock # queueUNLOCKED
      BY <2>1 DEF QueueInv, HolderKnown, queueUNLOCKED
    <3>2. /\ Sending(t) /\ cRxLock < NumberOfTasks => Owed(cRxLock) >= n
          /\ ~Sending(t) /\ cTxLock < NumberOfTasks => Owed(cTxLock) >= m
      BY <1>4, <1>6, <2>1 DEF WakeUpsKnown, CallersKnown
    <3>3. QED
      BY <1>4, <1>6, <1>7, <1>8, <3>1, <3>2
  <2>2. Length' = Length /\ \A t \in Tasks : Sending(t)' <=> Sending(t)
    BY <1>1 DEF Length, Sending
  <2>3. QED
    BY <1>1, <1>3, <1>4, <1>6, <2>1, <2>2 DEF WakeUpsKnown, CallersKnown
<1>10. ReadersServed'
  <2>1. Serves(xTasksWaitingToReceive, Readers, cTxLock, m)
    BY <1>4 DEF WakeUpsKnown, ReadersServed
  <2>2. Owed(cTxLock) - Owed(cTxLock) >= m2 - m
    BY <1>4, <1>8
  <2>3. Serves(xTasksWaitingToReceive, Readers', cTxLock, m2)
    BY <1>3, <2>1, <2>2, Kit, StillServed
  <2>4. QED
    BY <1>1, <1>4, <1>5, <2>3 DEF ReadersServed
<1>11. SendersServed'
  <2>1. (use.resets => Length = 1) => Serves(xTasksWaitingToSend, Senders, cRxLock, n)
    BY <1>4, <1>6 DEF WakeUpsKnown, SendersServed
  <2>2. CASE cRxLock = queueUNLOCKED
    <3>1. WakeSenders(1) /\ UNCHANGED cRxLock
      BY <1>1, <2>2
    <3>2. 1 + Owed(cRxLock') - Owed(cRxLock) >= (Length - uxMessagesWaiting') - n
      BY <1>4, <1>6, <2>2, <3>1 DEF Owed
    <3>3. QED
      BY <1>3, <2>1, <2>2, <3>1, <3>2, Kit, SendersWokenUp DEF WakeUpsKnown
  <2>3. CASE cRxLock # queueUNLOCKED
    <3>1. SUFFICES ASSUME use.resets => Length = 1
                   PROVE  Serves(xTasksWaitingToSend', Senders', cRxLock', n2)
      BY <1>4, <1>6, Kit DEF SendersServed
    <3>2. cRxLock' < NumberOfTasks =>
            cRxLock < NumberOfTasks /\ Owed(cRxLock') - Owed(cRxLock) >= n2 - n
      BY <1>6, <1>7, <1>8, <2>3
    <3>3. UNCHANGED xTasksWaitingToSend
      BY <1>1, <2>3 DEF lists
    <3>4. QED
      BY <1>3, <2>1, <3>1, <3>2, <3>3, Kit, StillServed
  <2>4. QED
    BY <2>2, <2>3
<1>12. QED
  BY <1>9, <1>10, <1>11 DEF WakeUpsKnown

LEMMA StutterKept ==
    ASSUME QueueInv, WakeUpsKnown,
           UNCHANGED <<use, ring, locks, lists, kernel, call, taken>>
    PROVE  WakeUpsKnown'
<1>1. UNCHANGED <<use, uxMessagesWaiting, cTxLock, cRxLock, xTasksWaitingToSend,
                  xTasksWaitingToReceive, holder, state, call>>
  BY DEF ring, locks, lists, kernel
<1>2. CallersKnown'
  BY <1>1 DEF WakeUpsKnown, CallersKnown, Sending, Length
<1>3. Readers' = Readers /\ Senders' = Senders
  BY <1>1 DEF Readers, Senders, OnTheWay
<1>4. ReadersServed' /\ SendersServed'
  BY <1>1, <1>3 DEF WakeUpsKnown, ReadersServed, SendersServed, Length
<1>5. QED
  BY <1>2, <1>4 DEF WakeUpsKnown

\* Every step.
LEMMA StepKept ==
    ASSUME QueueInv, QueueInv', WakeUpsKnown, [Next]_vars
    PROVE  WakeUpsKnown'
<1>1. CASE UNCHANGED vars
  BY <1>1, StutterKept DEF vars
<1>2. CASE Next
  <2>1. use.callers \subseteq Tasks /\ UNCHANGED use
    BY <1>2, Given DEF QueueInv, Use, Next
  <2>2. ASSUME NEW t \in use.callers,
               \/ \E c \in use.sends, i \in use.items, w \in use.waits : Call(t, c, i, w)
               \/ \E c \in use.reads, w \in use.waits : Call(t, c, Nothing, w)
        PROVE  WakeUpsKnown'
    BY <2>1, <2>2, CallKept
  <2>3. ASSUME NEW t \in use.callers, Advance(t)
        PROVE  WakeUpsKnown'
    <3>1. t \in Tasks
      BY <2>1
    <3>2. QED
      BY <2>1, <2>3, <3>1, SendKept, ReceiveKept, PeekKept, LeaveKept, LookKept,
         PlaceKept, UnlockTxKept, UnlockRxKept, AwakeKept DEF Advance, prvUnlockQueue
  <2>4. ASSUME NEW t \in use.callers, Reset(t) \/ TimePasses(t)
        PROVE  WakeUpsKnown'
    BY <2>1, <2>4, ResetKept, AwakeKept
  <2>5. ASSUME NEW i \in use.items, NEW c \in use.interrupts \ {"receive"},
               xQueueGenericSendFromISR(i, c) \/ SendFromISRFails(c)
        PROVE  WakeUpsKnown'
    BY <2>1, <2>5, SendISRKept, StutterKept DEF SendFromISRFails
  <2>6. ASSUME xQueueReceiveFromISR
        PROVE  WakeUpsKnown'
    BY <2>1, <2>6, ReceiveISRKept
  <2>7. QED
    BY <1>2, <2>2, <2>3, <2>4, <2>5, <2>6 DEF Next
<1>3. QED
  BY <1>1, <1>2

LEMMA InitKept == Init => WakeUpsKnown
<1> SUFFICES ASSUME Init
             PROVE  WakeUpsKnown
  OBVIOUS
<1>1. CallersKnown
  BY DEF Init, CallersKnown, NoCall
<1>2. ReadersServed /\ SendersServed
  BY DEF Init, ReadersServed, SendersServed, Serves
<1>3. QED
  BY <1>1, <1>2 DEF WakeUpsKnown

LEMMA WakeUpsSound == Spec => []WakeUpsKnown
<1>1. QueueInv /\ WakeUpsKnown /\ [Next]_vars /\ QueueInv' => WakeUpsKnown'
  BY StepKept
<1>2. QED
  BY <1>1, InitKept, QueueSound, PTL DEF Spec

\* For any of them, however the tasks' calls and the interrupts come between each
\* other: while a task waits for an item, or a place, and there are some, as many
\* tasks are on their way to them.
THEOREM NobodyOverslept == Spec => []NoWakeUpLost
<1>1. ASSUME QueueInv, WakeUpsKnown
      PROVE  NoWakeUpLost
  <2>1. SUFFICES ASSUME holder = Nothing
                 PROVE  NoWakeUpLost
    BY DEF NoWakeUpLost, ReadersWoken, SendersWoken
  <2>2. /\ cTxLock = queueUNLOCKED /\ cRxLock = queueUNLOCKED
        /\ state \in [Tasks -> {"ready", "pending", "blocked"}]
        /\ \A t \in Tasks : state[t] # "pending"
    BY <1>1, <2>1 DEF QueueInv, HolderKnown, TypeOK, TasksTypeOK
  <2>3. ASSUME NEW kinds
        PROVE  OnTheWay(kinds) = Coming(kinds)
    BY <2>2 DEF OnTheWay, Coming
  <2>4. /\ Owed(cTxLock) = 0 /\ Owed(cRxLock) = 0
        /\ cTxLock < NumberOfTasks /\ cRxLock < NumberOfTasks
    BY <2>2, Counted DEF Owed, queueUNLOCKED
  <2>5. ASSUME NEW kinds
        PROVE  Cardinality(Coming(kinds)) + 0 = Cardinality(Coming(kinds))
    <3>1. Coming(kinds) \in SUBSET Tasks
      BY DEF Coming
    <3>2. Cardinality(Coming(kinds)) \in Nat
      BY <3>1, Counted
    <3>3. QED
      BY <3>2
  <2>6. ReadersWoken
    BY <1>1, <2>3, <2>4, <2>5 DEF WakeUpsKnown, ReadersServed, Serves, Readers, ReadersWoken
  <2>7. SendersWoken
    BY <1>1, <2>3, <2>4, <2>5 DEF WakeUpsKnown, SendersServed, Serves, Senders, SendersWoken
  <2>8. QED
    BY <2>6, <2>7 DEF NoWakeUpLost
<1>2. QED
  BY <1>1, QueueSound, WakeUpsSound, PTL

=============================================================================
