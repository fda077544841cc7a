-------------------------- MODULE EncReceive_proofs --------------------------
(***************************************************************************)
(* Theorems about EncReceive, for every ring, every set of frame lengths   *)
(* and any number of frames.                                               *)
(***************************************************************************)
EXTENDS EncReceive, SequenceTheorems, TLAPS

-----------------------------------------------------------------------------
(* Arithmetic of the ring. *)

\* A pointer advanced by at most the ring's size wraps into the ring.
LEMMA WrapInRing ==
    ASSUME NEW a \in Ring, NEW n \in 0 .. RingSize
    PROVE  Wrap(a + n) \in Ring
BY RingAssumption DEF Ring, Wrap, RingSize

\* Distances are counts of bytes below the ring's size.
LEMMA DistRange ==
    ASSUME NEW a \in Ring, NEW b \in Ring
    PROVE  Dist(a, b) \in 0 .. RingSize - 1
BY RingAssumption DEF Ring, Dist, RingSize

\* Advancing by less than a full turn adds to the distance.
LEMMA DistAdvance ==
    ASSUME NEW p \in Ring, NEW a \in Ring, NEW n \in Nat,
           Dist(p, a) + n < RingSize
    PROVE  Dist(p, Wrap(a + n)) = Dist(p, a) + n
BY RingAssumption DEF Ring, Dist, RingSize, Wrap

\* Moving the base forward, not past x, subtracts from the distance to x.
LEMMA DistRebase ==
    ASSUME NEW p \in Ring, NEW q \in Ring, NEW x \in Ring,
           Dist(p, q) <= Dist(p, x)
    PROVE  Dist(q, x) = Dist(p, x) - Dist(p, q)
BY RingAssumption DEF Ring, Dist, RingSize

\* Spans one after the other within one turn from p do not overlap.
LEMMA SpansApart ==
    ASSUME NEW p \in Ring, NEW a \in Ring, NEW b \in Ring,
           NEW m \in Nat, NEW n \in Nat,
           Dist(p, a) + m <= Dist(p, b),
           Dist(p, b) + n <= RingSize
    PROVE  m > 0 => ~Overlap(a, m, b, n)
BY RingAssumption DEF Ring, Dist, RingSize, Overlap

\* What is behind ERXTAIL: its successor's successor.
LEMMA OldestInRing ==
    ASSUME erxtail \in Ring
    PROVE  Oldest \in Ring
BY RingAssumption DEF Ring, Oldest, Wrap, RingSize

\* A frame that does not run into ERXTAIL fits in what is left of the ring
\* but two bytes.
LEMMA FitsInRest ==
    ASSUME erxtail \in Ring, erxhead \in Ring, NEW s \in Nat,
           Dist(Oldest, erxhead) <= RingSize - 2,
           ~RunsIntoTail(s)
    PROVE  Dist(Oldest, erxhead) + s <= RingSize - 2
BY RingAssumption DEF Ring, Dist, Oldest, Wrap, RingSize, RunsIntoTail, Covers

\* Sixteen-bit numbers are naturals, and every address of the ring is one.
LEMMA Uint16Facts ==
    /\ Uint16Max \in Nat
    /\ Uint16 \subseteq Nat
    /\ Ring \subseteq Uint16
    /\ RingStart \in Ring
    /\ RingEnd - 1 \in Ring
    /\ 0 \in Uint16
    /\ 2 \in Uint16
    /\ 18 \in Uint16
<1>1. Uint16Max \in Nat /\ 18 <= Uint16Max
  BY DEF Uint16Max
<1>2. QED
  BY <1>1, RingAssumption DEF Uint16, Ring

\* Sixteen-bit subtraction gives a sixteen-bit number.
LEMMA Uint16MinusType ==
    ASSUME NEW a \in Uint16, NEW n \in Uint16
    PROVE  Uint16Minus(a, n) \in Uint16
BY Uint16Facts DEF Uint16Minus, Uint16

-----------------------------------------------------------------------------
(* Types. *)

\* Between the check of PKTCNT and SETPKTDEC there is a frame to count down.
PendingWhileReading == pc # "idle" => pktcnt > 0

TypeInv == TypeOK /\ PendingWhileReading

\* The initial state has its types, and nothing is being read.
LEMMA TypeInit == Init => TypeInv
<1> SUFFICES ASSUME Init
             PROVE  TypeInv
  OBVIOUS
<1>1. frames \in Seq(Frame) /\ delivered \in Seq(0 .. Len(frames))
  BY DEF Init
<1>2. /\ erxhead \in Ring /\ erxtail \in Uint16 /\ erxrdpt \in Uint16
      /\ next_receive_frame_pointer \in Uint16
      /\ data_length \in Uint16
  BY Uint16Facts DEF Init
<1>3. pktcnt \in 0 .. PktMax /\ intact \subseteq 1 .. Len(frames)
  BY ReceiveAssumption DEF Init
<1>4. current \in 0 .. Len(frames)
  BY DEF Init
<1>5. QED
  BY <1>1, <1>2, <1>3, <1>4 DEF Init, TypeInv, TypeOK, PendingWhileReading

\* A stored frame has the type of a frame, and extends the sequence.
LEMMA ArriveType ==
    ASSUME TypeOK, NEW len \in FrameLens, Arrive(len)
    PROVE  TypeOK'
<1> DEFINE s == FrameSize(len)
           f == [start |-> erxhead, size |-> s,
                 next |-> Wrap(erxhead + s), len |-> len]
<1>1. s \in 1 .. RingSize /\ RingSize \in Nat
  BY ReceiveAssumption, RingAssumption DEF RingSize
<1>2. Wrap(erxhead + s) \in Ring
  BY <1>1, WrapInRing DEF TypeOK
<1>3. f \in Frame
  BY <1>1, <1>2 DEF TypeOK, Frame
<1>4. frames' = Append(frames, f)
  BY DEF Arrive
<1>5. frames' \in Seq(Frame) /\ Len(frames') = Len(frames) + 1
  BY <1>3, <1>4 DEF TypeOK
<1>6. intact' \subseteq 1 .. Len(frames')
  <2>1. intact' \subseteq intact \union {Len(frames) + 1}
    BY DEF Arrive
  <2>2. QED
    BY <1>5, <2>1 DEF TypeOK
<1>7. current' \in 0 .. Len(frames') /\ delivered' \in Seq(0 .. Len(frames'))
  BY <1>5 DEF TypeOK, Arrive, driver, history
<1>8. erxhead' \in Ring /\ pktcnt' \in 0 .. PktMax
  BY <1>2, ReceiveAssumption DEF TypeOK, Arrive
<1>9. QED
  BY <1>5, <1>6, <1>7, <1>8 DEF TypeOK, Arrive, driver, history

\* "No frame" is a value of `current'.
LEMMA NoFrame == TypeOK => 0 \in 0 .. Len(frames)
BY DEF TypeOK

\* What the driver can read where a frame starts.
LEMMA StoredFrame ==
    ASSUME TypeOK, NEW a, NEW k \in StoredAt(a)
    PROVE  /\ k \in 1 .. Len(frames)
           /\ k \in 0 .. Len(frames)
           /\ frames[k] \in Frame
           /\ frames[k].start = a
           /\ frames[k].next \in Uint16
           /\ frames[k].len \in Uint16
<1>1. k \in intact /\ frames[k].start = a
  BY DEF StoredAt
<1>2. k \in 1 .. Len(frames)
  BY <1>1 DEF TypeOK
<1>3. frames[k] \in Frame
  BY <1>2 DEF TypeOK
<1>4. frames[k].next \in Ring /\ frames[k].len \in FrameLens
  BY <1>3 DEF Frame
<1>5. k \in 0 .. Len(frames)
  BY <1>2 DEF TypeOK
<1>6. QED
  BY <1>1, <1>2, <1>3, <1>4, <1>5, ReceiveAssumption, Uint16Facts

\* Every operation of the chip and of the driver keeps the types.
LEMMA TypeStep == TypeInv /\ [Next]_vars => TypeInv'
<1> SUFFICES ASSUME TypeInv, [Next]_vars
             PROVE  TypeInv'
  OBVIOUS
<1> USE DEF TypeInv, PendingWhileReading
<1>1. ASSUME NEW len \in FrameLens, Arrive(len)
      PROVE  TypeInv'
  <2>1. TypeOK'
    BY <1>1, ArriveType
  <2>2. QED
    BY <1>1, <2>1 DEF Arrive, driver, TypeOK
<1>2. CASE CallWithNull
  BY <1>2 DEF TypeOK, CallWithNull, hardware, history
<1>3. CASE CheckPKTCNT
  BY <1>3 DEF TypeOK, CheckPKTCNT, Check, hardware, history
<1>4. CASE WriteERXRDPT
  BY <1>4 DEF TypeOK, WriteERXRDPT, Seek, history
<1>5. CASE ReadNextPointer
  <2>1. /\ next_receive_frame_pointer' \in Uint16
        /\ current' \in 0 .. Len(frames)
        /\ pc' = "rsv"
    <3>1. CASE StoredAt(erxrdpt) = {}
      <4>1. /\ current' = 0
            /\ next_receive_frame_pointer' \in GarbageNext
            /\ pc' = "rsv"
        BY <1>5, <3>1 DEF ReadNextPointer, FollowNextPointer
      <4>2. QED
        BY <4>1, NoFrame, ReceiveAssumption
    <3>2. ASSUME NEW k \in StoredAt(erxrdpt),
                 current' = k,
                 next_receive_frame_pointer' = frames[k].next
          PROVE  /\ next_receive_frame_pointer' \in Uint16
                 /\ current' \in 0 .. Len(frames)
      BY <3>2, StoredFrame
    <3>3. QED
      BY <1>5, <3>1, <3>2 DEF ReadNextPointer, FollowNextPointer
  <2>2. QED
    BY <1>5, <2>1 DEF TypeOK, ReadNextPointer, FollowNextPointer, hardware
<1>6. CASE ReadRSV
  <2>1. data_length' \in Uint16 /\ current' \in 0 .. Len(frames)
    <3>1. CASE StoredAt(erxrdpt) = {}
      <4>1. /\ current' = 0
            /\ \E len \in GarbageLen : data_length' = Uint16Minus(len, 18)
        BY <1>6, <3>1 DEF ReadRSV
      <4>2. QED
        BY <4>1, NoFrame, ReceiveAssumption, Uint16MinusType, Uint16Facts
    <3>2. ASSUME NEW k \in StoredAt(erxrdpt),
                 data_length' = Uint16Minus(frames[k].len, 18),
                 current' = IF k = current THEN k ELSE 0
          PROVE  data_length' \in Uint16 /\ current' \in 0 .. Len(frames)
      BY <3>2, StoredFrame, NoFrame, Uint16MinusType, Uint16Facts
    <3>3. QED
      BY <1>6, <3>1, <3>2 DEF ReadRSV
  <2>2. QED
    BY <1>6, <2>1 DEF TypeOK, ReadRSV, hardware, history
<1>7. CASE ReadHeader
  BY <1>7 DEF TypeOK, ReadHeader, hardware, history
<1>8. CASE ReadData
  BY <1>8 DEF TypeOK, ReadData, hardware
<1>9. CASE WriteERXTAIL
  <2>1. erxtail' \in Uint16
    BY <1>9, Uint16MinusType, Uint16Facts DEF TypeOK, WriteERXTAIL, SetTail
  <2>2. QED
    BY <1>9, <2>1 DEF TypeOK, WriteERXTAIL, SetTail
<1>10. CASE DecrementPKTCNT
  BY <1>10, ReceiveAssumption DEF TypeOK, DecrementPKTCNT, CountDown, history
<1>11. CASE UNCHANGED vars
  BY <1>11 DEF TypeOK, vars, hardware, driver, history
<1>12. QED
  BY <1>1, <1>2, <1>3, <1>4, <1>5, <1>6, <1>7, <1>8, <1>9, <1>10, <1>11
     DEF Next, Receive

\* Every variable keeps the type of the register or C variable it stands for;
\* in particular PKTCNT is never counted below zero.
THEOREM Typed == Spec => []TypeOK
<1>1. Spec => []TypeInv
  BY TypeInit, TypeStep, PTL DEF Spec
<1>2. TypeInv => TypeOK
  BY DEF TypeInv
<1>3. QED
  BY <1>1, <1>2, PTL

-----------------------------------------------------------------------------
(* The inductive invariant. *)

\* The frames some bytes of which ERXTAIL has not given back.
Held == {k \in 1 .. Len(frames) : k > Released}

\* Where frame k starts, or where the next frame will.
StartOf(k) == IF k <= Len(frames) THEN frames[k].start ELSE erxhead

\* No address is the start of two frames that can still be read, so that the
\* frame found there is the one meant.
StartsDistinct ==
    \A j \in intact, k \in intact : frames[j].start = frames[k].start => j = k

\* The bytes in use lie between Oldest and ERXHEAD, at most all but two.
InUse ==
    /\ erxtail \in Ring
    /\ Dist(Oldest, erxhead) <= RingSize - 2
    /\ Oldest = StartOf(Released + 1)

\* The held frames lie there, whole, one after the other ...
Laid ==
    /\ Held \subseteq intact
    /\ \A k \in Held :
         Dist(Oldest, frames[k].start) + frames[k].size <= Dist(Oldest, erxhead)
    /\ \A j \in Held, k \in Held :
         j < k => Dist(Oldest, frames[j].start) + frames[j].size
                    <= Dist(Oldest, frames[k].start)

\* ... and each points to the next.
Chained ==
    \A k \in Held :
      /\ frames[k].next = Wrap(frames[k].start + frames[k].size)
      /\ frames[k].next = StartOf(k + 1)

\* The driver reads the frame after the last delivered one, follows its
\* pointer, and has the bytes of at most one delivered frame to give back.
OnTrack ==
    /\ Len(delivered) <= Len(frames)
    /\ pc \in {"tail", "dec"} => 1 <= Len(delivered)
    /\ pc \in {"seek", "next", "rsv", "header", "data"} =>
         Len(delivered) < Len(frames)
    /\ pc \in {"next", "rsv", "header", "data"} =>
         erxrdpt = StartOf(Len(delivered) + 1)
    /\ pc \in {"rsv", "header", "data"} => current = Len(delivered) + 1
    /\ next_receive_frame_pointer =
         IF pc \in {"rsv", "header", "data"} THEN StartOf(Len(delivered) + 2)
                                             ELSE StartOf(Len(delivered) + 1)

Sound == /\ InUse
         /\ Laid
         /\ Chained
         /\ OnTrack
         /\ \A i \in 1 .. Len(delivered) : delivered[i] = i
         /\ pktcnt = Len(frames) - Acknowledged

IInv == /\ TypeInv
        /\ StartsDistinct
        /\ escaped \/ Sound

-----------------------------------------------------------------------------
(* Facts about states that satisfy the invariant. *)

\* What the types say of stored frames: every one has a place in the ring.
LEMMA Lengths ==
    ASSUME TypeInv
    PROVE  /\ Len(frames) \in Nat
           /\ Len(delivered) \in Nat
           /\ DOMAIN frames = 1 .. Len(frames)
           /\ \A k \in 1 .. Len(frames) :
                /\ frames[k] \in Frame
                /\ frames[k].start \in Ring
                /\ frames[k].next \in Ring
                /\ frames[k].size \in 1 .. RingSize
                /\ frames[k].len \in FrameLens
           /\ RingSize \in Nat
<1>1. frames \in Seq(Frame) /\ delivered \in Seq(0 .. Len(frames))
  BY DEF TypeInv, TypeOK
<1>2. \A k \in 1 .. Len(frames) : frames[k] \in Frame
  BY <1>1
<1>3. RingSize \in Nat
  BY RingAssumption DEF RingSize
<1>4. QED
  BY <1>1, <1>2, <1>3 DEF Frame

\* While a frame is being read, it is what the driver finds.
LEMMA ReadsTheNext ==
    ASSUME IInv, ~escaped, pc \in {"next", "rsv", "header", "data"}
    PROVE  /\ StoredAt(erxrdpt) = {Len(delivered) + 1}
           /\ Len(delivered) + 1 \in Held
           /\ Len(delivered) + 1 \in 1 .. Len(frames)
<1> DEFINE d == Len(delivered) + 1
<1>1. d \in 1 .. Len(frames) /\ erxrdpt = frames[d].start
  BY Lengths DEF IInv, Sound, OnTrack, StartOf
<1>2. d \in Held
  BY <1>1, Lengths DEF Held, Released, IInv
<1>3. d \in intact
  BY <1>2 DEF IInv, Sound, Laid
<1>4. d \in StoredAt(erxrdpt)
  BY <1>1, <1>3 DEF StoredAt
<1>5. ASSUME NEW k \in StoredAt(erxrdpt)
      PROVE  k = d
  BY <1>1, <1>3 DEF StoredAt, IInv, StartsDistinct
<1>6. QED
  BY <1>1, <1>2, <1>4, <1>5

\* The ring's part of the invariant speaks of the ring alone.
LEMMA RingUnchanged ==
    ASSUME InUse, Laid, Chained, Released' = Released,
           UNCHANGED <<erxhead, erxtail, frames, intact>>
    PROVE  InUse' /\ Laid' /\ Chained'
<1>1. Held' = Held /\ Oldest' = Oldest
  BY DEF Held, Oldest
<1>2. \A k : StartOf(k)' = StartOf(k)
  BY DEF StartOf
<1>3. QED
  BY <1>1, <1>2 DEF InUse, Laid, Chained

\* Likewise for the addresses where readable frames start.
LEMMA StartsUnchanged ==
    ASSUME StartsDistinct, UNCHANGED <<frames, intact>>
    PROVE  StartsDistinct'
BY DEF StartsDistinct

-----------------------------------------------------------------------------
(* The invariant is inductive. *)

\* The empty ring satisfies the invariant.
LEMMA SoundInit == Init => IInv
<1> SUFFICES ASSUME Init
             PROVE  IInv
  OBVIOUS
<1>1. /\ Len(frames) = 0 /\ Len(delivered) = 0 /\ Released = 0
      /\ Acknowledged = 0 /\ Held = {} /\ intact = {}
      /\ \A k \in {1, 2} : StartOf(k) = RingStart
  BY DEF Init, Released, Acknowledged, Held, StartOf
<1>2. Oldest = RingStart /\ Dist(Oldest, erxhead) = 0 /\ RingSize > 2
  BY RingAssumption DEF Init, Oldest, Wrap, RingSize, Dist
<1>3. InUse
  BY <1>1, <1>2, Uint16Facts, RingAssumption DEF Init, InUse, RingSize
<1>4. Laid /\ Chained /\ StartsDistinct
  BY <1>1 DEF Laid, Chained, StartsDistinct
<1>5. OnTrack
  BY <1>1 DEF Init, OnTrack
<1>6. QED
  BY <1>1, <1>3, <1>4, <1>5, TypeInit DEF Init, IInv, Sound

\* A frame that arrives is laid behind the held ones and overwrites none of
\* them: it would run into ERXTAIL first.
LEMMA ArriveLaid ==
    ASSUME IInv, ~escaped, NEW len \in FrameLens, Arrive(len)
    PROVE  InUse' /\ Laid' /\ Chained'
<1> DEFINE s == FrameSize(len)
           n == Len(frames) + 1
           f == [start |-> erxhead, size |-> s,
                 next |-> Wrap(erxhead + s), len |-> len]
<1>1. /\ frames' = Append(frames, f)
      /\ erxhead' = Wrap(erxhead + s)
      /\ ~RunsIntoTail(s)
      /\ UNCHANGED <<erxtail, pc, delivered, escaped>>
  BY DEF Arrive, driver, history
<1>2. /\ s \in 1 .. RingSize /\ s \in Nat /\ RingSize \in Nat
      /\ erxhead \in Ring /\ erxtail \in Ring
  BY Lengths, ReceiveAssumption DEF IInv, TypeInv, TypeOK, Sound, InUse
<1>3. Dist(Oldest, erxhead) + s <= RingSize - 2
  BY <1>1, <1>2, FitsInRest DEF IInv, Sound, InUse
<1>4. Oldest \in Ring /\ Oldest' = Oldest /\ Released' = Released
  BY <1>1, <1>2, OldestInRing DEF Oldest, Released
<1>5. /\ Dist(Oldest, erxhead) \in Nat
      /\ Dist(Oldest, erxhead)' = Dist(Oldest, erxhead) + s
  <2>1. Dist(Oldest, erxhead) \in Nat
    BY <1>2, <1>4, DistRange
  <2>2. Dist(Oldest, erxhead) + s < RingSize
    BY <1>2, <1>3, <2>1
  <2>3. Dist(Oldest, Wrap(erxhead + s)) = Dist(Oldest, erxhead) + s
    BY <1>2, <1>4, <2>2, DistAdvance
  <2>4. QED
    BY <1>1, <1>4, <2>1, <2>3 DEF Dist
<1>6. /\ Len(frames') = n /\ frames'[n] = f
      /\ \A k \in 1 .. Len(frames) : frames'[k] = frames[k]
      /\ n \in Nat
  BY <1>1, Lengths DEF IInv
<1>7. /\ Held' = Held \union {n}
      /\ \A k \in Held : k \in 1 .. Len(frames) /\ k < n
      /\ n \notin Held
  <2>1. Released \in Int /\ Released < n
    BY Lengths DEF IInv, Sound, OnTrack, Released
  <2>2. QED
    BY <1>4, <1>6, <2>1, Lengths DEF Held, IInv
<1>8. ASSUME NEW k \in Held
      PROVE  /\ frames'[k] = frames[k]
             /\ frames[k].start \in Ring
             /\ frames[k].size \in Nat
             /\ frames[k].size > 0
             /\ Dist(Oldest, frames[k].start) \in Nat
             /\ Dist(Oldest, frames[k].start) + frames[k].size
                  <= Dist(Oldest, erxhead)
             /\ ~Overlap(frames[k].start, frames[k].size, erxhead, s)
  <2>1. /\ frames[k].start \in Ring /\ frames[k].size \in 1 .. RingSize
        /\ frames'[k] = frames[k]
    BY <1>6, <1>7, <1>8, Lengths DEF IInv
  <2>2. /\ frames[k].size \in Nat /\ frames[k].size > 0
        /\ Dist(Oldest, frames[k].start) \in Nat
    BY <1>2, <1>4, <2>1, DistRange
  <2>3. Dist(Oldest, frames[k].start) + frames[k].size
          <= Dist(Oldest, erxhead)
    BY <1>8 DEF IInv, Sound, Laid
  <2>4. Dist(Oldest, erxhead) + s <= RingSize
    BY <1>2, <1>3, <1>5
  <2>5. QED
    BY <1>2, <1>4, <2>1, <2>2, <2>3, <2>4, SpansApart
<1>9. InUse'
  <2>1. StartOf(Released + 1)' = StartOf(Released + 1)
    BY <1>1, <1>4, <1>6, Lengths
       DEF StartOf, Released, IInv, Sound, OnTrack
  <2>2. Dist(Oldest, erxhead)' <= RingSize - 2
    BY <1>3, <1>5
  <2>3. QED
    BY <1>1, <1>4, <2>1, <2>2 DEF InUse, Ring, RingSize, IInv, Sound
<1>10. Laid'
  <2>1. intact' = {k \in intact : ~Overlap(frames[k].start, frames[k].size,
                                           erxhead, s)} \union {n}
    BY DEF Arrive
  <2>2. Held' \subseteq intact'
    BY <1>7, <1>8, <2>1 DEF IInv, Sound, Laid
  <2>3. ASSUME NEW k \in Held'
        PROVE  Dist(Oldest, frames'[k].start) + frames'[k].size
                 <= Dist(Oldest, erxhead) + s
    BY <1>2, <1>5, <1>6, <1>7, <1>8, <2>3
  <2>4. ASSUME NEW j \in Held', NEW k \in Held', j < k
        PROVE  Dist(Oldest, frames'[j].start) + frames'[j].size
                 <= Dist(Oldest, frames'[k].start)
    <3>1. j \in Held
      BY <1>6, <1>7, <2>4
    <3>2. CASE k = n
      BY <1>6, <1>8, <3>1, <3>2
    <3>3. CASE k \in Held
      BY <1>8, <2>4, <3>1, <3>3 DEF IInv, Sound, Laid
    <3>4. QED
      BY <1>7, <3>2, <3>3
  <2>5. \A k : Dist(Oldest, frames[k].start)' = Dist(Oldest, frames'[k].start)
    BY <1>4 DEF Dist, RingSize
  <2>6. QED
    BY <1>5, <2>2, <2>3, <2>4, <2>5 DEF Laid
<1>11. Chained'
  <2>1. ASSUME NEW k \in Held
        PROVE  StartOf(k + 1)' = StartOf(k + 1)
    BY <1>1, <1>6, <1>7, <2>1, Lengths DEF StartOf, IInv
  <2>2. ASSUME NEW k, k = n
        PROVE  StartOf(k + 1)' = Wrap(erxhead + s)
    BY <1>1, <1>6, <2>2 DEF StartOf
  <2>3. ASSUME NEW k \in Held'
        PROVE  /\ frames'[k].next = Wrap(frames'[k].start + frames'[k].size)
               /\ frames'[k].next = StartOf(k + 1)'
    <3>1. CASE k = n
      <4>1. /\ frames'[k].start = erxhead /\ frames'[k].size = s
            /\ frames'[k].next = Wrap(erxhead + s)
        BY <1>6, <3>1
      <4>2. QED
        BY <2>2, <3>1, <4>1
    <3>2. CASE k \in Held
      BY <1>8, <2>1, <3>2 DEF Chained, IInv, Sound
    <3>3. QED
      BY <1>7, <3>1, <3>2
  <2>4. \A a : Wrap(a)' = Wrap(a)
    BY DEF Wrap, RingSize
  <2>5. QED
    BY <2>3, <2>4 DEF Chained
<1>12. QED
  BY <1>9, <1>10, <1>11

\* Whatever an arriving frame overwrites is no longer read from there.
LEMMA ArriveDistinct ==
    ASSUME IInv, NEW len \in FrameLens, Arrive(len)
    PROVE  StartsDistinct'
<1> DEFINE s == FrameSize(len)
           n == Len(frames) + 1
<1>1. /\ n \in Nat
      /\ frames'[n].start = erxhead
      /\ \A k \in 1 .. Len(frames) : frames'[k] = frames[k]
  BY Lengths DEF IInv, Arrive
<1>2. intact' = {k \in intact : ~Overlap(frames[k].start, frames[k].size,
                                         erxhead, s)} \union {n}
  BY DEF Arrive
<1>3. intact \subseteq 1 .. Len(frames)
  BY DEF IInv, TypeInv, TypeOK
<1>4. ASSUME NEW k \in intact, ~Overlap(frames[k].start, frames[k].size,
                                        erxhead, s)
      PROVE  frames'[k] = frames[k] /\ frames[k].start # erxhead
  <2>1. k \in 1 .. Len(frames)
    BY <1>3
  <2>2. frames[k].start \in Ring /\ frames[k].size \in 1 .. RingSize
    BY <2>1, Lengths DEF IInv
  <2>3. ASSUME frames[k].start = erxhead
        PROVE  FALSE
    BY <1>4, <2>2, <2>3, Lengths, RingAssumption DEF Overlap, Dist, Ring, IInv
  <2>4. QED
    BY <1>1, <2>1, <2>3
<1>5. ASSUME NEW j \in intact', NEW k \in intact',
             frames'[j].start = frames'[k].start
      PROVE  j = k
  <2>1. CASE j = n /\ k = n
    BY <2>1
  <2>2. CASE j # n /\ k = n
    BY <1>1, <1>2, <1>4, <1>5, <2>2
  <2>3. CASE j = n /\ k # n
    BY <1>1, <1>2, <1>4, <1>5, <2>3
  <2>4. CASE j # n /\ k # n
    BY <1>2, <1>4, <1>5, <2>4 DEF IInv, StartsDistinct
  <2>5. QED
    BY <2>1, <2>2, <2>3, <2>4
<1>6. QED
  BY <1>5 DEF StartsDistinct

\* Storing a frame keeps the whole invariant.
LEMMA ArriveSound ==
    ASSUME IInv, NEW len \in FrameLens, Arrive(len)
    PROVE  StartsDistinct' /\ (escaped \/ Sound)'
<1>1. StartsDistinct'
  BY ArriveDistinct
<1>2. ASSUME ~escaped
      PROVE  Sound'
  <2>1. InUse' /\ Laid' /\ Chained'
    BY <1>2, ArriveLaid
  <2>2. /\ UNCHANGED <<pc, delivered, erxrdpt, current,
                       next_receive_frame_pointer>>
        /\ pktcnt' = pktcnt + 1
        /\ Len(frames') = Len(frames) + 1
        /\ \A k \in 1 .. Len(frames) : frames'[k] = frames[k]
        /\ frames'[Len(frames) + 1].start = erxhead
    BY Lengths DEF IInv, Arrive, driver, history
  <2>3. ASSUME NEW k \in Nat, 1 <= k, k <= Len(frames) + 1
        PROVE  StartOf(k)' = StartOf(k)
    BY <2>2, <2>3, Lengths DEF StartOf, IInv
  <2>4. OnTrack'
    <3>1. /\ Len(delivered) \in Nat /\ Len(frames) \in Nat
          /\ OnTrack
      BY <1>2, Lengths DEF IInv, Sound
    <3>2. pc \in {"rsv", "header", "data"} =>
             StartOf(Len(delivered) + 2)' = StartOf(Len(delivered) + 2)
      BY <2>2, <2>3, <3>1 DEF OnTrack
    <3>3. StartOf(Len(delivered) + 1)' = StartOf(Len(delivered) + 1)
      BY <2>2, <2>3, <3>1 DEF OnTrack
    <3>4. QED
      BY <2>2, <3>1, <3>2, <3>3 DEF OnTrack
  <2>5. pktcnt' = Len(frames') - Acknowledged'
    <3>1. Acknowledged' = Acknowledged /\ Acknowledged \in Int
      BY <2>2, Lengths DEF IInv, Acknowledged
    <3>2. pktcnt = Len(frames) - Acknowledged /\ Len(frames) \in Nat
      BY <1>2, Lengths DEF IInv, Sound
    <3>3. QED
      BY <2>2, <3>1, <3>2
  <2>6. QED
    BY <1>2, <2>1, <2>2, <2>4, <2>5 DEF IInv, Sound
<1>3. QED
  BY <1>1, <1>2 DEF Arrive, history

\* The steps that leave the ring and the two histories alone.
LEMMA LocalSound ==
    ASSUME IInv, OnTrack' \/ escaped, Released' = Released,
           Acknowledged' = Acknowledged,
           UNCHANGED <<erxhead, erxtail, pktcnt, frames, intact, history>>
    PROVE  StartsDistinct' /\ (escaped \/ Sound)'
<1>1. StartsDistinct'
  BY StartsUnchanged DEF IInv
<1>2. ASSUME ~escaped
      PROVE  Sound'
  BY <1>2, RingUnchanged DEF IInv, Sound, history
<1>3. QED
  BY <1>1, <1>2 DEF history

\* Handing bytes back keeps the invariant: ERXTAIL either leaves the ring or
\* moves behind the frame just read, whose bytes alone become free.
LEMMA WriteERXTAILSound ==
    ASSUME IInv, WriteERXTAIL
    PROVE  StartsDistinct' /\ (escaped \/ Sound)'
<1> DEFINE d == Len(delivered)
<1>1. /\ pc = "tail" /\ pc' = "dec"
      /\ erxtail' = Uint16Minus(next_receive_frame_pointer, 2)
      /\ escaped' = (escaped \/ erxtail' \notin Ring)
      /\ UNCHANGED <<erxhead, erxrdpt, pktcnt, frames, intact, delivered,
                     next_receive_frame_pointer, current>>
  BY DEF WriteERXTAIL, SetTail
<1>2. StartsDistinct'
  BY <1>1, StartsUnchanged DEF IInv
<1>3. ASSUME ~escaped'
      PROVE  Sound'
  <2>1. Sound /\ erxtail' \in Ring /\ TypeInv
    BY <1>1, <1>3 DEF IInv
  <2>2. /\ d \in 1 .. Len(frames) /\ Len(frames) \in Nat
        /\ Released = d - 1 /\ Released' = d /\ Acknowledged' = Acknowledged
        /\ next_receive_frame_pointer = StartOf(d + 1)
        /\ d \in Held
    BY <1>1, <2>1, Lengths
       DEF Sound, OnTrack, Released, Acknowledged, Held
  <2>3. /\ frames[d].start \in Ring /\ frames[d].size \in 1 .. RingSize
        /\ frames[d].next \in Ring /\ RingSize \in Nat
        /\ erxhead \in Ring /\ Oldest \in Ring
    BY <2>1, <2>2, Lengths, OldestInRing
       DEF TypeInv, TypeOK, Sound, InUse
  <2>4. /\ Oldest = frames[d].start
        /\ next_receive_frame_pointer = frames[d].next
        /\ frames[d].next = Wrap(frames[d].start + frames[d].size)
    BY <2>1, <2>2 DEF Sound, InUse, Chained, StartOf
  <2>5. Oldest' = frames[d].next
    <3>1. next_receive_frame_pointer \in Ring
      BY <2>3, <2>4
    <3>2. erxtail' = next_receive_frame_pointer - 2
      BY <1>1, <2>1, <3>1, Uint16Facts, RingAssumption, ReceiveAssumption
         DEF Uint16Minus, Ring
    <3>3. QED
      BY <2>3, <2>4, <3>1, <3>2, RingAssumption
         DEF Oldest, Wrap, Ring, RingSize
  <2>6. /\ Dist(Oldest, frames[d].start) = 0
        /\ Dist(Oldest, erxhead) \in Nat
        /\ frames[d].size <= Dist(Oldest, erxhead)
        /\ Dist(Oldest, frames[d].next) = frames[d].size
    <3>1. Dist(Oldest, frames[d].start) = 0
      BY <2>3, <2>4 DEF Dist, Ring
    <3>2. Dist(Oldest, erxhead) \in Nat
      BY <2>3, DistRange
    <3>3. frames[d].size <= Dist(Oldest, erxhead)
      BY <2>1, <2>2, <2>3, <3>1, <3>2 DEF Sound, Laid
    <3>4. 0 + frames[d].size < RingSize
      BY <2>1, <2>3, <3>2, <3>3 DEF Sound, InUse
    <3>5. QED
      BY <2>3, <2>4, <3>1, <3>2, <3>3, <3>4, DistAdvance
  <2>7. Held = Held' \union {d} /\ d \notin Held'
    BY <1>1, <2>2 DEF Held
  <2>8. ASSUME NEW x \in Ring, frames[d].size <= Dist(Oldest, x)
        PROVE  Dist(frames[d].next, x) = Dist(Oldest, x) - frames[d].size
    BY <2>3, <2>6, <2>8, DistRebase
  <2>9. \A k : StartOf(k)' = StartOf(k)
    BY <1>1 DEF StartOf
  <2>10. InUse'
    <3>1. Dist(Oldest, erxhead)' = Dist(frames[d].next, erxhead)
      BY <1>1, <2>5 DEF Dist, RingSize
    <3>2. Dist(frames[d].next, erxhead) <= RingSize - 2
      BY <2>1, <2>3, <2>6, <2>8 DEF Sound, InUse
    <3>3. RingSize' = RingSize /\ Ring' = Ring
      BY DEF RingSize, Ring
    <3>4. Oldest' = StartOf(Released + 1)'
      BY <2>2, <2>4, <2>5, <2>9
    <3>5. QED
      BY <2>1, <3>1, <3>2, <3>3, <3>4 DEF InUse
  <2>11. Laid'
    <3>1. ASSUME NEW k \in Held'
          PROVE  /\ frames[k].start \in Ring /\ frames[k].size \in Nat
                 /\ Dist(Oldest, frames[k].start) \in Nat
                 /\ frames[d].size <= Dist(Oldest, frames[k].start)
                 /\ Dist(frames[d].next, frames[k].start)
                      = Dist(Oldest, frames[k].start) - frames[d].size
                 /\ k \in Held /\ k \in Nat
      <4>1. k \in Held /\ k \in 1 .. Len(frames) /\ d < k
        BY <1>1, <2>2, <2>7, <3>1 DEF Held
      <4>2. /\ frames[k].start \in Ring
            /\ frames[k].size \in 1 .. RingSize
        BY <2>1, <4>1, Lengths
      <4>3. Dist(Oldest, frames[k].start) \in Nat
        <5>1. Dist(Oldest, frames[k].start) \in 0 .. RingSize - 1
          BY <2>3, <4>2, DistRange
        <5>2. QED
          BY <2>3, <5>1
      <4>4. frames[d].size <= Dist(Oldest, frames[k].start)
        BY <2>1, <2>2, <2>3, <2>6, <4>1, <4>3 DEF Sound, Laid
      <4>5. QED
        BY <2>3, <2>8, <4>1, <4>2, <4>3, <4>4
    <3>2. Dist(frames[d].next, erxhead)
            = Dist(Oldest, erxhead) - frames[d].size
      BY <2>3, <2>6, <2>8
    <3>3. ASSUME NEW k \in Held'
          PROVE  Dist(frames[d].next, frames[k].start) + frames[k].size
                   <= Dist(frames[d].next, erxhead)
      <4>1. Dist(Oldest, frames[k].start) + frames[k].size
              <= Dist(Oldest, erxhead)
        BY <2>1, <3>1, <3>3 DEF Sound, Laid
      <4>2. Dist(frames[d].next, frames[k].start)
              = Dist(Oldest, frames[k].start) - frames[d].size
        BY <3>1, <3>3
      <4>3. /\ frames[k].size \in Nat /\ frames[d].size \in Nat
            /\ Dist(Oldest, frames[k].start) \in Nat
            /\ Dist(Oldest, erxhead) \in Nat
        BY <2>3, <2>6, <3>1, <3>3
      <4>4. QED
        BY <3>2, <4>1, <4>2, <4>3
    <3>4. ASSUME NEW j \in Held', NEW k \in Held', j < k
          PROVE  Dist(frames[d].next, frames[j].start) + frames[j].size
                   <= Dist(frames[d].next, frames[k].start)
      <4>1. Dist(Oldest, frames[j].start) + frames[j].size
              <= Dist(Oldest, frames[k].start)
        BY <2>1, <3>1, <3>4 DEF Sound, Laid
      <4>2. QED
        BY <2>3, <3>1, <3>4, <4>1
    <3>5. /\ \A k : Dist(Oldest, frames[k].start)'
                      = Dist(frames[d].next, frames[k].start)
          /\ Dist(Oldest, erxhead)' = Dist(frames[d].next, erxhead)
      BY <1>1, <2>5 DEF Dist, RingSize
    <3>6. Held' \subseteq intact'
      BY <1>1, <2>1, <2>7 DEF Sound, Laid
    <3>7. QED
      BY <1>1, <3>3, <3>4, <3>5, <3>6 DEF Laid
  <2>12. Chained'
    <3>1. \A a : Wrap(a)' = Wrap(a)
      BY DEF Wrap, RingSize
    <3>2. QED
      BY <1>1, <2>1, <2>7, <2>9, <3>1 DEF Chained, Sound
  <2>13. OnTrack'
    BY <1>1, <2>1, <2>2, <2>9 DEF OnTrack, Sound
  <2>14. QED
    BY <1>1, <2>1, <2>2, <2>10, <2>11, <2>12, <2>13 DEF Sound
<1>4. QED
  BY <1>2, <1>3

\* Reading a frame: the transactions find the frame after the last delivered
\* one, and its pointer leads to the one after it.
LEMMA ReadingSound ==
    ASSUME IInv, ReadNextPointer \/ ReadRSV \/ ReadHeader
    PROVE  StartsDistinct' /\ (escaped \/ Sound)'
<1>1. /\ UNCHANGED <<erxhead, erxtail, erxrdpt, pktcnt, frames, intact,
                     history>>
      /\ Released' = Released /\ Acknowledged' = Acknowledged
  BY DEF ReadNextPointer, FollowNextPointer, ReadRSV, ReadHeader, hardware,
         history, Released, Acknowledged
<1>2. ASSUME ~escaped
      PROVE  OnTrack'
  <2> DEFINE d == Len(delivered) + 1
  <2>1. /\ StoredAt(erxrdpt) = {d}
        /\ d \in Held /\ d \in 1 .. Len(frames)
        /\ OnTrack /\ Chained
        /\ Len(delivered) \in Nat
    BY <1>2, ReadsTheNext, Lengths
       DEF ReadNextPointer, FollowNextPointer, ReadRSV, ReadHeader, IInv,
           Sound
  <2>2. /\ \A k : StartOf(k)' = StartOf(k)
        /\ Len(delivered)' = Len(delivered) /\ Len(frames)' = Len(frames)
    BY <1>1 DEF StartOf, history
  <2>3. CASE ReadNextPointer
    <3>1. /\ pc = "next" /\ pc' = "rsv" /\ current' = d
          /\ next_receive_frame_pointer' = frames[d].next
      BY <2>1, <2>3 DEF ReadNextPointer, FollowNextPointer
    <3>2. frames[d].next = StartOf(Len(delivered) + 2)
      BY <2>1 DEF Chained
    <3>3. QED
      BY <1>1, <2>1, <2>2, <3>1, <3>2 DEF OnTrack
  <2>4. CASE ReadRSV
    <3>1. /\ pc = "rsv" /\ pc' = "header" /\ current' = d
          /\ next_receive_frame_pointer' = next_receive_frame_pointer
      BY <2>1, <2>4 DEF ReadRSV, OnTrack
    <3>2. QED
      BY <1>1, <2>1, <2>2, <3>1 DEF OnTrack
  <2>5. CASE ReadHeader
    <3>1. /\ pc = "header" /\ pc' = "data" /\ current' = d
          /\ next_receive_frame_pointer' = next_receive_frame_pointer
      BY <2>1, <2>5 DEF ReadHeader, OnTrack
    <3>2. QED
      BY <1>1, <2>1, <2>2, <3>1 DEF OnTrack
  <2>6. QED
    BY <2>3, <2>4, <2>5
<1>3. QED
  BY <1>1, <1>2, LocalSound

\* Before anything is read.
LEMMA StartingSound ==
    ASSUME IInv, CallWithNull \/ CheckPKTCNT \/ WriteERXRDPT
    PROVE  StartsDistinct' /\ (escaped \/ Sound)'
<1>1. /\ UNCHANGED <<erxhead, erxtail, pktcnt, frames, intact, history,
                     next_receive_frame_pointer, current>>
      /\ Released' = Released /\ Acknowledged' = Acknowledged
      /\ pc \in {"idle", "seek"} /\ pc' \in {"idle", "seek", "next"}
  BY DEF CallWithNull, CheckPKTCNT, Check, WriteERXRDPT, Seek, hardware,
         history, Released, Acknowledged
<1>2. ASSUME ~escaped
      PROVE  OnTrack'
  <2>1. /\ OnTrack /\ Len(delivered) \in Nat /\ Len(frames) \in Nat
        /\ pktcnt = Len(frames) - Len(delivered)
    BY <1>1, <1>2, Lengths DEF IInv, Sound, Acknowledged
  <2>2. /\ \A k : StartOf(k)' = StartOf(k)
        /\ Len(delivered)' = Len(delivered) /\ Len(frames)' = Len(frames)
    BY <1>1 DEF StartOf, history
  <2>3. pc' = "seek" => Len(delivered) < Len(frames)
    BY <2>1 DEF CallWithNull, CheckPKTCNT, Check, WriteERXRDPT, Seek, OnTrack
  <2>4. pc' = "next" => /\ Len(delivered) < Len(frames)
                        /\ erxrdpt' = StartOf(Len(delivered) + 1)
    BY <2>1 DEF CallWithNull, CheckPKTCNT, Check, WriteERXRDPT, Seek, OnTrack
  <2>5. QED
    BY <1>1, <2>1, <2>2, <2>3, <2>4 DEF OnTrack
<1>3. QED
  BY <1>1, <1>2, LocalSound

\* The frame read last is the next one to deliver, and still whole.
LEMMA ReadDataSound ==
    ASSUME IInv, ReadData
    PROVE  StartsDistinct' /\ (escaped \/ Sound)'
<1>1. /\ UNCHANGED <<erxhead, erxtail, erxrdpt, pktcnt, frames, intact,
                     next_receive_frame_pointer, escaped>>
      /\ pc = "data" /\ pc' = "tail"
      /\ delivered' = Append(delivered, IF current \in StoredAt(erxrdpt)
                                          THEN current ELSE 0)
  BY DEF ReadData, hardware
<1>2. StartsDistinct'
  BY <1>1, StartsUnchanged DEF IInv
<1>3. ASSUME ~escaped
      PROVE  Sound'
  <2> DEFINE d == Len(delivered) + 1
  <2>1. /\ StoredAt(erxrdpt) = {d} /\ d \in 1 .. Len(frames)
        /\ Sound /\ current = d
        /\ Len(delivered) \in Nat /\ Len(frames) \in Nat
        /\ delivered \in Seq(0 .. Len(frames))
    BY <1>1, <1>3, ReadsTheNext, Lengths
       DEF IInv, Sound, OnTrack, TypeInv, TypeOK
  <2>2. delivered' = Append(delivered, d)
    BY <1>1, <2>1
  <2>3. /\ Len(delivered') = Len(delivered) + 1
        /\ delivered'[d] = d
        /\ \A i \in 1 .. Len(delivered) : delivered'[i] = delivered[i]
    BY <2>1, <2>2
  <2>4. Released' = Released /\ Acknowledged' = Acknowledged
    BY <1>1, <2>1, <2>3 DEF Released, Acknowledged
  <2>5. InUse' /\ Laid' /\ Chained'
    BY <1>1, <2>1, <2>4, RingUnchanged DEF Sound
  <2>6. \A k : StartOf(k)' = StartOf(k)
    BY <1>1 DEF StartOf
  <2>7. OnTrack'
    BY <1>1, <2>1, <2>3, <2>6 DEF OnTrack, Sound
  <2>8. \A i \in 1 .. Len(delivered') : delivered'[i] = i
    BY <2>1, <2>3 DEF Sound
  <2>9. QED
    BY <1>1, <2>1, <2>4, <2>5, <2>7, <2>8 DEF Sound
<1>4. QED
  BY <1>1, <1>2, <1>3

\* SETPKTDEC uncounts the frame just given back.
LEMMA DecrementSound ==
    ASSUME IInv, DecrementPKTCNT
    PROVE  StartsDistinct' /\ (escaped \/ Sound)'
<1>1. /\ UNCHANGED <<erxhead, erxtail, erxrdpt, frames, intact, delivered,
                     next_receive_frame_pointer, current, escaped>>
      /\ pc = "dec" /\ pc' = "idle"
      /\ pktcnt' = pktcnt - 1
      /\ Released' = Released
  BY DEF DecrementPKTCNT, CountDown, history, Released
<1>2. StartsDistinct'
  BY <1>1, StartsUnchanged DEF IInv
<1>3. ASSUME ~escaped
      PROVE  Sound'
  <2>1. Sound /\ Len(delivered) \in Nat /\ Len(frames) \in Nat
    BY <1>3, Lengths DEF IInv
  <2>2. InUse' /\ Laid' /\ Chained'
    BY <1>1, <2>1, RingUnchanged DEF Sound
  <2>3. \A k : StartOf(k)' = StartOf(k)
    BY <1>1 DEF StartOf
  <2>4. OnTrack'
    BY <1>1, <2>1, <2>3 DEF OnTrack, Sound
  <2>5. pktcnt' = Len(frames') - Acknowledged'
    BY <1>1, <2>1 DEF Sound, Acknowledged
  <2>6. QED
    BY <1>1, <2>1, <2>2, <2>4, <2>5 DEF Sound
<1>4. QED
  BY <1>1, <1>2, <1>3

\* A step that changes no variable.
LEMMA StutterSound ==
    ASSUME IInv, UNCHANGED vars
    PROVE  StartsDistinct' /\ (escaped \/ Sound)'
<1>1. /\ UNCHANGED <<erxhead, erxtail, erxrdpt, pktcnt, frames, intact, pc,
                     next_receive_frame_pointer, current>>
      /\ UNCHANGED history
  BY DEF vars, hardware, driver
<1>2. Released' = Released /\ Acknowledged' = Acknowledged
  BY <1>1 DEF history, Released, Acknowledged
<1>3. OnTrack' \/ escaped
  BY <1>1 DEF IInv, Sound, OnTrack, StartOf, history
<1>4. QED
  BY <1>1, <1>2, <1>3, LocalSound

\* The invariant is inductive: every step keeps it.
LEMMA SoundStep == IInv /\ [Next]_vars => IInv'
<1> SUFFICES ASSUME IInv, [Next]_vars
             PROVE  IInv'
  OBVIOUS
<1>1. TypeInv'
  BY TypeStep DEF IInv
<1>2. StartsDistinct' /\ (escaped \/ Sound)'
  BY ArriveSound, StartingSound, ReadingSound, ReadDataSound,
     WriteERXTAILSound, DecrementSound, StutterSound DEF Next, Receive
<1>3. QED
  BY <1>1, <1>2 DEF IInv

\* The inductive invariant holds in every reachable state; the properties
\* below are read off it.
THEOREM Invariance == Spec => []IInv
BY SoundInit, SoundStep, PTL DEF Spec

\* The chip's full check protects what the driver has not read: storing never
\* destroys an unread frame as long as ERXTAIL stayed in the ring.
THEOREM NothingUnreadIsLost == Spec => []UnreadIntact
<1>1. IInv => UnreadIntact
  <2>1. ASSUME IInv, Sound, NEW k \in Unread
        PROVE  k \in intact
    <3>1. k \in Held
      BY <2>1, Lengths DEF Unread, Held, Released, IInv
    <3>2. QED
      BY <2>1, <3>1 DEF Sound, Laid
  <2>2. QED
    BY <2>1 DEF IInv, UnreadIntact
<1>2. QED
  BY <1>1, Invariance, PTL

\* The driver hands over every stored frame once, whole and in order, as long
\* as ERXTAIL stayed in the ring.
THEOREM DeliveredInOrder == Spec => []InOrder
<1>1. IInv => InOrder
  BY DEF IInv, Sound, InOrder
<1>2. QED
  BY <1>1, Invariance, PTL

\* PKTCNT counts the frames the driver has not finished with.
THEOREM CountedExactly == Spec => []PendingCounted
<1>1. IInv => PendingCounted
  BY DEF IInv, Sound, PendingCounted
<1>2. QED
  BY <1>1, Invariance, PTL

\* Between calls the driver's pointer and ERXTAIL agree with the hardware's
\* chain of frames.
THEOREM Agreement == Spec => []PointersAgree
<1>1. IInv => PointersAgree
  <2>1. ASSUME IInv, Sound, pc = "idle"
        PROVE  /\ next_receive_frame_pointer = Oldest
               /\ next_receive_frame_pointer = StartOf(Len(delivered) + 1)
    BY <2>1 DEF Sound, InUse, OnTrack, Released
  <2>2. QED
    BY <2>1, Lengths DEF IInv, PointersAgree, StartOf
<1>2. QED
  BY <1>1, Invariance, PTL

\* Order, count and pointers together: the driver stays in step with the ring.
THEOREM InStep == Spec => []DriverInStep
<1>1. InOrder /\ PendingCounted /\ PointersAgree => DriverInStep
  BY DEF DriverInStep
<1>2. QED
  BY <1>1, DeliveredInOrder, CountedExactly, Agreement, PTL

-----------------------------------------------------------------------------
(* EncReceive implements RxFifo. *)

\* What `accepted' of RxFifo stands for.
sizes == [i \in DOMAIN frames |-> frames[i].size]

\* The sizes of the stored frames are a sequence as long as they are.
LEMMA SizesSeq ==
    ASSUME TypeInv
    PROVE  sizes \in Seq(Nat) /\ Len(sizes) = Len(frames)
<1>1. DOMAIN frames = 1 .. Len(frames) /\ Len(frames) \in Nat
  BY Lengths
<1>2. sizes \in [1 .. Len(frames) -> Nat]
  BY <1>1, Lengths DEF sizes
<1>3. QED
  BY <1>1, <1>2 DEF sizes

\* The empty ring is the empty byte budget.
LEMMA FifoInit == Init => Fifo!Init
<1> SUFFICES ASSUME Init
             PROVE  Fifo!Init
  OBVIOUS
<1>1. sizes = << >>
  BY DEF Init, sizes
<1>2. Released = 0 /\ Acknowledged = 0
  BY DEF Init, Released, Acknowledged
<1>3. Dist(Oldest, erxhead) = 0
  BY RingAssumption DEF Init, Oldest, Wrap, RingSize, Dist
<1>4. QED
  BY <1>1, <1>2, <1>3 DEF Init, Fifo!Init, sizes

\* Storing a frame is accepting it: what lies between Oldest and ERXHEAD is
\* the budget in use.
LEMMA FifoAccept ==
    ASSUME IInv, ~escaped, NEW len \in FrameLens, Arrive(len)
    PROVE  Fifo!Accept(FrameSize(len))
<1> DEFINE s == FrameSize(len)
           n == Len(frames) + 1
<1>1. /\ ~RunsIntoTail(s) /\ pktcnt < PktMax
      /\ UNCHANGED <<erxtail, pc, delivered, escaped>>
      /\ erxhead' = Wrap(erxhead + s)
      /\ Len(frames') = n /\ frames'[n].size = s
      /\ DOMAIN frames' = 1 .. n
      /\ \A k \in 1 .. Len(frames) : frames'[k] = frames[k]
  BY Lengths DEF Arrive, driver, history, IInv
<1>2. /\ s \in Nat /\ RingSize \in Nat /\ erxhead \in Ring
      /\ erxtail \in Ring /\ Oldest \in Ring
      /\ Len(frames) \in Nat /\ DOMAIN frames = 1 .. Len(frames)
      /\ Acknowledged \in Int /\ pktcnt = Len(frames) - Acknowledged
  BY Lengths, ReceiveAssumption, OldestInRing
     DEF IInv, TypeInv, TypeOK, Sound, InUse, Acknowledged
<1>3. Released' = Released /\ Acknowledged' = Acknowledged
      /\ Oldest' = Oldest
  BY <1>1 DEF Released, Acknowledged, Oldest
<1>4. Dist(Oldest, erxhead) + s <= RingSize - 2
  BY <1>1, <1>2, FitsInRest DEF IInv, Sound, InUse
<1>5. Dist(Oldest, erxhead)' = Dist(Oldest, erxhead) + s
  <2>1. Dist(Oldest, erxhead) \in Nat
    BY <1>2, DistRange
  <2>2. Dist(Oldest, erxhead) + s < RingSize
    BY <1>2, <1>4, <2>1
  <2>3. Dist(Oldest, Wrap(erxhead + s)) = Dist(Oldest, erxhead) + s
    BY <1>2, <2>2, DistAdvance
  <2>4. QED
    BY <1>1, <1>3, <2>3 DEF Dist, RingSize
<1>6. sizes' = Append(sizes, s)
  <2>1. sizes \in Seq(Nat) /\ Len(sizes) = Len(frames)
    BY SizesSeq DEF IInv
  <2>2. /\ Append(sizes, s) \in Seq(Nat)
        /\ DOMAIN Append(sizes, s) = 1 .. n
        /\ Append(sizes, s)[n] = s
        /\ \A k \in 1 .. Len(frames) : Append(sizes, s)[k] = sizes[k]
    BY <1>2, <2>1
  <2>3. /\ DOMAIN sizes' = 1 .. n
        /\ sizes'[n] = s
        /\ \A k \in 1 .. Len(frames) : sizes'[k] = sizes[k]
    BY <1>1, <1>2 DEF sizes
  <2>4. \A k \in 1 .. n : sizes'[k] = Append(sizes, s)[k]
    BY <1>2, <2>2, <2>3
  <2>5. \A k \in 1 .. n : sizes'[k] \in Nat
    BY <1>2, <2>2, <2>4, ElementOfSeq, LenProperties
  <2>6. sizes' \in [1 .. n -> Nat]
    BY <1>1, <2>5 DEF sizes
  <2>7. sizes' \in Seq(Nat) /\ Len(sizes') = n
    BY <1>2, <2>3, <2>6
  <2>8. Len(Append(sizes, s)) = n
    BY <1>2, <2>1
  <2>9. QED
    BY <2>2, <2>4, <2>7, <2>8, SeqEqual
<1>7. Len(sizes) - Acknowledged < PktMax
  BY <1>1, <1>2, SizesSeq DEF IInv
<1>8. QED
  BY <1>1, <1>3, <1>4, <1>5, <1>6, <1>7 DEF Fifo!Accept, sizes

\* Reading the payload of a frame is delivering it.
LEMMA FifoDeliver ==
    ASSUME IInv, ~escaped, ReadData
    PROVE  Fifo!Deliver
<1>1. /\ UNCHANGED <<erxhead, erxtail, frames, escaped>>
      /\ pc = "data" /\ pc' = "tail"
      /\ delivered' = Append(delivered, IF current \in StoredAt(erxrdpt)
                                          THEN current ELSE 0)
  BY DEF ReadData, hardware
<1>2. /\ StoredAt(erxrdpt) = {Len(delivered) + 1}
      /\ current = Len(delivered) + 1
      /\ Len(delivered) < Len(frames)
      /\ Len(delivered) \in Nat /\ delivered \in Seq(0 .. Len(frames))
  BY <1>1, ReadsTheNext, Lengths DEF IInv, Sound, OnTrack, TypeInv, TypeOK
<1>3. /\ delivered' = Append(delivered, Len(delivered) + 1)
      /\ Len(delivered') = Len(delivered) + 1
  BY <1>1, <1>2
<1>4. /\ Released' = Released /\ Acknowledged' = Acknowledged
      /\ Acknowledged = Len(delivered)
  BY <1>1, <1>2, <1>3 DEF Released, Acknowledged
<1>5. Dist(Oldest, erxhead)' = Dist(Oldest, erxhead) /\ sizes' = sizes
  BY <1>1 DEF Dist, RingSize, Oldest, Wrap, sizes
<1>6. Len(sizes) = Len(frames)
  BY SizesSeq DEF IInv
<1>7. QED
  BY <1>1, <1>2, <1>3, <1>4, <1>5, <1>6 DEF Fifo!Deliver, sizes

\* Moving ERXTAIL inside the ring releases the bytes of one frame.
LEMMA FifoRelease ==
    ASSUME IInv, ~escaped, ~escaped', WriteERXTAIL
    PROVE  Fifo!Release
<1> DEFINE d == Len(delivered)
<1>1. /\ pc = "tail" /\ pc' = "dec"
      /\ UNCHANGED <<erxhead, frames, intact, delivered, escaped>>
  <2>1. escaped = FALSE
    BY DEF IInv, TypeInv, TypeOK
  <2>2. escaped' = FALSE
    <3>1. escaped' \in BOOLEAN
      BY SoundStep DEF Next, Receive, IInv, TypeInv, TypeOK
    <3>2. QED
      BY <3>1
  <2>3. QED
    BY <2>1, <2>2 DEF WriteERXTAIL, SetTail
<1>2. /\ d \in 1 .. Len(frames) /\ Len(frames) \in Nat
      /\ Released = d - 1 /\ Released' = d /\ Acknowledged' = Acknowledged
      /\ d \in Held
  BY <1>1, Lengths
     DEF IInv, Sound, OnTrack, Released, Acknowledged, Held
<1>3. sizes' = sizes /\ sizes[d] = frames[d].size
  BY <1>1, <1>2, Lengths DEF sizes, IInv
<1>4. /\ Oldest = frames[d].start /\ Oldest' = frames[d].next
  <2>1. Oldest = frames[d].start
    BY <1>2 DEF IInv, Sound, InUse, StartOf
  <2>2. Sound'
    BY WriteERXTAILSound
  <2>3. Oldest' = StartOf(d + 1)'
    BY <1>1, <1>2, <2>2 DEF Sound, InUse
  <2>4. StartOf(d + 1)' = StartOf(d + 1)
    BY <1>1 DEF StartOf
  <2>5. QED
    BY <1>2, <2>1, <2>3, <2>4 DEF IInv, Sound, Chained
<1>5. Dist(Oldest, erxhead)' = Dist(Oldest, erxhead) - frames[d].size
  <2>1. /\ frames[d].start \in Ring /\ frames[d].size \in 1 .. RingSize
        /\ frames[d].next \in Ring /\ RingSize \in Nat
        /\ erxhead \in Ring /\ Oldest \in Ring
        /\ frames[d].next = Wrap(frames[d].start + frames[d].size)
    BY <1>2, <1>4, Lengths DEF IInv, TypeInv, TypeOK, Sound, Chained
  <2>2. Dist(Oldest, frames[d].start) = 0
    BY <1>4, <2>1 DEF Dist, Ring
  <2>3. Dist(Oldest, erxhead) \in 0 .. RingSize - 1
    BY <2>1, DistRange
  <2>4. /\ frames[d].size <= Dist(Oldest, erxhead)
        /\ Dist(Oldest, erxhead) <= RingSize - 2
    BY <1>2, <2>1, <2>2, <2>3 DEF IInv, Sound, Laid, InUse
  <2>5. Dist(Oldest, frames[d].next) = 0 + frames[d].size
    BY <2>1, <2>2, <2>3, <2>4, DistAdvance
  <2>6. Dist(frames[d].next, erxhead)
          = Dist(Oldest, erxhead) - frames[d].size
    BY <2>1, <2>4, <2>5, DistRebase
  <2>7. QED
    BY <1>1, <1>4, <2>6 DEF Dist, RingSize
<1>6. QED
  BY <1>1, <1>2, <1>3, <1>5 DEF Fifo!Release, sizes

\* SETPKTDEC is acknowledging.
LEMMA FifoAcknowledge ==
    ASSUME IInv, ~escaped, DecrementPKTCNT
    PROVE  Fifo!Acknowledge
<1>1. /\ UNCHANGED <<erxhead, erxtail, frames, delivered, escaped>>
      /\ pc = "dec" /\ pc' = "idle"
  BY DEF DecrementPKTCNT, CountDown, history
<1>2. /\ Released' = Released /\ Released = Len(delivered)
      /\ Acknowledged = Len(delivered) - 1 /\ Acknowledged' = Len(delivered)
      /\ Len(delivered) \in Nat
  BY <1>1, Lengths DEF Released, Acknowledged, IInv
<1>3. Dist(Oldest, erxhead)' = Dist(Oldest, erxhead) /\ sizes' = sizes
  BY <1>1 DEF Dist, RingSize, Oldest, Wrap, sizes
<1>4. QED
  BY <1>1, <1>2, <1>3 DEF Fifo!Acknowledge, sizes

\* The other steps change nothing RxFifo sees.
LEMMA FifoStutter ==
    ASSUME UNCHANGED <<erxhead, erxtail, frames, history>>,
           Released' = Released, Acknowledged' = Acknowledged
    PROVE  UNCHANGED Fifo!vars
<1>1. Dist(Oldest, erxhead)' = Dist(Oldest, erxhead) /\ sizes' = sizes
  BY DEF Dist, RingSize, Oldest, Wrap, sizes
<1>2. QED
  BY <1>1 DEF Fifo!vars, history, sizes

\* Every step of EncReceive is a step of RxFifo or a stutter.
LEMMA FifoStep == IInv /\ [Next]_vars => [Fifo!Next]_(Fifo!vars)
<1> SUFFICES ASSUME IInv, [Next]_vars
             PROVE  [Fifo!Next]_(Fifo!vars)
  OBVIOUS
<1>1. CASE escaped'
  BY <1>1 DEF Fifo!Next, Fifo!Spoil
<1>2. CASE ~escaped'
  <2>1. ~escaped
    BY <1>2 DEF Next, Receive, vars, Arrive, CallWithNull, CheckPKTCNT, Check,
                WriteERXRDPT, Seek, ReadNextPointer, ReadRSV, ReadHeader,
                ReadData, WriteERXTAIL, SetTail, DecrementPKTCNT, CountDown,
                history
  <2>2. ASSUME NEW len \in FrameLens, Arrive(len)
        PROVE  Fifo!Next
    BY <2>1, <2>2, FifoAccept DEF Fifo!Next
  <2>3. CASE ReadData
    BY <2>1, <2>3, FifoDeliver DEF Fifo!Next
  <2>4. CASE WriteERXTAIL
    BY <1>2, <2>1, <2>4, FifoRelease DEF Fifo!Next
  <2>5. CASE DecrementPKTCNT
    BY <2>1, <2>5, FifoAcknowledge DEF Fifo!Next
  <2>6. CASE \/ CallWithNull \/ CheckPKTCNT \/ WriteERXRDPT
             \/ ReadNextPointer \/ ReadRSV \/ ReadHeader \/ UNCHANGED vars
    <3>1. /\ UNCHANGED <<erxhead, erxtail, frames, history>>
          /\ Released' = Released /\ Acknowledged' = Acknowledged
      BY <2>6 DEF CallWithNull, CheckPKTCNT, Check, WriteERXRDPT, Seek,
                  ReadNextPointer, FollowNextPointer, ReadRSV, ReadHeader,
                  vars, hardware, driver, history, Released, Acknowledged
    <3>2. QED
      BY <3>1, FifoStutter
  <2>7. QED
    BY <2>2, <2>3, <2>4, <2>5, <2>6 DEF Next, Receive
<1>3. QED
  BY <1>1, <1>2

\* The addresses implement the byte budget of RxFifo.
THEOREM Implementation == Spec => ImplementsFifo
<1>1. Spec => []IInv
  BY Invariance
<1>2. QED
  BY <1>1, FifoInit, FifoStep, PTL DEF Spec, ImplementsFifo, Fifo!Spec

=============================================================================
