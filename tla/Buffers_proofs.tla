---------------------------- MODULE Buffers_proofs ----------------------------
(***************************************************************************)
(* That the ring of a stream or message buffer, which its two sides use    *)
(* without a lock, is a pipe: for every size, trigger level and length     *)
(* field, and whatever is sent and asked for; and that the threads which   *)
(* find the pool of packet buffers empty ask for it once.                  *)
(*                                                                         *)
(* The invariant of the ring has five parts, one for each thing that the   *)
(* sides rely on: what the ring holds (RingInv), what the writer and the   *)
(* reader have seen and done but not told yet (WriterInv, ReaderInv),      *)
(* where messages start (FramesInv), and who will notify whom (WakeInv).   *)
(***************************************************************************)
EXTENDS Services_proofs

\* Where a call may be.
StreamPcs ==
    {"out", "check", "measure", "wait", "woken", "write", "read", "publish", "complete"}

\* The byte of the ring that is the i-th from `from' on.
Slot(from, i) == StreamBuffer!Wrap(from + i - 1)

\* The ring holds the pipe between tail and head, and has always a byte to spare.
RingInv ==
    /\ stream \in StreamUses
    /\ pipe \in Seq(Nat) /\ Len(pipe) <= stream.xLength - 1 /\ next \in Nat
    /\ xTail \in 0 .. stream.xLength - 1 /\ xHead = StreamBuffer!Wrap(xTail + Len(pipe))
    /\ DOMAIN buffer = 0 .. stream.xLength - 1
    /\ \A i \in 1 .. Len(pipe) : buffer[Slot(xTail, i)] = pipe[i]
    /\ streamPc \in [StreamBuffer!Sides -> StreamPcs]
    /\ size \in [StreamBuffer!Sides -> Nat] /\ seen \in [StreamBuffer!Sides -> Nat]
    /\ DOMAIN new = StreamBuffer!Sides /\ DOMAIN notified = StreamBuffer!Sides

\* The writer has seen no more space than there is, and what it has written without having
\* moved the head is what it will have sent.
WriterInv ==
    /\ streamPc["writer"] \in {"wait", "woken", "write", "publish"} =>
         seen["writer"] <= stream.xLength - 1 - Len(pipe)
    /\ streamPc["writer"] = "publish" =>
         /\ Len(StreamBuffer!Data) >= 1
         /\ new["writer"] = StreamBuffer!Wrap(xHead + Len(StreamBuffer!Data))
         /\ \A k \in 1 .. Len(StreamBuffer!Data) :
              buffer[Slot(xHead, k)] = StreamBuffer!Data[k]

\* The bytes the reader has taken without having moved the tail.
Taken == StreamBuffer!Wrap(stream.xLength + new["reader"] - xTail)

\* The reader has seen no more bytes than there are, and takes one message or as many
\* bytes as it has seen at most.
ReaderInv ==
    /\ streamPc["reader"] = "read" =>
         StreamBuffer!Overhead < seen["reader"] /\ seen["reader"] <= Len(pipe)
    /\ streamPc["reader"] = "publish" =>
         /\ Taken \in 1 .. Len(pipe) /\ new["reader"] = StreamBuffer!Wrap(xTail + Taken)
         /\ stream.messages => Taken = stream.prefix + pipe[1]

\* `starts' are where the messages of a pipe start, and where it ends.
Frames(p, starts) ==
    /\ starts \subseteq 0 .. Len(p) /\ 0 \in starts /\ Len(p) \in starts
    /\ \A b \in starts : b < Len(p) =>
         /\ p[b + 1] >= 1 /\ b + stream.prefix + p[b + 1] \in starts
         /\ \A c \in starts : c <= b \/ c >= b + stream.prefix + p[b + 1]

\* What the reader has seen ends with a message.
FramesInv ==
    stream.messages =>
      \E starts \in SUBSET Nat :
        Frames(pipe, starts) /\ (streamPc["reader"] = "read" => seen["reader"] \in starts)

\* A side that waits and is registered will be notified of what is there already.
WakeInv ==
    /\ streamPc["reader"] = "wait" /\ ~notified["reader"] =>
         waitingToReceive /\ (Len(pipe) >= stream.trigger => streamPc["writer"] = "complete")
    /\ streamPc["writer"] = "wait" /\ ~notified["writer"] =>
         /\ waitingToSend
         /\ stream.xLength - 1 - Len(pipe) >= StreamBuffer!Required =>
              streamPc["reader"] = "complete"

StreamInv == RingInv /\ WriterInv /\ ReaderInv /\ FramesInv /\ WakeInv

LEMMA StreamUse ==
  ASSUME NEW u \in StreamUses
  PROVE  /\ u.xLength \in Nat /\ u.trigger \in Nat /\ u.prefix \in Nat
         /\ u.sends \in SUBSET Nat /\ u.reads \in SUBSET Nat
         /\ u.xLength >= 2 /\ u.trigger >= 1 /\ (u.messages => u.prefix >= 1)
         /\ Values \in Nat \ {0}
  <1>1. StreamBuffer!StreamAssumption
    BY ServicesAssumption DEF ServicesAssumption
  <1>2. /\ u \in StreamBuffer!Use /\ Values \in Nat \ {0}
        /\ u.xLength >= 2 /\ u.trigger >= 1 /\ (u.messages => u.prefix >= 1)
    BY <1>1, Zenon DEF StreamBuffer!StreamAssumption
  <1>3. /\ u.xLength \in Nat /\ u.trigger \in Nat /\ u.prefix \in Nat
        /\ u.sends \in SUBSET Nat /\ u.reads \in SUBSET Nat
    BY <1>2 DEF StreamBuffer!Use
  <1>4. QED
    BY <1>2, <1>3, Zenon

\* What the two sides measure is what is in the pipe, and what is not.
LEMMA Measures ==
  ASSUME RingInv
  PROVE  /\ Len(pipe) \in Nat
         /\ StreamBuffer!prvBytesInBuffer = Len(pipe)
         /\ StreamBuffer!xStreamBufferSpacesAvailable = stream.xLength - 1 - Len(pipe)
         /\ xHead \in 0 .. stream.xLength - 1
  <1>1. Len(pipe) \in Nat /\ stream.xLength \in Nat /\ stream.xLength >= 2
    BY StreamUse, LenProperties DEF RingInv
  <1>2. /\ Len(pipe) <= stream.xLength - 1 /\ xTail \in 0 .. stream.xLength - 1
        /\ xHead = IF xTail + Len(pipe) >= stream.xLength
                     THEN xTail + Len(pipe) - stream.xLength ELSE xTail + Len(pipe)
    <2>1. /\ Len(pipe) <= stream.xLength - 1 /\ xTail \in 0 .. stream.xLength - 1
          /\ xHead = StreamBuffer!Wrap(xTail + Len(pipe))
      BY Zenon DEF RingInv
    <2>2. QED
      BY <1>1, <2>1 DEF StreamBuffer!Wrap, StreamBuffer!L
  <1>3. StreamBuffer!prvBytesInBuffer = Len(pipe)
    BY <1>1, <1>2 DEF StreamBuffer!prvBytesInBuffer, StreamBuffer!Wrap, StreamBuffer!L
  <1>4. StreamBuffer!xStreamBufferSpacesAvailable = stream.xLength - 1 - Len(pipe)
    BY <1>1, <1>2
    DEF StreamBuffer!xStreamBufferSpacesAvailable, StreamBuffer!Wrap, StreamBuffer!L
  <1>5. QED
    BY <1>1, <1>2, <1>3, <1>4

\* What the writer writes has room in the space it has seen.
LEMMA DataFits ==
  ASSUME RingInv
  PROVE  /\ StreamBuffer!Data \in Seq(Nat)
         /\ Len(StreamBuffer!Data) \in Nat /\ Len(StreamBuffer!Data) <= seen["writer"]
         /\ stream.messages /\ Len(StreamBuffer!Data) # 0 =>
              /\ StreamBuffer!Data[1] \in Nat \ {0}
              /\ Len(StreamBuffer!Data) = stream.prefix + StreamBuffer!Data[1]
  <1> DEFINE n == IF stream.messages
                   THEN IF seen["writer"] >= StreamBuffer!Required THEN size["writer"] ELSE 0
                   ELSE IF size["writer"] < seen["writer"] THEN size["writer"]
                        ELSE seen["writer"]
             bytes == [i \in 1 .. n |-> (next + i - 1) % Values]
             length == [i \in 1 .. stream.prefix |-> n]
  <1>1. /\ seen["writer"] \in Nat /\ size["writer"] \in Nat /\ next \in Nat
        /\ stream.prefix \in Nat /\ Values \in Nat \ {0}
        /\ stream.messages => stream.prefix >= 1
    BY StreamUse DEF RingInv, StreamBuffer!Sides
  <1>2. /\ n \in Nat
        /\ n <= seen["writer"]
        /\ stream.messages /\ n > 0 => stream.prefix + n <= seen["writer"]
    BY <1>1 DEF StreamBuffer!Required
  <1> HIDE DEF n
  <1>3. \A i \in 1 .. n : ((next + i - 1) % Values) \in Nat
    <2>1. ASSUME NEW i \in 1 .. n PROVE ((next + i - 1) % Values) \in Nat
      <3>1. next + i - 1 \in Nat
        BY <1>1, <1>2
      <3>2. QED
        BY <1>1, <3>1, Division
    <2>2. QED
      BY <2>1
  <1>4. bytes \in Seq(Nat) /\ Len(bytes) = n
    BY <1>2, <1>3
  <1>5. /\ length \in Seq(Nat) /\ Len(length) = stream.prefix
        /\ stream.prefix >= 1 => length[1] = n
    BY <1>1, <1>2
  <1> HIDE DEF bytes, length
  <1>6. StreamBuffer!Data = IF stream.messages /\ n > 0 THEN length \o bytes ELSE bytes
    BY DEF StreamBuffer!Data, n, bytes, length
  <1>7. CASE stream.messages /\ n > 0
    <2>1. /\ length \o bytes \in Seq(Nat) /\ Len(length \o bytes) = stream.prefix + n
          /\ (length \o bytes)[1] = n
      <3>1. /\ length \o bytes \in Seq(Nat)
            /\ Len(length \o bytes) = Len(length) + Len(bytes)
            /\ \A i \in 1 .. Len(length) + Len(bytes) :
                 (length \o bytes)[i] = IF i <= Len(length) THEN length[i]
                                        ELSE bytes[i - Len(length)]
        BY <1>4, <1>5, ConcatProperties, Zenon
      <3>2. stream.prefix >= 1
        BY <1>1, <1>7, Zenon
      <3>3. 1 \in 1 .. Len(length) + Len(bytes) /\ 1 <= Len(length)
        BY <1>1, <1>2, <1>4, <1>5, <3>2
      <3>4. QED
        BY <1>4, <1>5, <3>1, <3>2, <3>3
    <2>2. StreamBuffer!Data = length \o bytes
      BY <1>6, <1>7, Zenon
    <2>3. n \in Nat \ {0} /\ stream.prefix + n <= seen["writer"]
      BY <1>2, <1>7
    <2>4. /\ StreamBuffer!Data \in Seq(Nat) /\ Len(StreamBuffer!Data) = stream.prefix + n
          /\ StreamBuffer!Data[1] = n
      BY <2>1, <2>2
    <2>5. Len(StreamBuffer!Data) \in Nat /\ Len(StreamBuffer!Data) <= seen["writer"]
      BY <1>1, <2>3, <2>4
    <2>6. QED
      BY <2>3, <2>4, <2>5
  <1>8. CASE ~(stream.messages /\ n > 0)
    BY <1>2, <1>4, <1>6, <1>8
  <1>9. QED
    BY <1>7, <1>8

LEMMA DataSame ==
  ASSUME UNCHANGED <<stream, next>>, seen'["writer"] = seen["writer"],
         size'["writer"] = size["writer"]
  PROVE  StreamBuffer!Data' = StreamBuffer!Data
  BY DEF StreamBuffer!Data, StreamBuffer!Required, StreamBuffer!L

LEMMA StreamInit == ASSUME StreamBuffer!Init PROVE StreamInv
  <1>1. /\ stream \in StreamUses /\ stream.xLength \in Nat /\ stream.xLength >= 2
        /\ pipe = << >> /\ Len(pipe) = 0 /\ pipe \in Seq(Nat)
    BY StreamUse DEF StreamBuffer!Init
  <1>2. RingInv
    BY <1>1 DEF StreamBuffer!Init, RingInv, StreamPcs, StreamBuffer!L, StreamBuffer!Wrap
  <1>3. WriterInv /\ ReaderInv /\ WakeInv
    BY DEF StreamBuffer!Init, WriterInv, ReaderInv, WakeInv, StreamBuffer!Sides
  <1>4. FramesInv
    <2>1. Frames(pipe, {0}) /\ {0} \in SUBSET Nat /\ streamPc["reader"] # "read"
      BY <1>1 DEF Frames, StreamBuffer!Init, StreamBuffer!Sides
    <2>2. QED
      BY <2>1 DEF FramesInv
  <1>5. QED
    BY <1>2, <1>3, <1>4 DEF StreamInv

\* Four ways to say that a step does not touch a part of the invariant.
LEMMA RingKeeps ==
  ASSUME RingInv, UNCHANGED <<stream, buffer, xHead, xTail, pipe, next>>,
         streamPc' \in [StreamBuffer!Sides -> StreamPcs],
         size' \in [StreamBuffer!Sides -> Nat], seen' \in [StreamBuffer!Sides -> Nat],
         DOMAIN new' = StreamBuffer!Sides, DOMAIN notified' = StreamBuffer!Sides
  PROVE  RingInv'
  BY DEF RingInv, StreamPcs, Slot, StreamBuffer!Wrap, StreamBuffer!L

LEMMA WriterKeeps ==
  ASSUME RingInv, WriterInv, UNCHANGED <<stream, buffer, xHead, next>>,
         Len(pipe') \in Nat, Len(pipe') <= Len(pipe),
         streamPc'["writer"] \in {"wait", "woken", "write", "publish"} =>
           /\ streamPc["writer"] \in {"wait", "woken", "write", "publish"}
           /\ seen'["writer"] = seen["writer"],
         streamPc'["writer"] = "publish" =>
           /\ streamPc["writer"] = "publish" /\ size'["writer"] = size["writer"]
           /\ new'["writer"] = new["writer"]
  PROVE  WriterInv'
  <1>1. Len(pipe) \in Nat /\ stream.xLength \in Nat /\ seen["writer"] \in Nat
    BY StreamUse, LenProperties DEF RingInv, StreamBuffer!Sides
  <1>2. ASSUME streamPc'["writer"] \in {"wait", "woken", "write", "publish"}
        PROVE  seen'["writer"] <= stream.xLength - 1 - Len(pipe')
    <2>1. seen["writer"] <= stream.xLength - 1 - Len(pipe) /\ seen'["writer"] = seen["writer"]
      BY <1>2 DEF WriterInv
    <2>2. QED
      BY <1>1, <2>1
  <1>3. ASSUME streamPc'["writer"] = "publish"
        PROVE  /\ (Len(StreamBuffer!Data) >= 1)'
               /\ (new["writer"] = StreamBuffer!Wrap(xHead + Len(StreamBuffer!Data)))'
               /\ (\A k \in 1 .. Len(StreamBuffer!Data) :
                     buffer[Slot(xHead, k)] = StreamBuffer!Data[k])'
    <2>1. StreamBuffer!Data' = StreamBuffer!Data
      BY <1>3, DataSame
    <2>2. /\ Len(StreamBuffer!Data) >= 1
          /\ new["writer"] = StreamBuffer!Wrap(xHead + Len(StreamBuffer!Data))
          /\ \A k \in 1 .. Len(StreamBuffer!Data) :
               buffer[Slot(xHead, k)] = StreamBuffer!Data[k]
      BY <1>3 DEF WriterInv
    <2>3. QED
      BY <1>3, <2>1, <2>2 DEF Slot, StreamBuffer!Wrap, StreamBuffer!L
  <1>4. QED
    BY <1>2, <1>3 DEF WriterInv

LEMMA ReaderKeeps ==
  ASSUME RingInv, ReaderInv, UNCHANGED <<stream, xTail>>,
         Len(pipe') \in Nat, Len(pipe) <= Len(pipe'), Len(pipe) >= 1 => pipe'[1] = pipe[1],
         streamPc'["reader"] = "read" =>
           streamPc["reader"] = "read" /\ seen'["reader"] = seen["reader"],
         streamPc'["reader"] = "publish" =>
           streamPc["reader"] = "publish" /\ new'["reader"] = new["reader"]
  PROVE  ReaderInv'
  <1>1. Len(pipe) \in Nat /\ seen["reader"] \in Nat
    BY LenProperties DEF RingInv, StreamBuffer!Sides
  <1>2. ASSUME streamPc'["reader"] = "read"
        PROVE  (StreamBuffer!Overhead < seen["reader"] /\ seen["reader"] <= Len(pipe))'
    <2>1. /\ StreamBuffer!Overhead < seen["reader"] /\ seen["reader"] <= Len(pipe)
          /\ seen'["reader"] = seen["reader"] /\ StreamBuffer!Overhead' = StreamBuffer!Overhead
      BY <1>2 DEF ReaderInv, StreamBuffer!Overhead
    <2>2. QED
      BY <1>1, <2>1
  <1>3. ASSUME streamPc'["reader"] = "publish"
        PROVE  /\ Taken' \in 1 .. Len(pipe')
               /\ new'["reader"] = StreamBuffer!Wrap(xTail + Taken)'
               /\ stream.messages => Taken' = stream.prefix + pipe'[1]
    <2>1. /\ Taken \in 1 .. Len(pipe) /\ new["reader"] = StreamBuffer!Wrap(xTail + Taken)
          /\ stream.messages => Taken = stream.prefix + pipe[1]
      BY <1>3, Zenon DEF ReaderInv
    <2>2. Taken' = Taken /\ StreamBuffer!Wrap(xTail + Taken)' = StreamBuffer!Wrap(xTail + Taken)
      BY <1>3 DEF Taken, StreamBuffer!Wrap, StreamBuffer!L
    <2>3. Taken \in 1 .. Len(pipe') /\ pipe'[1] = pipe[1]
      BY <1>1, <2>1
    <2>4. QED
      BY <1>3, <2>1, <2>2, <2>3, Zenon
  <1>4. QED
    BY <1>2, <1>3, Zenon DEF ReaderInv

LEMMA FramesKeep ==
  ASSUME FramesInv, UNCHANGED <<stream, pipe>>,
         streamPc'["reader"] = "read" =>
           streamPc["reader"] = "read" /\ seen'["reader"] = seen["reader"]
  PROVE  FramesInv'
  <1>1. ASSUME stream.messages
        PROVE  \E starts \in SUBSET Nat :
                 Frames(pipe, starts)'
                 /\ (streamPc'["reader"] = "read" => seen'["reader"] \in starts)
    <2>1. PICK starts \in SUBSET Nat :
            Frames(pipe, starts) /\ (streamPc["reader"] = "read" => seen["reader"] \in starts)
      BY <1>1 DEF FramesInv
    <2>2. Frames(pipe, starts)'
      BY <2>1 DEF Frames
    <2>3. QED
      BY <2>1, <2>2
  <1>2. QED
    BY <1>1, Zenon DEF FramesInv

LEMMA WakeKeeps ==
  ASSUME WakeInv, UNCHANGED stream, Len(pipe') = Len(pipe),
         streamPc'["reader"] = "wait" /\ ~notified'["reader"] =>
           /\ streamPc["reader"] = "wait" /\ ~notified["reader"]
           /\ waitingToReceive => waitingToReceive'
           /\ streamPc["writer"] = "complete" => streamPc'["writer"] = "complete",
         streamPc'["writer"] = "wait" /\ ~notified'["writer"] =>
           /\ streamPc["writer"] = "wait" /\ ~notified["writer"]
           /\ waitingToSend => waitingToSend'
           /\ size'["writer"] = size["writer"]
           /\ streamPc["reader"] = "complete" => streamPc'["reader"] = "complete"
  PROVE  WakeInv'
  <1>1. size'["writer"] = size["writer"] => StreamBuffer!Required' = StreamBuffer!Required
    BY DEF StreamBuffer!Required, StreamBuffer!L
  <1>2. QED
    BY <1>1, Zenon DEF WakeInv

\* A call begins.
LEMMA StreamCall ==
  ASSUME StreamInv, UNCHANGED stream, NEW s \in StreamBuffer!Sides, NEW n \in Nat,
         NEW waits \in BOOLEAN, StreamBuffer!Call(s, n, waits)
  PROVE  StreamInv'
  <1> USE DEF StreamBuffer!ring, StreamBuffer!waiters
  <1>1. RingInv /\ WriterInv /\ ReaderInv /\ FramesInv /\ WakeInv /\ Len(pipe) \in Nat
    BY Measures DEF StreamInv
  <1>2. PICK pc \in {"check", "measure"} : streamPc' = [streamPc EXCEPT ![s] = pc]
    BY Zenon DEF StreamBuffer!Call
  <1>3. /\ streamPc[s] = "out" /\ size' = [size EXCEPT ![s] = n]
        /\ seen' = [seen EXCEPT ![s] = 0]
        /\ UNCHANGED <<buffer, xHead, xTail, waitingToSend, waitingToReceive, notified>>
        /\ UNCHANGED <<new, next, pipe>>
    BY DEF StreamBuffer!Call, StreamBuffer!Sees
  <1>4. RingInv'
    <2>1. /\ streamPc' \in [StreamBuffer!Sides -> StreamPcs]
          /\ size' \in [StreamBuffer!Sides -> Nat] /\ seen' \in [StreamBuffer!Sides -> Nat]
          /\ DOMAIN new' = StreamBuffer!Sides /\ DOMAIN notified' = StreamBuffer!Sides
      BY <1>1, <1>2, <1>3 DEF RingInv, StreamPcs
    <2>2. QED
      BY <1>1, <1>3, <2>1, RingKeeps
  <1>5. \A side \in StreamBuffer!Sides :
          \/ streamPc'[side] \in {"check", "measure"}
          \/ streamPc'[side] = streamPc[side] /\ side # s
    BY <1>1, <1>2 DEF RingInv
  <1>6. \A side \in StreamBuffer!Sides \ {s} :
          size'[side] = size[side] /\ seen'[side] = seen[side]
    BY <1>1, <1>3 DEF RingInv
  <1>7. WriterInv'
    BY <1>1, <1>3, <1>5, <1>6, WriterKeeps DEF StreamBuffer!Sides
  <1>8. ReaderInv'
    BY <1>1, <1>3, <1>5, <1>6, ReaderKeeps DEF StreamBuffer!Sides
  <1>9. FramesInv'
    BY <1>1, <1>3, <1>5, <1>6, FramesKeep DEF StreamBuffer!Sides
  <1>10. WakeInv'
    <2>1. /\ \A side \in StreamBuffer!Sides : streamPc'[side] = "wait" => side # s
          /\ \A side \in StreamBuffer!Sides :
               streamPc[side] # "out" => streamPc'[side] = streamPc[side]
      BY <1>1, <1>2, <1>3, <1>5 DEF RingInv
    <2>2. QED
      BY <1>1, <1>3, <1>5, <1>6, <2>1, WakeKeeps DEF StreamBuffer!Sides
  <1>11. QED
    BY <1>4, <1>7, <1>8, <1>9, <1>10 DEF StreamInv

\* A wait ends.
LEMMA StreamEndWait ==
  ASSUME StreamInv, UNCHANGED stream, NEW s \in StreamBuffer!Sides, StreamBuffer!EndWait(s)
  PROVE  StreamInv'
  <1> USE DEF StreamBuffer!ring, StreamBuffer!waiters
  <1>1. RingInv /\ WriterInv /\ ReaderInv /\ FramesInv /\ WakeInv /\ Len(pipe) \in Nat
    BY Measures DEF StreamInv
  <1>2. /\ streamPc[s] = "wait" /\ streamPc' = [streamPc EXCEPT ![s] = "woken"]
        /\ notified' = [notified EXCEPT ![s] = FALSE]
        /\ UNCHANGED <<buffer, xHead, xTail, waitingToSend, waitingToReceive>>
        /\ UNCHANGED <<size, seen, new, next, pipe>>
    BY DEF StreamBuffer!EndWait, StreamBuffer!Goes
  <1>3. RingInv'
    <2>1. /\ streamPc' \in [StreamBuffer!Sides -> StreamPcs]
          /\ size' \in [StreamBuffer!Sides -> Nat] /\ seen' \in [StreamBuffer!Sides -> Nat]
          /\ DOMAIN new' = StreamBuffer!Sides /\ DOMAIN notified' = StreamBuffer!Sides
      BY <1>1, <1>2 DEF RingInv, StreamPcs
    <2>2. QED
      BY <1>1, <1>2, <2>1, RingKeeps
  <1>4. \A side \in StreamBuffer!Sides :
          \/ streamPc'[side] = "woken" /\ streamPc[side] = "wait"
          \/ streamPc'[side] = streamPc[side] /\ notified'[side] = notified[side]
    BY <1>1, <1>2 DEF RingInv
  <1>5. WriterInv'
    BY <1>1, <1>2, <1>4, WriterKeeps DEF StreamBuffer!Sides
  <1>6. ReaderInv'
    BY <1>1, <1>2, <1>4, ReaderKeeps DEF StreamBuffer!Sides
  <1>7. FramesInv'
    BY <1>1, <1>2, <1>4, FramesKeep DEF StreamBuffer!Sides
  <1>8. WakeInv'
    BY <1>1, <1>2, <1>4, WakeKeeps DEF StreamBuffer!Sides
  <1>9. QED
    BY <1>3, <1>5, <1>6, <1>7, <1>8 DEF StreamInv

\* The writer looks for space: what it sees is what there is.
LEMMA WriterLooks ==
  ASSUME StreamInv, UNCHANGED stream,
         \/ StreamBuffer!CheckSpace \/ StreamBuffer!MeasureSpace
         \/ \E expired \in BOOLEAN : StreamBuffer!WriterWoken(expired)
  PROVE  StreamInv'
  <1> USE DEF StreamBuffer!ring, StreamBuffer!waiters
  <1>1. /\ RingInv /\ WriterInv /\ ReaderInv /\ FramesInv /\ WakeInv /\ Len(pipe) \in Nat
        /\ StreamBuffer!xStreamBufferSpacesAvailable = stream.xLength - 1 - Len(pipe)
    BY Measures DEF StreamInv
  <1>2. stream.xLength - 1 - Len(pipe) \in Nat
    BY <1>1, StreamUse DEF RingInv
  <1>3. PICK pc \in {"wait", "write", "check", "measure"} :
          streamPc' = [streamPc EXCEPT !["writer"] = pc]
    BY Zenon DEF StreamBuffer!CheckSpace, StreamBuffer!MeasureSpace,
                 StreamBuffer!WriterWoken, StreamBuffer!Goes
  <1>4. /\ UNCHANGED <<buffer, xHead, xTail, size, new, next, pipe, waitingToReceive>>
        /\ \/ seen' = [seen EXCEPT !["writer"] = stream.xLength - 1 - Len(pipe)]
           \/ seen' = seen /\ streamPc["writer"] = "woken"
        /\ \/ UNCHANGED notified
           \/ notified' = [notified EXCEPT !["writer"] = FALSE]
    BY <1>1, Zenon
    DEF StreamBuffer!CheckSpace, StreamBuffer!MeasureSpace, StreamBuffer!WriterWoken,
        StreamBuffer!Goes, StreamBuffer!Sees
  <1>5. RingInv'
    <2>1. streamPc' \in [StreamBuffer!Sides -> StreamPcs]
      BY <1>1, <1>3 DEF RingInv, StreamPcs
    <2>2. seen' \in [StreamBuffer!Sides -> Nat]
      BY <1>1, <1>2, <1>4 DEF RingInv
    <2>3. /\ size' \in [StreamBuffer!Sides -> Nat]
          /\ DOMAIN new' = StreamBuffer!Sides /\ DOMAIN notified' = StreamBuffer!Sides
      BY <1>1, <1>4 DEF RingInv
    <2>4. QED
      BY <1>1, <1>4, <2>1, <2>2, <2>3, RingKeeps
  <1>6. /\ streamPc'["reader"] = streamPc["reader"] /\ seen'["reader"] = seen["reader"]
        /\ notified'["reader"] = notified["reader"]
        /\ streamPc'["writer"] \in {"wait", "write", "check", "measure"}
    BY <1>1, <1>3, <1>4 DEF RingInv, StreamBuffer!Sides
  <1>7. WriterInv'
    <2>1. \/ seen'["writer"] = stream.xLength - 1 - Len(pipe)
          \/ seen'["writer"] = seen["writer"] /\ streamPc["writer"] = "woken"
      BY <1>1, <1>4 DEF RingInv, StreamBuffer!Sides
    <2>2. seen'["writer"] <= stream.xLength - 1 - Len(pipe)
      BY <1>1, <1>2, <2>1 DEF WriterInv
    <2>3. QED
      BY <1>4, <1>6, <2>2 DEF WriterInv
  <1>8. ReaderInv'
    BY <1>1, <1>4, <1>6, ReaderKeeps
  <1>9. FramesInv'
    BY <1>1, <1>4, <1>6, FramesKeep
  <1>10. WakeInv'
    <2>1. streamPc["writer"] # "complete"
      BY Zenon DEF StreamBuffer!CheckSpace, StreamBuffer!MeasureSpace,
                   StreamBuffer!WriterWoken, StreamBuffer!Goes
    <2>2. ASSUME streamPc'["writer"] = "wait"
          PROVE  /\ waitingToSend'
                 /\ ~(stream.xLength - 1 - Len(pipe) >= StreamBuffer!Required)
      <3>1. StreamBuffer!CheckSpace
        BY <1>1, <2>2 DEF StreamBuffer!MeasureSpace, StreamBuffer!WriterWoken,
                          StreamBuffer!Goes, RingInv, StreamBuffer!Sides
      <3>2. "writer" \in DOMAIN streamPc
        BY <1>1 DEF RingInv, StreamBuffer!Sides
      <3>3. streamPc'["writer"] = IF stream.xLength - 1 - Len(pipe) >= StreamBuffer!Required
                                    THEN "write" ELSE "wait"
        BY <1>1, <3>1, <3>2 DEF StreamBuffer!CheckSpace, StreamBuffer!Goes
      <3>4. ~(stream.xLength - 1 - Len(pipe) >= StreamBuffer!Required)
        BY <2>2, <3>3
      <3>5. QED
        BY <1>1, <3>1, <3>4, Zenon DEF StreamBuffer!CheckSpace
    <2>3. StreamBuffer!Required' = StreamBuffer!Required
      BY <1>4 DEF StreamBuffer!Required, StreamBuffer!L
    <2>4. QED
      BY <1>1, <1>4, <1>6, <2>1, <2>2, <2>3, Zenon DEF WakeInv
  <1>11. QED
    BY <1>5, <1>7, <1>8, <1>9, <1>10 DEF StreamInv

\* The reader looks for bytes: what it sees ends with a message.
LEMMA ReaderLooks ==
  ASSUME StreamInv, UNCHANGED stream,
         StreamBuffer!CheckBytes \/ StreamBuffer!ReaderWoken \/ StreamBuffer!MeasureBytes
  PROVE  StreamInv'
  <1> USE DEF StreamBuffer!ring, StreamBuffer!waiters
  <1>1. /\ RingInv /\ WriterInv /\ ReaderInv /\ FramesInv /\ WakeInv /\ Len(pipe) \in Nat
        /\ StreamBuffer!prvBytesInBuffer = Len(pipe)
    BY Measures DEF StreamInv
  <1>2. PICK pc \in {"wait", "read", "measure", "out"} :
          streamPc' = [streamPc EXCEPT !["reader"] = pc]
    BY Zenon DEF StreamBuffer!CheckBytes, StreamBuffer!MeasureBytes,
                 StreamBuffer!ReaderWoken, StreamBuffer!Goes
  <1>3. /\ UNCHANGED <<buffer, xHead, xTail, size, new, next, pipe, waitingToSend>>
        /\ seen' = [seen EXCEPT !["reader"] = Len(pipe)] \/ seen' = seen
        /\ \/ UNCHANGED notified
           \/ notified' = [notified EXCEPT !["reader"] = FALSE]
    BY <1>1, Zenon
    DEF StreamBuffer!CheckBytes, StreamBuffer!MeasureBytes, StreamBuffer!ReaderWoken,
        StreamBuffer!Goes, StreamBuffer!Sees
  <1>4. RingInv'
    <2>1. streamPc' \in [StreamBuffer!Sides -> StreamPcs]
      BY <1>1, <1>2 DEF RingInv, StreamPcs
    <2>2. seen' \in [StreamBuffer!Sides -> Nat]
      BY <1>1, <1>3 DEF RingInv
    <2>3. /\ size' \in [StreamBuffer!Sides -> Nat]
          /\ DOMAIN new' = StreamBuffer!Sides /\ DOMAIN notified' = StreamBuffer!Sides
      BY <1>1, <1>3 DEF RingInv
    <2>4. QED
      BY <1>1, <1>3, <2>1, <2>2, <2>3, RingKeeps
  <1>5. /\ streamPc'["writer"] = streamPc["writer"] /\ seen'["writer"] = seen["writer"]
        /\ notified'["writer"] = notified["writer"]
        /\ streamPc'["reader"] \in {"wait", "read", "measure", "out"}
    BY <1>1, <1>2, <1>3 DEF RingInv, StreamBuffer!Sides
  <1>6. "reader" \in DOMAIN streamPc /\ "reader" \in DOMAIN seen
    BY <1>1 DEF RingInv, StreamBuffer!Sides
  <1>7. ASSUME streamPc'["reader"] = "read"
        PROVE  seen'["reader"] = Len(pipe) /\ Len(pipe) > StreamBuffer!Overhead
    <2>1. ~StreamBuffer!ReaderWoken
      BY <1>6, <1>7 DEF StreamBuffer!ReaderWoken, StreamBuffer!Goes
    <2>2. seen' = [seen EXCEPT !["reader"] = Len(pipe)]
      BY <1>1, <2>1, Zenon DEF StreamBuffer!CheckBytes, StreamBuffer!MeasureBytes,
                               StreamBuffer!Sees
    <2>3. \/ streamPc' = [streamPc EXCEPT !["reader"] =
               IF Len(pipe) > StreamBuffer!Overhead THEN "read" ELSE "wait"]
          \/ streamPc' = [streamPc EXCEPT !["reader"] =
               IF Len(pipe) > StreamBuffer!Overhead THEN "read" ELSE "out"]
      BY <1>1, <2>1, Zenon DEF StreamBuffer!CheckBytes, StreamBuffer!MeasureBytes,
                               StreamBuffer!Goes
    <2>4. Len(pipe) > StreamBuffer!Overhead
      BY <1>6, <1>7, <2>3
    <2>5. QED
      BY <1>6, <2>2, <2>4
  <1>8. WriterInv'
    BY <1>1, <1>3, <1>5, WriterKeeps
  <1>9. ReaderInv'
    <2>1. StreamBuffer!Overhead' = StreamBuffer!Overhead
      BY DEF StreamBuffer!Overhead
    <2>2. StreamBuffer!Overhead \in Nat
      BY <1>1, StreamUse DEF RingInv, StreamBuffer!Overhead
    <2>3. streamPc'["reader"] = "read" =>
            StreamBuffer!Overhead' < seen'["reader"] /\ seen'["reader"] <= Len(pipe')
      BY <1>1, <1>3, <1>7, <2>1, <2>2
    <2>4. QED
      BY <1>5, <2>3, Zenon DEF ReaderInv
  <1>10. FramesInv'
    <2>1. ASSUME stream.messages
          PROVE  \E starts \in SUBSET Nat :
                   Frames(pipe, starts)'
                   /\ (streamPc'["reader"] = "read" => seen'["reader"] \in starts)
      <3>1. PICK starts \in SUBSET Nat : Frames(pipe, starts)
        BY <1>1, <2>1 DEF FramesInv
      <3>2. Frames(pipe, starts)' /\ Len(pipe) \in starts
        BY <1>3, <3>1 DEF Frames
      <3>3. QED
        BY <1>7, <3>2
    <2>2. QED
      BY <2>1, Zenon DEF FramesInv
  <1>11. WakeInv'
    <2>1. streamPc["reader"] # "complete"
      BY Zenon DEF StreamBuffer!CheckBytes, StreamBuffer!MeasureBytes,
                   StreamBuffer!ReaderWoken, StreamBuffer!Goes
    <2>2. ASSUME streamPc'["reader"] = "wait"
          PROVE  waitingToReceive' /\ ~(Len(pipe) >= stream.trigger)
      <3>1. StreamBuffer!CheckBytes
        BY <1>1, <1>6, <2>2 DEF StreamBuffer!MeasureBytes, StreamBuffer!ReaderWoken,
                                StreamBuffer!Goes
      <3>2. streamPc'["reader"] = IF Len(pipe) > StreamBuffer!Overhead
                                    THEN "read" ELSE "wait"
        BY <1>1, <1>6, <3>1 DEF StreamBuffer!CheckBytes, StreamBuffer!Goes
      <3>3. ~(Len(pipe) > StreamBuffer!Overhead)
        BY <2>2, <3>2
      <3>4. waitingToReceive'
        BY <1>1, <3>1, <3>3, Zenon DEF StreamBuffer!CheckBytes
      <3>5. stream.trigger \in Nat /\ stream.trigger >= 1 /\ stream.prefix \in Nat
        BY <1>1, StreamUse DEF RingInv
      <3>6. Len(pipe) = 0
        <4>1. CASE ~stream.messages
          BY <1>1, <3>3, <4>1 DEF StreamBuffer!Overhead
        <4>2. CASE stream.messages
          <5>1. PICK starts \in SUBSET Nat : Frames(pipe, starts)
            BY <1>1, <4>2 DEF FramesInv
          <5>2. ASSUME Len(pipe) # 0
                PROVE  Len(pipe) > stream.prefix
            <6>1. /\ pipe[1] >= 1 /\ 0 + stream.prefix + pipe[0 + 1] <= Len(pipe)
                  /\ pipe[1] \in Nat
              BY <1>1, <5>1, <5>2 DEF Frames, RingInv
            <6>2. QED
              BY <1>1, <3>5, <6>1
          <5>3. ~(Len(pipe) > stream.prefix)
            BY <3>3, <4>2 DEF StreamBuffer!Overhead
          <5>4. QED
            BY <5>2, <5>3
        <4>3. QED
          BY <4>1, <4>2
      <3>7. ~(Len(pipe) >= stream.trigger)
        BY <3>5, <3>6
      <3>8. QED
        BY <3>4, <3>7
    <2>3. StreamBuffer!Required' = StreamBuffer!Required
      BY <1>3 DEF StreamBuffer!Required, StreamBuffer!L
    <2>4. QED
      BY <1>1, <1>3, <1>5, <2>1, <2>2, <2>3, Zenon DEF WakeInv
  <1>12. QED
    BY <1>4, <1>8, <1>9, <1>10, <1>11 DEF StreamInv

\* A call is over: the other side is notified if it is registered, and of that alone.
LEMMA StreamCompletes ==
  ASSUME StreamInv, UNCHANGED stream,
         StreamBuffer!SendCompleted \/ StreamBuffer!ReceiveCompleted
  PROVE  StreamInv'
  <1> USE DEF StreamBuffer!ring, StreamBuffer!waiters
  <1>1. /\ RingInv /\ WriterInv /\ ReaderInv /\ FramesInv /\ WakeInv /\ Len(pipe) \in Nat
        /\ StreamBuffer!prvBytesInBuffer = Len(pipe)
    BY Measures DEF StreamInv
  <1>2. PICK s \in StreamBuffer!Sides :
          streamPc[s] = "complete" /\ streamPc' = [streamPc EXCEPT ![s] = "out"]
    BY DEF StreamBuffer!SendCompleted, StreamBuffer!CompleteSend,
           StreamBuffer!ReceiveCompleted, StreamBuffer!Goes, StreamBuffer!Sides
  <1>3. /\ UNCHANGED <<buffer, xHead, xTail, size, seen, new, next, pipe>>
        /\ \/ UNCHANGED notified
           \/ \E o \in StreamBuffer!Sides : notified' = [notified EXCEPT ![o] = TRUE]
    BY DEF StreamBuffer!SendCompleted, StreamBuffer!CompleteSend,
           StreamBuffer!ReceiveCompleted, StreamBuffer!Sides
  <1>4. RingInv'
    <2>1. streamPc' \in [StreamBuffer!Sides -> StreamPcs]
      BY <1>1, <1>2 DEF RingInv, StreamPcs
    <2>2. DOMAIN new' = StreamBuffer!Sides /\ DOMAIN notified' = StreamBuffer!Sides
      BY <1>1, <1>3 DEF RingInv
    <2>3. size' \in [StreamBuffer!Sides -> Nat] /\ seen' \in [StreamBuffer!Sides -> Nat]
      BY <1>1, <1>3 DEF RingInv
    <2>4. QED
      BY <1>1, <1>3, <2>1, <2>2, <2>3, RingKeeps
  <1>5. \A side \in StreamBuffer!Sides :
          streamPc'[side] = IF side = s THEN "out" ELSE streamPc[side]
    BY <1>1, <1>2 DEF RingInv
  <1>6. WriterInv'
    BY <1>1, <1>3, <1>5, WriterKeeps DEF StreamBuffer!Sides
  <1>7. ReaderInv'
    BY <1>1, <1>3, <1>5, ReaderKeeps DEF StreamBuffer!Sides
  <1>8. FramesInv'
    BY <1>1, <1>3, <1>5, FramesKeep DEF StreamBuffer!Sides
  <1>9. WakeInv'
    <2>1. /\ streamPc'["reader"] \in {streamPc["reader"], "out"}
          /\ streamPc'["writer"] \in {streamPc["writer"], "out"}
      BY <1>5 DEF StreamBuffer!Sides
    <2>2. StreamBuffer!Required' = StreamBuffer!Required
      BY <1>3 DEF StreamBuffer!Required, StreamBuffer!L
    <2>3. CASE StreamBuffer!SendCompleted
      <3>1. /\ streamPc["writer"] = "complete"
            /\ streamPc'["reader"] = streamPc["reader"] /\ streamPc'["writer"] = "out"
            /\ waitingToSend' = waitingToSend
        BY <1>1, <2>3 DEF StreamBuffer!SendCompleted, StreamBuffer!CompleteSend,
                          StreamBuffer!Goes, RingInv, StreamBuffer!Sides
      <3>2. \/ notified' = [notified EXCEPT !["reader"] = TRUE]
            \/ /\ ~(Len(pipe) >= stream.trigger) \/ ~waitingToReceive
               /\ UNCHANGED <<notified, waitingToReceive>>
        BY <1>1, <2>3, Zenon DEF StreamBuffer!SendCompleted, StreamBuffer!CompleteSend
      <3>3. CASE notified' = [notified EXCEPT !["reader"] = TRUE]
        <4>1. notified'["reader"]
          BY <1>1, <3>3 DEF RingInv, StreamBuffer!Sides
        <4>2. QED
          BY <3>1, <4>1, Zenon DEF WakeInv
      <3>4. CASE /\ ~(Len(pipe) >= stream.trigger) \/ ~waitingToReceive
                 /\ UNCHANGED <<notified, waitingToReceive>>
        BY <1>1, <1>3, <3>1, <3>4, Zenon DEF WakeInv
      <3>5. QED
        BY <3>2, <3>3, <3>4, Zenon
    <2>4. CASE StreamBuffer!ReceiveCompleted
      <3>1. /\ streamPc["reader"] = "complete"
            /\ streamPc'["writer"] = streamPc["writer"] /\ streamPc'["reader"] = "out"
            /\ waitingToReceive' = waitingToReceive
        BY <1>1, <2>4 DEF StreamBuffer!ReceiveCompleted,
                          StreamBuffer!Goes, RingInv, StreamBuffer!Sides
      <3>2. \/ notified' = [notified EXCEPT !["writer"] = TRUE]
            \/ ~waitingToSend /\ UNCHANGED <<notified, waitingToSend>>
        BY <2>4, Zenon DEF StreamBuffer!ReceiveCompleted
      <3>3. CASE notified' = [notified EXCEPT !["writer"] = TRUE]
        <4>1. notified'["writer"]
          BY <1>1, <3>3 DEF RingInv, StreamBuffer!Sides
        <4>2. QED
          BY <3>1, <4>1, Zenon DEF WakeInv
      <3>4. CASE ~waitingToSend /\ UNCHANGED <<notified, waitingToSend>>
        BY <1>1, <1>3, <2>2, <3>1, <3>4, Zenon DEF WakeInv
      <3>5. QED
        BY <3>2, <3>3, <3>4, Zenon
    <2>5. QED
      BY <2>3, <2>4
  <1>10. QED
    BY <1>4, <1>6, <1>7, <1>8, <1>9 DEF StreamInv

\* How far a slot is from the head, counted as the writer counts it.
LEMMA SlotDistance ==
  ASSUME NEW n \in Nat, NEW h \in 0 .. n - 1, NEW k \in 1 .. n, NEW s,
         h + k - 1 >= n => s = h + k - 1 - n,
         ~(h + k - 1 >= n) => s = h + k - 1
  PROVE  /\ s >= h => s - h + 1 = k
         /\ ~(s >= h) => s + n - h + 1 = k
  <1>1. CASE h + k - 1 >= n
    BY <1>1
  <1>2. CASE ~(h + k - 1 >= n)
    BY <1>2
  <1>3. QED
    BY <1>1, <1>2

\* Slots of the ring, counted from one slot and from another.
LEMMA Slots ==
  ASSUME RingInv, NEW from \in 0 .. stream.xLength - 1, NEW n \in 0 .. stream.xLength - 1
  PROVE  /\ \A i \in 1 .. stream.xLength :
              /\ Slot(from, i) \in 0 .. stream.xLength - 1
              /\ from + i - 1 >= stream.xLength => Slot(from, i) = from + i - 1 - stream.xLength
              /\ ~(from + i - 1 >= stream.xLength) => Slot(from, i) = from + i - 1
         /\ StreamBuffer!Wrap(from + n) \in 0 .. stream.xLength - 1
         /\ \A i \in 1 .. stream.xLength - n :
              Slot(StreamBuffer!Wrap(from + n), i) = Slot(from, n + i)
         /\ \A k \in 0 .. stream.xLength - 1 - n :
              StreamBuffer!Wrap(StreamBuffer!Wrap(from + n) + k)
                = StreamBuffer!Wrap(from + (n + k))
         /\ n >= 1 =>
              StreamBuffer!Wrap(stream.xLength + StreamBuffer!Wrap(from + n) - from) = n
         /\ Slot(from, 1) = from
  <1>1. stream.xLength \in Nat /\ stream.xLength >= 2
    BY StreamUse DEF RingInv
  <1> DEFINE to == StreamBuffer!Wrap(from + n)
  <1>2. /\ from + n >= stream.xLength => to = from + n - stream.xLength
        /\ ~(from + n >= stream.xLength) => to = from + n
    BY <1>1 DEF StreamBuffer!Wrap, StreamBuffer!L
  <1>3. to \in 0 .. stream.xLength - 1
    BY <1>1, <1>2
  <1> HIDE DEF to
  <1>4. ASSUME NEW i \in 1 .. stream.xLength
        PROVE  /\ Slot(from, i) \in 0 .. stream.xLength - 1
               /\ from + i - 1 >= stream.xLength =>
                    Slot(from, i) = from + i - 1 - stream.xLength
               /\ ~(from + i - 1 >= stream.xLength) => Slot(from, i) = from + i - 1
    <2>1. /\ from + i - 1 >= stream.xLength => Slot(from, i) = from + i - 1 - stream.xLength
          /\ ~(from + i - 1 >= stream.xLength) => Slot(from, i) = from + i - 1
      BY <1>1, <1>3 DEF Slot, StreamBuffer!Wrap, StreamBuffer!L
    <2>2. QED
      BY <1>1, <2>1
  <1>5. ASSUME NEW i \in 1 .. stream.xLength - n
        PROVE  Slot(to, i) = Slot(from, n + i)
    <2>1. /\ to + i - 1 >= stream.xLength => Slot(to, i) = to + i - 1 - stream.xLength
          /\ ~(to + i - 1 >= stream.xLength) => Slot(to, i) = to + i - 1
      BY <1>1, <1>3 DEF Slot, StreamBuffer!Wrap, StreamBuffer!L
    <2>2. n + i \in 1 .. stream.xLength
      BY <1>1
    <2>3. QED
      BY <1>1, <1>2, <1>3, <1>4, <2>1, <2>2
  <1>6. ASSUME NEW k \in 0 .. stream.xLength - 1 - n
        PROVE  StreamBuffer!Wrap(to + k) = StreamBuffer!Wrap(from + (n + k))
    <2>1. /\ to + k >= stream.xLength => StreamBuffer!Wrap(to + k) = to + k - stream.xLength
          /\ ~(to + k >= stream.xLength) => StreamBuffer!Wrap(to + k) = to + k
          /\ from + (n + k) >= stream.xLength =>
               StreamBuffer!Wrap(from + (n + k)) = from + (n + k) - stream.xLength
          /\ ~(from + (n + k) >= stream.xLength) =>
               StreamBuffer!Wrap(from + (n + k)) = from + (n + k)
      BY <1>1, <1>3 DEF StreamBuffer!Wrap, StreamBuffer!L
    <2>2. QED
      BY <1>1, <1>2, <1>3, <2>1
  <1>7. n >= 1 => StreamBuffer!Wrap(stream.xLength + to - from) = n
    <2>1. /\ stream.xLength + to - from >= stream.xLength =>
               StreamBuffer!Wrap(stream.xLength + to - from)
                 = stream.xLength + to - from - stream.xLength
          /\ ~(stream.xLength + to - from >= stream.xLength) =>
               StreamBuffer!Wrap(stream.xLength + to - from) = stream.xLength + to - from
      BY <1>1, <1>3 DEF StreamBuffer!Wrap, StreamBuffer!L
    <2>2. QED
      BY <1>1, <1>2, <1>3, <2>1
  <1>8. Slot(from, 1) = from
    <2>1. 1 \in 1 .. stream.xLength
      BY <1>1
    <2>2. QED
      BY <1>1, <1>4, <2>1
  <1>9. QED
    BY <1>3, <1>4, <1>5, <1>6, <1>7, <1>8 DEF to

\* The writer writes behind the head, where the reader does not look.
LEMMA StreamWrites ==
  ASSUME StreamInv, UNCHANGED stream, StreamBuffer!Write
  PROVE  StreamInv'
  <1> USE DEF StreamBuffer!ring, StreamBuffer!waiters
  <1> DEFINE data == StreamBuffer!Data
             n == Len(data)
             L == stream.xLength
  <1>1. /\ RingInv /\ WriterInv /\ ReaderInv /\ FramesInv /\ WakeInv /\ Len(pipe) \in Nat
        /\ L \in Nat /\ L >= 2 /\ n \in Nat
        /\ xHead \in 0 .. L - 1
    BY Measures, StreamUse, DataFits DEF StreamInv, RingInv
  <1>2. /\ streamPc["writer"] = "write"
        /\ streamPc' = [streamPc EXCEPT !["writer"] = IF n = 0 THEN "out" ELSE "publish"]
        /\ buffer' = [i \in 0 .. L - 1 |->
                        LET k == IF i >= xHead THEN i - xHead + 1 ELSE i + L - xHead + 1
                        IN  IF k <= n THEN data[k] ELSE buffer[i]]
        /\ new' = [new EXCEPT !["writer"] = StreamBuffer!Wrap(xHead + n)]
        /\ UNCHANGED <<xHead, xTail, waitingToSend, waitingToReceive, notified, size, seen,
                       next, pipe>>
    BY DEF StreamBuffer!Write, StreamBuffer!Goes, StreamBuffer!L
  <1>3. n <= L - 1 - Len(pipe)
    <2>1. seen["writer"] <= L - 1 - Len(pipe) /\ n <= seen["writer"]
      BY <1>1, <1>2, DataFits DEF WriterInv
    <2>2. seen["writer"] \in Nat
      BY <1>1 DEF RingInv, StreamBuffer!Sides
    <2>3. QED
      BY <1>1, <2>1, <2>2
  <1>4. /\ xTail \in 0 .. L - 1 /\ Len(pipe) \in 0 .. L - 1
        /\ xHead = StreamBuffer!Wrap(xTail + Len(pipe))
    BY <1>1 DEF RingInv
  <1>5. \A k \in 1 .. n : buffer'[Slot(xHead, k)] = data[k]
    <2>1. ASSUME NEW k \in 1 .. n PROVE buffer'[Slot(xHead, k)] = data[k]
      <3>0. k \in 1 .. L /\ 0 \in 0 .. L - 1
        BY <1>1, <1>3
      <3>1. /\ Slot(xHead, k) \in 0 .. L - 1
            /\ xHead + k - 1 >= L => Slot(xHead, k) = xHead + k - 1 - L
            /\ ~(xHead + k - 1 >= L) => Slot(xHead, k) = xHead + k - 1
        BY <1>1, <3>0, Slots
      <3>2. /\ Slot(xHead, k) >= xHead => Slot(xHead, k) - xHead + 1 = k
            /\ ~(Slot(xHead, k) >= xHead) => Slot(xHead, k) + L - xHead + 1 = k
        BY <1>1, <3>0, <3>1, SlotDistance
      <3>3. QED
        BY <1>2, <3>1, <3>2
    <2>2. QED
      BY <2>1
  <1>6. \A i \in 1 .. Len(pipe) : buffer'[Slot(xTail, i)] = buffer[Slot(xTail, i)]
    <2>1. ASSUME NEW i \in 1 .. Len(pipe)
          PROVE  buffer'[Slot(xTail, i)] = buffer[Slot(xTail, i)]
      <3> DEFINE k == L - Len(pipe) + i
      <3>1. k \in 1 .. L /\ i \in 1 .. L /\ 0 \in 0 .. L - 1 /\ ~(k <= n)
        BY <1>1, <1>3, <1>4
      <3>2. /\ Slot(xTail, i) \in 0 .. L - 1
            /\ xTail + i - 1 >= L => Slot(xTail, i) = xTail + i - 1 - L
            /\ ~(xTail + i - 1 >= L) => Slot(xTail, i) = xTail + i - 1
        BY <1>1, <1>4, <3>1, Slots
      <3>3. /\ xTail + Len(pipe) >= L => xHead = xTail + Len(pipe) - L
            /\ ~(xTail + Len(pipe) >= L) => xHead = xTail + Len(pipe)
        BY <1>1, <1>4 DEF StreamBuffer!Wrap, StreamBuffer!L
      <3>4. /\ xHead + k - 1 >= L => Slot(xTail, i) = xHead + k - 1 - L
            /\ ~(xHead + k - 1 >= L) => Slot(xTail, i) = xHead + k - 1
        <4>1. xTail + i - 1 \in Int /\ xTail \in Int /\ i \in Int /\ Slot(xTail, i) \in Int
                /\ Len(pipe) \in Int /\ i <= Len(pipe)
          BY <1>1, <1>4, <3>2
        <4>2. CASE xTail + Len(pipe) >= L
          <5>1. xHead = xTail + Len(pipe) - L
            BY <3>3, <4>2
          <5>2. xHead + k - 1 = xTail + i - 1
            BY <1>1, <4>1, <5>1
          <5>3. k \in Int /\ L \in Int /\ xHead \in Int
            BY <1>1, <3>1
          <5>4. /\ xHead + k - 1 >= L => Slot(xTail, i) = xHead + k - 1 - L
                /\ ~(xHead + k - 1 >= L) => Slot(xTail, i) = xHead + k - 1
            <6> HIDE DEF k
            <6>1. QED
              BY <3>2, <4>1, <5>2, <5>3
          <5>5. QED
            BY <5>4
        <4>3. CASE ~(xTail + Len(pipe) >= L)
          <5>1. xHead = xTail + Len(pipe)
            BY <3>3, <4>3
          <5>2. xHead + k - 1 = xTail + i - 1 + L
            BY <1>1, <4>1, <5>1
          <5>3. k \in Int /\ L \in Int
            BY <1>1, <3>1
          <5>4. /\ xHead + k - 1 >= L => Slot(xTail, i) = xHead + k - 1 - L
                /\ ~(xHead + k - 1 >= L) => Slot(xTail, i) = xHead + k - 1
            <6> HIDE DEF k
            <6>1. ~(xTail + i - 1 >= L)
              BY <4>1, <4>3, <5>3
            <6>2. Slot(xTail, i) = xTail + i - 1
              BY <3>2, <6>1
            <6>3. xHead \in Int /\ xTail >= 0 /\ i >= 1
              BY <1>1, <1>4
            <6>4. QED
              BY <4>1, <5>2, <5>3, <6>1, <6>2, <6>3
          <5>5. QED
            BY <5>4
        <4>4. QED
          BY <4>2, <4>3
      <3>5. /\ Slot(xTail, i) >= xHead => Slot(xTail, i) - xHead + 1 = k
            /\ ~(Slot(xTail, i) >= xHead) => Slot(xTail, i) + L - xHead + 1 = k
        BY <1>1, <3>1, <3>4, SlotDistance
      <3>6. QED
        <4> HIDE DEF k, n
        <4>1. PICK j \in 0 .. L - 1 : j = Slot(xTail, i)
          BY <3>2
        <4>2. (IF j >= xHead THEN j - xHead + 1 ELSE j + L - xHead + 1) = k
          BY <3>5, <4>1
        <4>3. buffer'[j] = buffer[j]
          BY <1>2, <3>1, <4>1, <4>2
        <4>4. QED
          BY <4>1, <4>3
    <2>2. QED
      BY <2>1
  <1>7. RingInv'
    <2>1. /\ DOMAIN buffer' = 0 .. L - 1
          /\ DOMAIN new' = StreamBuffer!Sides
      BY <1>1, <1>2 DEF RingInv
    <2>2. streamPc' \in [StreamBuffer!Sides -> StreamPcs]
      BY <1>1, <1>2 DEF RingInv, StreamPcs
    <2>3. \A i \in 1 .. Len(pipe') : buffer'[Slot(xTail, i)'] = pipe'[i]
      BY <1>1, <1>2, <1>6 DEF RingInv, Slot, StreamBuffer!Wrap, StreamBuffer!L
    <2>4. xHead' = StreamBuffer!Wrap(xTail + Len(pipe))'
      BY <1>2, <1>4 DEF StreamBuffer!Wrap, StreamBuffer!L
    <2>5. QED
      BY <1>1, <1>2, <2>1, <2>2, <2>3, <2>4 DEF RingInv, StreamPcs
  <1>8. /\ streamPc'["writer"] = IF n = 0 THEN "out" ELSE "publish"
        /\ streamPc'["reader"] = streamPc["reader"]
        /\ new'["writer"] = StreamBuffer!Wrap(xHead + n) /\ new'["reader"] = new["reader"]
    BY <1>1, <1>2 DEF RingInv, StreamBuffer!Sides
  <1>9. WriterInv'
    <2>1. StreamBuffer!Data' = data
      BY <1>2, DataSame
    <2>2. seen'["writer"] <= (stream.xLength - 1 - Len(pipe))'
      BY <1>1, <1>2 DEF WriterInv
    <2>3. StreamBuffer!Wrap(xHead + n)' = StreamBuffer!Wrap(xHead + n)
            /\ \A k \in 1 .. n : Slot(xHead, k)' = Slot(xHead, k)
      BY <1>2, <2>1 DEF Slot, StreamBuffer!Wrap, StreamBuffer!L
    <2>4. n # 0 => n >= 1
      BY <1>1
    <2>5. ASSUME streamPc'["writer"] = "publish"
          PROVE  /\ (Len(StreamBuffer!Data) >= 1)'
                 /\ (new["writer"] = StreamBuffer!Wrap(xHead + Len(StreamBuffer!Data)))'
                 /\ (\A k \in 1 .. Len(StreamBuffer!Data) :
                       buffer[Slot(xHead, k)] = StreamBuffer!Data[k])'
      <3>1. n >= 1
        BY <1>8, <2>4, <2>5
      <3>2. StreamBuffer!Wrap(xHead + Len(StreamBuffer!Data))' = StreamBuffer!Wrap(xHead + n)
        BY <1>2, <2>1 DEF StreamBuffer!Wrap, StreamBuffer!L
      <3>3. QED
        BY <1>5, <1>8, <2>1, <2>3, <3>1, <3>2
    <2>6. QED
      BY <2>2, <2>5, Zenon DEF WriterInv
  <1>10. ReaderInv'
    BY <1>1, <1>2, <1>8, ReaderKeeps
  <1>11. FramesInv'
    BY <1>1, <1>2, <1>8, FramesKeep
  <1>12. WakeInv'
    BY <1>1, <1>2, <1>8, WakeKeeps
  <1>13. QED
    BY <1>7, <1>9, <1>10, <1>11, <1>12 DEF StreamInv

\* The head is moved over what was written: the pipe gets longer by that.
LEMMA StreamSends ==
  ASSUME StreamInv, UNCHANGED stream, StreamBuffer!PublishHead
  PROVE  StreamInv'
  <1> USE DEF StreamBuffer!ring, StreamBuffer!waiters
  <1> DEFINE data == StreamBuffer!Data
             n == Len(data)
             L == stream.xLength
  <1>1. /\ RingInv /\ WriterInv /\ ReaderInv /\ FramesInv /\ WakeInv /\ Len(pipe) \in Nat
        /\ L \in Nat /\ L >= 2 /\ n \in Nat /\ data \in Seq(Nat) /\ pipe \in Seq(Nat)
        /\ xTail \in 0 .. L - 1 /\ Len(pipe) \in 0 .. L - 1
        /\ xHead = StreamBuffer!Wrap(xTail + Len(pipe)) /\ xHead \in 0 .. L - 1
    <2>1. RingInv /\ WriterInv /\ ReaderInv /\ FramesInv /\ WakeInv
      BY DEF StreamInv
    <2>2. /\ Len(pipe) \in Nat /\ xHead \in 0 .. L - 1
          /\ n \in Nat /\ data \in Seq(Nat)
      BY <2>1, Measures, DataFits
    <2>3. /\ stream \in StreamUses /\ pipe \in Seq(Nat) /\ Len(pipe) <= L - 1
          /\ xTail \in 0 .. L - 1 /\ xHead = StreamBuffer!Wrap(xTail + Len(pipe))
      BY <2>1, Zenon DEF RingInv
    <2>4. L \in Nat /\ L >= 2
      BY <2>3, StreamUse
    <2>5. Len(pipe) \in 0 .. L - 1
      BY <2>2, <2>3, <2>4
    <2>6. QED
      BY <2>1, <2>2, <2>3, <2>4, <2>5
  <1>2. /\ streamPc["writer"] = "publish"
        /\ streamPc' = [streamPc EXCEPT !["writer"] = "complete"]
        /\ xHead' = new["writer"] /\ pipe' = pipe \o data
        /\ next' = (next + StreamBuffer!Wrap(L + new["writer"] - xHead)
                     - StreamBuffer!Overhead) % Values
        /\ UNCHANGED <<buffer, xTail, waitingToSend, waitingToReceive, notified, size, seen,
                       new>>
    BY DEF StreamBuffer!PublishHead, StreamBuffer!Goes, StreamBuffer!L
  <1>3. /\ n >= 1 /\ n <= L - 1 - Len(pipe)
        /\ new["writer"] = StreamBuffer!Wrap(xHead + n)
        /\ \A k \in 1 .. n : buffer[Slot(xHead, k)] = data[k]
    <2>1. seen["writer"] <= L - 1 - Len(pipe) /\ n <= seen["writer"]
      BY <1>1, <1>2, DataFits DEF WriterInv
    <2>2. seen["writer"] \in Nat
      BY <1>1 DEF RingInv, StreamBuffer!Sides
    <2>3. n <= L - 1 - Len(pipe)
      BY <1>1, <2>1, <2>2
    <2>4. QED
      BY <1>1, <1>2, <2>3 DEF WriterInv
  <1>4. stream.messages => data[1] \in Nat \ {0} /\ n = stream.prefix + data[1]
    BY <1>1, <1>3, DataFits
  <1> HIDE DEF data, n, L
  <1>5. /\ pipe' \in Seq(Nat) /\ Len(pipe') = Len(pipe) + n
        /\ \A i \in 1 .. Len(pipe) : pipe'[i] = pipe[i]
        /\ \A i \in 1 .. n : pipe'[Len(pipe) + i] = data[i]
    <2>1. /\ pipe \o data \in Seq(Nat) /\ Len(pipe \o data) = Len(pipe) + Len(data)
          /\ \A i \in 1 .. Len(pipe) + Len(data) :
               (pipe \o data)[i] = IF i <= Len(pipe) THEN pipe[i] ELSE data[i - Len(pipe)]
      BY <1>1, ConcatProperties, Zenon
    <2>2. ASSUME NEW i \in 1 .. Len(pipe) PROVE pipe'[i] = pipe[i]
      <3>1. i \in 1 .. Len(pipe) + Len(data) /\ i <= Len(pipe)
        BY <1>1 DEF n
      <3>2. QED
        BY <1>2, <2>1, <3>1
    <2>3. ASSUME NEW i \in 1 .. n PROVE pipe'[Len(pipe) + i] = data[i]
      <3>1. /\ Len(pipe) + i \in 1 .. Len(pipe) + Len(data) /\ ~(Len(pipe) + i <= Len(pipe))
            /\ Len(pipe) + i - Len(pipe) = i
        BY <1>1 DEF n
      <3>2. QED
        BY <1>2, <2>1, <3>1
    <2>4. QED
      BY <1>2, <2>1, <2>2, <2>3 DEF n
  <1>6. next' \in Nat
    <2>1. next \in Nat /\ stream.prefix \in Nat /\ Values \in Nat \ {0}
      BY <1>1, StreamUse DEF RingInv
    <2>2. StreamBuffer!Wrap(L + new["writer"] - xHead) = n
      <3>1. n \in 0 .. L - 1 /\ xHead \in 0 .. stream.xLength - 1 /\ L = stream.xLength
        BY <1>1, <1>3 DEF L
      <3>2. QED
        BY <1>1, <1>3, <3>1, Slots
    <2>3. n - StreamBuffer!Overhead \in Nat
      <3>1. CASE stream.messages
        BY <1>4, <2>1, <3>1 DEF StreamBuffer!Overhead
      <3>2. CASE ~stream.messages
        BY <1>1, <3>2 DEF StreamBuffer!Overhead
      <3>3. QED
        BY <3>1, <3>2
    <2>4. StreamBuffer!Overhead \in Nat
      BY <2>1 DEF StreamBuffer!Overhead
    <2>5. next + n - StreamBuffer!Overhead \in Nat
      BY <1>1, <2>1, <2>3, <2>4
    <2>6. next' = (next + n - StreamBuffer!Overhead) % Values
      BY <1>2, <2>2, Zenon
    <2>7. (next + n - StreamBuffer!Overhead) % Values \in 0 .. Values - 1
      BY <2>1, <2>5, Division
    <2>8. QED
      BY <2>1, <2>6, <2>7
  <1>7. xHead' = StreamBuffer!Wrap(xTail + (Len(pipe) + n))
    <2>1. /\ xTail \in 0 .. stream.xLength - 1 /\ Len(pipe) \in 0 .. stream.xLength - 1
          /\ n \in 0 .. stream.xLength - 1 - Len(pipe)
      BY <1>1, <1>3 DEF L
    <2>2. QED
      BY <1>1, <1>2, <1>3, <2>1, Slots
  <1>8. \A i \in 1 .. Len(pipe') : buffer'[Slot(xTail, i)] = pipe'[i]
    <2>1. ASSUME NEW i \in 1 .. Len(pipe') PROVE buffer'[Slot(xTail, i)] = pipe'[i]
      <3>1. CASE i \in 1 .. Len(pipe)
        BY <1>1, <1>2, <1>5, <3>1 DEF RingInv
      <3>2. CASE i \notin 1 .. Len(pipe)
        <4>1. PICK k \in 1 .. n : i = Len(pipe) + k
          <5>1. i - Len(pipe) \in 1 .. n /\ i = Len(pipe) + (i - Len(pipe))
            BY <1>1, <1>5, <3>2
          <5>2. QED
            BY <5>1
        <4>2. /\ xTail \in 0 .. stream.xLength - 1 /\ Len(pipe) \in 0 .. stream.xLength - 1
              /\ k \in 1 .. stream.xLength - Len(pipe)
          <5>1. /\ xTail \in 0 .. stream.xLength - 1
                /\ Len(pipe) \in 0 .. stream.xLength - 1
                /\ stream.xLength \in Nat
            BY <1>1, <1>3 DEF L
          <5>2. n \in Nat /\ n <= stream.xLength - 1 - Len(pipe)
            BY <1>1, <1>3 DEF L
          <5>3. k \in Nat /\ k >= 1 /\ k <= n
            BY <4>1, <5>2
          <5>4. QED
            <6> HIDE DEF n
            <6>1. QED
              BY <5>1, <5>2, <5>3
        <4>3. Slot(xHead, k) = Slot(xTail, i)
          BY <1>1, <4>1, <4>2, Slots
        <4>4. QED
          BY <1>2, <1>3, <1>5, <4>1, <4>3
      <3>3. QED
        BY <3>1, <3>2
    <2>2. QED
      BY <2>1
  <1>9. /\ streamPc' \in [StreamBuffer!Sides -> StreamPcs]
        /\ streamPc'["writer"] = "complete" /\ streamPc'["reader"] = streamPc["reader"]
    BY <1>1, <1>2 DEF RingInv, StreamPcs, StreamBuffer!Sides
  <1>10. RingInv'
    <2>1. \A i \in 1 .. Len(pipe') : Slot(xTail, i)' = Slot(xTail, i)
      BY <1>2 DEF Slot, StreamBuffer!Wrap, StreamBuffer!L
    <2>2. StreamBuffer!Wrap(xTail + Len(pipe))' = StreamBuffer!Wrap(xTail + (Len(pipe) + n))
      BY <1>2, <1>5 DEF StreamBuffer!Wrap, StreamBuffer!L
    <2>3. Len(pipe') <= L - 1
      BY <1>1, <1>3, <1>5
    <2>4. QED
      BY <1>1, <1>2, <1>5, <1>6, <1>7, <1>8, <1>9, <2>1, <2>2, <2>3
      DEF RingInv, StreamPcs, L
  <1>11. WriterInv'
    BY <1>9 DEF WriterInv
  <1>12. ReaderInv'
    <2>1. Len(pipe') \in Nat /\ Len(pipe) <= Len(pipe')
      BY <1>1, <1>5
    <2>2. Len(pipe) >= 1 => pipe'[1] = pipe[1]
      BY <1>1, <1>5
    <2>3. QED
      BY <1>1, <1>2, <1>9, <2>1, <2>2, ReaderKeeps
  <1>13. FramesInv'
    <2>1. ASSUME stream.messages
          PROVE  \E starts \in SUBSET Nat :
                   Frames(pipe, starts)'
                   /\ (streamPc'["reader"] = "read" => seen'["reader"] \in starts)
      <3>1. PICK starts \in SUBSET Nat :
              /\ Frames(pipe, starts)
              /\ streamPc["reader"] = "read" => seen["reader"] \in starts
        BY <1>1, <2>1 DEF FramesInv
      <3>0. PICK more \in SUBSET Nat : more = starts \union {Len(pipe) + n}
        <4>1. Len(pipe) + n \in Nat
          BY <1>1
        <4>2. starts \union {Len(pipe) + n} \in SUBSET Nat
          BY <4>1, Zenon
        <4>3. QED
          BY <4>2, Zenon
      <3>2. /\ starts \subseteq 0 .. Len(pipe) /\ 0 \in starts
            /\ Len(pipe) \in starts /\ stream.prefix \in Nat
        <4>1. starts \subseteq 0 .. Len(pipe) /\ 0 \in starts /\ Len(pipe) \in starts
          BY <3>1, Zenon DEF Frames
        <4>2. stream.prefix \in Nat
          BY <1>1, StreamUse DEF RingInv
        <4>3. QED
          BY <4>1, <4>2
      <3>3. data[1] \in Nat \ {0} /\ n = stream.prefix + data[1]
        BY <1>4, <2>1
      <3>4. ASSUME NEW b \in more, b < Len(pipe')
            PROVE  /\ pipe'[b + 1] >= 1 /\ b + stream.prefix + pipe'[b + 1] \in more
                   /\ \A c \in more : c <= b \/ c >= b + stream.prefix + pipe'[b + 1]
        <4>1. CASE b < Len(pipe)
          <5>1. b \in starts /\ b + 1 \in 1 .. Len(pipe) /\ pipe[b + 1] \in Nat
            <6>1. b \in starts /\ b \in Nat
              BY <1>1, <3>0, <3>2, <3>4, <4>1
            <6>2. b + 1 \in 1 .. Len(pipe)
              BY <1>1, <4>1, <6>1
            <6>3. pipe[b + 1] \in Nat
              BY <1>1, <6>2
            <6>4. QED
              BY <6>1, <6>2, <6>3
          <5>2. /\ pipe[b + 1] >= 1 /\ b + stream.prefix + pipe[b + 1] \in starts
                /\ \A c \in starts : c <= b \/ c >= b + stream.prefix + pipe[b + 1]
            BY <3>1, <4>1, <5>1 DEF Frames
          <5>3. Len(pipe) + n >= b + stream.prefix + pipe[b + 1]
            <6>1. b + stream.prefix + pipe[b + 1] \in 0 .. Len(pipe)
              BY <3>2, <5>2, Zenon
            <6> DEFINE e == b + stream.prefix + pipe[b + 1]
            <6> HIDE DEF e
            <6>2. e \in 0 .. Len(pipe)
              BY <6>1 DEF e
            <6>3. Len(pipe) + n >= e
              BY <1>1, <6>2
            <6>4. QED
              BY <6>3 DEF e
          <5>4. pipe'[b + 1] = pipe[b + 1]
            BY <1>5, <5>1
          <5>5. QED
            BY <3>0, <5>2, <5>3, <5>4
        <4>2. CASE ~(b < Len(pipe))
          <5>1. b = Len(pipe)
            BY <1>1, <1>5, <3>0, <3>2, <3>4, <4>2
          <5>2. pipe'[b + 1] = data[1]
            BY <1>1, <1>3, <1>5, <5>1
          <5>3. b + stream.prefix + data[1] = Len(pipe) + n
            BY <1>1, <3>2, <3>3, <5>1
          <5>4. \A c \in more : c <= b \/ c >= Len(pipe) + n
            BY <1>1, <3>0, <3>2, <5>1
          <5>5. QED
            BY <3>0, <3>3, <5>2, <5>3, <5>4
        <4>3. QED
          BY <4>1, <4>2
      <3>5. Frames(pipe, more)'
        <4>1. more \subseteq 0 .. Len(pipe') /\ 0 \in more /\ Len(pipe') \in more
          BY <1>1, <1>5, <3>0, <3>2
        <4>2. Frames(pipe, more)' <=>
                /\ more \subseteq 0 .. Len(pipe') /\ 0 \in more /\ Len(pipe') \in more
                /\ \A b \in more : b < Len(pipe') =>
                     /\ pipe'[b + 1] >= 1 /\ b + stream'.prefix + pipe'[b + 1] \in more
                     /\ \A c \in more : c <= b \/ c >= b + stream'.prefix + pipe'[b + 1]
          BY DEF Frames
        <4>3. QED
          BY <3>4, <4>1, <4>2
      <3>6. streamPc'["reader"] = "read" => seen'["reader"] \in more
        BY <1>2, <1>9, <3>0, <3>1
      <3>7. QED
        BY <3>5, <3>6
    <2>2. QED
      BY <2>1, Zenon DEF FramesInv
  <1>14. WakeInv'
    BY <1>1, <1>2, <1>9, Zenon DEF WakeInv
  <1>15. QED
    BY <1>10, <1>11, <1>12, <1>13, <1>14 DEF StreamInv

\* A reader takes no more than it has seen, and one whole message of a message buffer:
\* what it has seen ends with a message, and the first one is in it.
LEMMA TakingFits ==
  ASSUME RingInv, ReaderInv, FramesInv, streamPc["reader"] = "read"
  PROVE  /\ StreamBuffer!Taking \in 0 .. Len(pipe)
         /\ stream.messages /\ StreamBuffer!Taking # 0 =>
              StreamBuffer!Taking = stream.prefix + pipe[1]
  <1> DEFINE room == size["reader"]
             body == seen["reader"] - StreamBuffer!Overhead
             first1 == buffer[xTail]
  <1>1. /\ Len(pipe) \in Nat /\ stream.xLength \in Nat /\ stream.xLength >= 2
        /\ stream.prefix \in Nat /\ room \in Nat /\ seen["reader"] \in Nat
        /\ xTail \in 0 .. stream.xLength - 1
    BY StreamUse, Measures DEF RingInv, StreamBuffer!Sides
  <1>2. StreamBuffer!Overhead < seen["reader"] /\ seen["reader"] <= Len(pipe)
    BY Zenon DEF ReaderInv
  <1>3. CASE stream.messages
    <2>1. StreamBuffer!Overhead = stream.prefix
      BY <1>3 DEF StreamBuffer!Overhead
    <2>2. PICK starts \in SUBSET Nat : Frames(pipe, starts) /\ seen["reader"] \in starts
      BY <1>3, Zenon DEF FramesInv
    <2>3. Len(pipe) >= 1 /\ 1 \in 1 .. Len(pipe) /\ 0 < Len(pipe)
      BY <1>1, <1>2, <2>1
    <2>4. first1 = pipe[1] /\ pipe[1] \in Nat
      <3>1. buffer[Slot(xTail, 1)] = pipe[1] /\ pipe[1] \in Nat
        BY <2>3 DEF RingInv
      <3>2. 0 \in 0 .. stream.xLength - 1
        BY <1>1
      <3>3. Slot(xTail, 1) = xTail
        BY <1>1, <3>2, Slots
      <3>4. QED
        BY <3>1, <3>3
    <2>5. seen["reader"] <= 0 \/ seen["reader"] >= 0 + stream.prefix + pipe[0 + 1]
      BY <2>2, <2>3, Zenon DEF Frames
    <2>6. seen["reader"] >= stream.prefix + pipe[1] /\ ~(seen["reader"] <= 0)
      BY <1>1, <1>2, <2>1, <2>4, <2>5
    <2>7. StreamBuffer!Taking = IF first1 > room THEN 0
                                ELSE stream.prefix + (IF first1 < body THEN first1 ELSE body)
      BY <1>3, Zenon DEF StreamBuffer!Taking
    <2>8. body = seen["reader"] - stream.prefix
      BY <2>1
    <2> HIDE DEF room, body, first1
    <2>9. StreamBuffer!Taking = 0 \/ StreamBuffer!Taking = stream.prefix + pipe[1]
      <3>1. body \in Int /\ body >= pipe[1]
        BY <1>1, <2>4, <2>6, <2>8
      <3>2. first1 \in Int /\ (~(first1 < body) => body = first1)
        BY <2>4, <3>1
      <3>3. QED
        BY <2>4, <2>7, <3>2
    <2>10. QED
      BY <1>1, <1>2, <2>4, <2>6, <2>9
  <1>4. CASE ~stream.messages
    <2>1. StreamBuffer!Overhead = 0
      BY <1>4 DEF StreamBuffer!Overhead
    <2>2. StreamBuffer!Taking = IF room < body THEN room ELSE body
      BY <1>4, Zenon DEF StreamBuffer!Taking
    <2>3. body = seen["reader"]
      BY <1>1, <2>1
    <2> HIDE DEF room, body
    <2>4. StreamBuffer!Taking \in 0 .. Len(pipe)
      BY <1>1, <1>2, <2>2, <2>3
    <2>5. QED
      BY <1>4, <2>4, Zenon
  <1>5. QED
    BY <1>3, <1>4

\* The reader copies what it takes; the tail stays.
LEMMA StreamReads ==
  ASSUME StreamInv, UNCHANGED stream, StreamBuffer!Read
  PROVE  StreamInv'
  <1> USE DEF StreamBuffer!ring, StreamBuffer!waiters
  <1> DEFINE t == StreamBuffer!Taking
             L == stream.xLength
  <1>1. /\ RingInv /\ WriterInv /\ ReaderInv /\ FramesInv /\ WakeInv /\ Len(pipe) \in Nat
        /\ L \in Nat /\ L >= 2
        /\ xTail \in 0 .. L - 1 /\ Len(pipe) \in 0 .. L - 1
    BY Measures, StreamUse DEF StreamInv, RingInv
  <1>2. /\ streamPc["reader"] = "read"
        /\ streamPc' = [streamPc EXCEPT !["reader"] = IF t = 0 THEN "out" ELSE "publish"]
        /\ new' = [new EXCEPT !["reader"] = StreamBuffer!Wrap(xTail + t)]
        /\ UNCHANGED <<buffer, xHead, xTail, waitingToSend, waitingToReceive, notified, size,
                       seen, next, pipe>>
    BY DEF StreamBuffer!Read, StreamBuffer!Goes
  <1>3. /\ t \in 0 .. Len(pipe)
        /\ stream.messages /\ t # 0 => t = stream.prefix + pipe[1]
    BY <1>1, <1>2, TakingFits
  <1> HIDE DEF t
  <1>4. /\ streamPc'["writer"] = streamPc["writer"] /\ new'["writer"] = new["writer"]
        /\ new'["reader"] = StreamBuffer!Wrap(xTail + t)
        /\ streamPc'["reader"] = IF t = 0 THEN "out" ELSE "publish"
    BY <1>1, <1>2 DEF RingInv, StreamBuffer!Sides
  <1>5. RingInv'
    <2>1. streamPc' \in [StreamBuffer!Sides -> StreamPcs]
      BY <1>1, <1>2 DEF RingInv, StreamPcs
    <2>2. DOMAIN new' = StreamBuffer!Sides /\ DOMAIN notified' = StreamBuffer!Sides
      BY <1>1, <1>2 DEF RingInv
    <2>3. size' \in [StreamBuffer!Sides -> Nat] /\ seen' \in [StreamBuffer!Sides -> Nat]
      BY <1>1, <1>2 DEF RingInv
    <2>4. QED
      BY <1>1, <1>2, <2>1, <2>2, <2>3, RingKeeps
  <1>6. WriterInv'
    BY <1>1, <1>2, <1>4, WriterKeeps
  <1>7. ReaderInv'
    <2>1. ASSUME streamPc'["reader"] = "publish"
          PROVE  /\ Taken' \in 1 .. Len(pipe')
                 /\ new'["reader"] = StreamBuffer!Wrap(xTail + Taken)'
                 /\ stream.messages => Taken' = stream.prefix + pipe'[1]
      <3>1. t # 0
        BY <1>4, <2>1
      <3>2. t \in 0 .. stream.xLength - 1 /\ t >= 1 /\ t \in 1 .. Len(pipe)
        BY <1>1, <1>3, <3>1
      <3>3. StreamBuffer!Wrap(stream.xLength + StreamBuffer!Wrap(xTail + t) - xTail) = t
        BY <1>1, <3>2, Slots
      <3>4. Taken' = StreamBuffer!Wrap(stream.xLength + new'["reader"] - xTail)
        BY <1>2 DEF Taken, StreamBuffer!Wrap, StreamBuffer!L
      <3>5. Taken' = t
        BY <1>4, <3>3, <3>4
      <3>6. StreamBuffer!Wrap(xTail + Taken)' = StreamBuffer!Wrap(xTail + t)
        BY <1>2, <3>5 DEF StreamBuffer!Wrap, StreamBuffer!L
      <3>7. QED
        BY <1>2, <1>3, <1>4, <3>1, <3>2, <3>5, <3>6, Zenon
    <2>2. streamPc'["reader"] # "read"
      BY <1>4
    <2>3. QED
      BY <2>1, <2>2, Zenon DEF ReaderInv
  <1>8. FramesInv'
    BY <1>1, <1>2, <1>4, FramesKeep
  <1>9. WakeInv'
    BY <1>1, <1>2, <1>4, WakeKeeps
  <1>10. QED
    BY <1>5, <1>6, <1>7, <1>8, <1>9 DEF StreamInv

\* The tail is moved over what was copied: the pipe loses it at its front, and with it
\* one message of a message buffer.
LEMMA StreamReceives ==
  ASSUME StreamInv, UNCHANGED stream, StreamBuffer!PublishTail
  PROVE  StreamInv'
  <1> USE DEF StreamBuffer!ring, StreamBuffer!waiters
  <1>1. /\ RingInv /\ WriterInv /\ ReaderInv /\ FramesInv /\ WakeInv /\ Len(pipe) \in Nat
        /\ stream.xLength \in Nat /\ stream.xLength >= 2 /\ pipe \in Seq(Nat)
        /\ xTail \in 0 .. stream.xLength - 1 /\ Len(pipe) \in 0 .. stream.xLength - 1
        /\ xHead = StreamBuffer!Wrap(xTail + Len(pipe))
    BY Measures, StreamUse DEF StreamInv, RingInv
  <1>2. /\ streamPc["reader"] = "publish"
        /\ streamPc' = [streamPc EXCEPT !["reader"] = "complete"]
        /\ xTail' = new["reader"] /\ pipe' = SubSeq(pipe, Taken + 1, Len(pipe))
        /\ UNCHANGED <<buffer, xHead, waitingToSend, waitingToReceive, notified, size, seen,
                       new, next>>
    BY DEF StreamBuffer!PublishTail, StreamBuffer!Goes, StreamBuffer!L, Taken
  <1>3. PICK t \in 1 .. Len(pipe) :
          /\ t = Taken /\ new["reader"] = StreamBuffer!Wrap(xTail + t)
          /\ stream.messages => t = stream.prefix + pipe[1]
    BY <1>1, <1>2, Zenon DEF ReaderInv
  <1>4. /\ pipe' \in Seq(Nat) /\ Len(pipe') = Len(pipe) - t /\ Len(pipe') \in Nat
        /\ \A i \in 1 .. Len(pipe') : pipe'[i] = pipe[t + i] /\ t + i \in 1 .. Len(pipe)
    <2>1. t + 1 \in Int /\ Len(pipe) \in Int /\ \A i \in t + 1 .. Len(pipe) : pipe[i] \in Nat
      BY <1>1
    <2>2. /\ SubSeq(pipe, t + 1, Len(pipe)) \in Seq(Nat)
          /\ Len(SubSeq(pipe, t + 1, Len(pipe)))
               = IF t + 1 <= Len(pipe) THEN Len(pipe) - (t + 1) + 1 ELSE 0
          /\ \A i \in 1 .. Len(pipe) - (t + 1) + 1 :
               SubSeq(pipe, t + 1, Len(pipe))[i] = pipe[t + 1 + i - 1]
      BY <2>1, SubSeqProperties
    <2>3. /\ pipe' \in Seq(Nat)
          /\ Len(pipe') = IF t + 1 <= Len(pipe) THEN Len(pipe) - (t + 1) + 1 ELSE 0
          /\ \A i \in 1 .. Len(pipe) - (t + 1) + 1 : pipe'[i] = pipe[t + 1 + i - 1]
      BY <1>2, <1>3, <2>2, Zenon
    <2>4. Len(pipe') = Len(pipe) - t /\ Len(pipe') \in Nat
      BY <1>1, <2>3
    <2>5. ASSUME NEW i \in 1 .. Len(pipe')
          PROVE  pipe'[i] = pipe[t + i] /\ t + i \in 1 .. Len(pipe)
      <3>1. /\ i \in 1 .. Len(pipe) - (t + 1) + 1 /\ t + 1 + i - 1 = t + i
            /\ t + i \in 1 .. Len(pipe)
        BY <1>1, <2>4
      <3>2. QED
        BY <2>3, <3>1
    <2>6. QED
      BY <2>3, <2>4, <2>5
  <1>5. t \in 0 .. stream.xLength - 1 /\ t >= 1 /\ Len(pipe') \in 0 .. stream.xLength - 1 - t
    <2>1. Len(pipe) <= stream.xLength - 1
      BY <1>1
    <2>2. t \in Nat /\ t >= 1 /\ t <= Len(pipe)
      BY <1>1
    <2>3. Len(pipe') \in Nat /\ Len(pipe') = Len(pipe) - t
      BY <1>4
    <2>4. QED
      BY <1>1, <2>1, <2>2, <2>3
  <1>6. /\ xTail' = StreamBuffer!Wrap(xTail + t) /\ xTail' \in 0 .. stream.xLength - 1
        /\ \A i \in 1 .. stream.xLength - t :
             Slot(StreamBuffer!Wrap(xTail + t), i) = Slot(xTail, t + i)
        /\ StreamBuffer!Wrap(StreamBuffer!Wrap(xTail + t) + Len(pipe'))
             = StreamBuffer!Wrap(xTail + (t + Len(pipe')))
    <2>1. xTail' = StreamBuffer!Wrap(xTail + t)
      BY <1>2, <1>3, Zenon
    <2>2. StreamBuffer!Wrap(xTail + t) \in 0 .. stream.xLength - 1
      BY <1>1, <1>5, Slots
    <2>3. \A i \in 1 .. stream.xLength - t :
            Slot(StreamBuffer!Wrap(xTail + t), i) = Slot(xTail, t + i)
      BY <1>1, <1>5, Slots, Zenon
    <2>4. StreamBuffer!Wrap(StreamBuffer!Wrap(xTail + t) + Len(pipe'))
             = StreamBuffer!Wrap(xTail + (t + Len(pipe')))
      BY <1>1, <1>5, Slots, Zenon
    <2>5. QED
      BY <2>1, <2>2, <2>3, <2>4, Zenon
  <1>7. xHead = StreamBuffer!Wrap(xTail' + Len(pipe'))
    <2>1. t + Len(pipe') = Len(pipe)
      BY <1>1, <1>4
    <2>2. QED
      BY <1>1, <1>6, <2>1
  <1>8. \A i \in 1 .. Len(pipe') : buffer[Slot(xTail', i)] = pipe'[i]
    <2>1. ASSUME NEW i \in 1 .. Len(pipe') PROVE buffer[Slot(xTail', i)] = pipe'[i]
      <3>1. i \in 1 .. stream.xLength - t
        <4>1. PICK c \in Nat : c = Len(pipe')
          BY <1>4
        <4>2. i \in 1 .. c /\ c \in 0 .. stream.xLength - 1 - t
          BY <1>5, <4>1
        <4>3. QED
          BY <1>1, <1>5, <4>2
      <3>2. Slot(xTail', i) = Slot(xTail, t + i)
        BY <1>6, <3>1
      <3>3. buffer[Slot(xTail, t + i)] = pipe[t + i]
        BY <1>1, <1>4 DEF RingInv
      <3>4. QED
        BY <1>4, <3>2, <3>3
    <2>2. QED
      BY <2>1
  <1>9. /\ streamPc' \in [StreamBuffer!Sides -> StreamPcs]
        /\ streamPc'["reader"] = "complete" /\ streamPc'["writer"] = streamPc["writer"]
    BY <1>1, <1>2 DEF RingInv, StreamPcs, StreamBuffer!Sides
  <1>10. RingInv'
    <2>1. \A i : Slot(xTail, i)' = Slot(xTail', i)
      BY DEF Slot, StreamBuffer!Wrap, StreamBuffer!L
    <2>2. StreamBuffer!Wrap(xTail + Len(pipe))' = StreamBuffer!Wrap(xTail' + Len(pipe'))
      BY DEF StreamBuffer!Wrap, StreamBuffer!L
    <2>3. Len(pipe') <= stream.xLength - 1
      BY <1>1, <1>4
    <2>4. (\A i \in 1 .. Len(pipe) : buffer[Slot(xTail, i)] = pipe[i])'
      BY <1>2, <1>8, <2>1
    <2>5. (xTail \in 0 .. stream.xLength - 1 /\ xHead = StreamBuffer!Wrap(xTail + Len(pipe)))'
      BY <1>2, <1>6, <1>7, <2>2
    <2>6. /\ stream' \in StreamUses /\ next' \in Nat /\ DOMAIN buffer' = 0 .. stream'.xLength - 1
          /\ size' \in [StreamBuffer!Sides -> Nat] /\ seen' \in [StreamBuffer!Sides -> Nat]
          /\ DOMAIN new' = StreamBuffer!Sides /\ DOMAIN notified' = StreamBuffer!Sides
      BY <1>1, <1>2 DEF RingInv
    <2>7. QED
      BY <1>4, <1>9, <2>3, <2>4, <2>5, <2>6, Zenon DEF RingInv, StreamPcs
  <1>11. WriterInv'
    <2>1. Len(pipe') <= Len(pipe)
      BY <1>1, <1>4
    <2>2. QED
      BY <1>1, <1>2, <1>4, <1>9, <2>1, WriterKeeps
  <1>12. ReaderInv'
    BY <1>9 DEF ReaderInv
  <1>13. FramesInv'
    <2>1. ASSUME stream.messages
          PROVE  \E starts \in SUBSET Nat :
                   Frames(pipe, starts)'
                   /\ (streamPc'["reader"] = "read" => seen'["reader"] \in starts)
      <3>1. PICK starts \in SUBSET Nat : Frames(pipe, starts)
        BY <1>1, <2>1, Zenon DEF FramesInv
      <3>2. /\ starts \subseteq 0 .. Len(pipe) /\ 0 \in starts /\ Len(pipe) \in starts
            /\ \A b \in starts : b < Len(pipe) =>
                 /\ pipe[b + 1] >= 1 /\ b + stream.prefix + pipe[b + 1] \in starts
                 /\ \A c \in starts : c <= b \/ c >= b + stream.prefix + pipe[b + 1]
        BY <3>1, Zenon DEF Frames
      <3>3. stream.prefix \in Nat
        BY <1>1, StreamUse DEF RingInv
      <3>4. t \in starts
        <4>1. 0 < Len(pipe) /\ pipe[1] \in Nat /\ 0 \in starts
          BY <1>1, <3>2
        <4>2. 0 + stream.prefix + pipe[0 + 1] \in starts
          BY <3>2, <4>1, Zenon
        <4>3. 0 + stream.prefix + pipe[0 + 1] = t
          BY <1>3, <2>1, <3>3, <4>1
        <4>4. QED
          BY <4>2, <4>3
      <3>5. PICK rest \in SUBSET Nat : rest = {b \in Nat : b + t \in starts}
        OBVIOUS
      <3>6. /\ rest \subseteq 0 .. Len(pipe') /\ 0 \in rest /\ Len(pipe') \in rest
        <4>1. ASSUME NEW b \in rest PROVE b \in 0 .. Len(pipe')
          <5>1. b \in Nat /\ b + t \in 0 .. Len(pipe)
            BY <3>2, <3>5
          <5>2. QED
            BY <1>1, <1>4, <5>1
        <4>2. 0 + t = t /\ Len(pipe') + t = Len(pipe)
          BY <1>1, <1>4
        <4>3. QED
          BY <1>4, <3>2, <3>4, <3>5, <4>1, <4>2
      <3>7. ASSUME NEW b \in rest, b < Len(pipe')
            PROVE  /\ pipe'[b + 1] >= 1 /\ b + stream.prefix + pipe'[b + 1] \in rest
                   /\ \A c \in rest : c <= b \/ c >= b + stream.prefix + pipe'[b + 1]
        <4>1. /\ b \in Nat /\ b + t \in starts /\ b + t < Len(pipe)
              /\ b + 1 \in 1 .. Len(pipe') /\ t + (b + 1) = b + t + 1
              /\ b + t + 1 \in 1 .. Len(pipe)
          <5>1. b \in Nat /\ b + t \in starts
            BY <3>5
          <5>2. PICK c \in Nat : c = Len(pipe')
            BY <1>4
          <5>3. c = Len(pipe) - t /\ b < c
            BY <1>4, <3>7, <5>2
          <5>4. /\ b + t < Len(pipe) /\ b + 1 \in 1 .. c /\ t + (b + 1) = b + t + 1
                /\ b + t + 1 \in 1 .. Len(pipe)
            BY <1>1, <5>1, <5>2, <5>3
          <5>5. QED
            BY <5>1, <5>2, <5>4
        <4>2. PICK m \in Nat : m = pipe[b + t + 1]
          BY <1>1, <4>1
        <4>3. pipe'[b + 1] = m
          BY <1>4, <4>1, <4>2
        <4>4. /\ m >= 1 /\ b + t + stream.prefix + m \in starts
              /\ \A c \in starts : c <= b + t \/ c >= b + t + stream.prefix + m
          BY <3>2, <4>1, <4>2, Zenon
        <4>5. b + stream.prefix + m \in rest
          <5>1. /\ b + stream.prefix + m \in Nat
                /\ b + stream.prefix + m + t = b + t + stream.prefix + m
            BY <3>3, <4>1
          <5>2. QED
            BY <3>5, <4>4, <5>1
        <4>6. ASSUME NEW c \in rest PROVE c <= b \/ c >= b + stream.prefix + m
          <5>1. c \in Nat /\ c + t \in starts
            BY <3>5
          <5>2. c + t <= b + t \/ c + t >= b + t + stream.prefix + m
            BY <4>4, <5>1
          <5>3. QED
            BY <3>3, <4>1, <5>1, <5>2
        <4>7. QED
          BY <4>3, <4>4, <4>5, <4>6, Zenon
      <3>8. Frames(pipe, rest)'
        <4>1. Frames(pipe, rest)' <=>
                /\ rest \subseteq 0 .. Len(pipe') /\ 0 \in rest /\ Len(pipe') \in rest
                /\ \A b \in rest : b < Len(pipe') =>
                     /\ pipe'[b + 1] >= 1 /\ b + stream'.prefix + pipe'[b + 1] \in rest
                     /\ \A c \in rest : c <= b \/ c >= b + stream'.prefix + pipe'[b + 1]
          BY DEF Frames
        <4>2. QED
          BY <3>6, <3>7, <4>1
      <3>9. streamPc'["reader"] # "read"
        BY <1>9
      <3>10. QED
        BY <3>8, <3>9
    <2>2. QED
      BY <2>1, Zenon DEF FramesInv
  <1>14. WakeInv'
    <2>1. StreamBuffer!Required' = StreamBuffer!Required
      BY <1>2 DEF StreamBuffer!Required, StreamBuffer!L
    <2>2. streamPc'["reader"] = "complete" /\ streamPc'["reader"] # "wait"
      BY <1>9
    <2>3. QED
      BY <1>1, <1>2, <1>9, <2>2, Zenon DEF WakeInv
  <1>15. QED
    BY <1>10, <1>11, <1>12, <1>13, <1>14 DEF StreamInv

LEMMA StreamStep ==
  ASSUME StreamInv, [StreamBuffer!Next]_(StreamBuffer!vars)
  PROVE  StreamInv'
  <1>1. CASE UNCHANGED StreamBuffer!vars
    <2>1. RingInv /\ WriterInv /\ ReaderInv /\ FramesInv /\ WakeInv /\ Len(pipe) \in Nat
      BY Measures DEF StreamInv
    <2>2. /\ UNCHANGED <<stream, buffer, xHead, xTail, waitingToSend, waitingToReceive>>
          /\ UNCHANGED <<notified, streamPc, size, seen, new, next, pipe>>
      BY <1>1 DEF StreamBuffer!vars, StreamBuffer!ring, StreamBuffer!waiters
    <2>3. RingInv'
      <3>1. /\ streamPc' \in [StreamBuffer!Sides -> StreamPcs]
            /\ size' \in [StreamBuffer!Sides -> Nat] /\ seen' \in [StreamBuffer!Sides -> Nat]
            /\ DOMAIN new' = StreamBuffer!Sides /\ DOMAIN notified' = StreamBuffer!Sides
        BY <2>1, <2>2 DEF RingInv, StreamPcs
      <3>2. QED
        BY <2>1, <2>2, <3>1, RingKeeps
    <2>4. Len(pipe') = Len(pipe) /\ Len(pipe') \in Nat /\ Len(pipe') <= Len(pipe)
          /\ Len(pipe) <= Len(pipe')
      BY <2>1, <2>2
    <2>5. WriterInv'
      BY <2>1, <2>2, <2>4, WriterKeeps
    <2>6. ReaderInv'
      BY <2>1, <2>2, <2>4, ReaderKeeps
    <2>7. FramesInv'
      BY <2>1, <2>2, FramesKeep
    <2>8. WakeInv'
      BY <2>1, <2>2, <2>4, WakeKeeps, Zenon
    <2>9. QED
      BY <2>3, <2>5, <2>6, <2>7, <2>8 DEF StreamInv
  <1>2. CASE StreamBuffer!Next
    <2>1. UNCHANGED stream /\ RingInv
      BY <1>2, Zenon DEF StreamBuffer!Next, StreamInv
    <2>2. CASE \E n \in stream.sends, w \in BOOLEAN : StreamBuffer!Call("writer", n, w)
      BY <2>1, <2>2, StreamCall, StreamUse DEF RingInv, StreamBuffer!Sides
    <2>3. CASE \E n \in stream.reads, w \in BOOLEAN : StreamBuffer!Call("reader", n, w)
      BY <2>1, <2>3, StreamCall, StreamUse DEF RingInv, StreamBuffer!Sides
    <2>4. CASE \E s \in StreamBuffer!Sides : StreamBuffer!EndWait(s)
      BY <2>1, <2>4, StreamEndWait
    <2>5. CASE StreamBuffer!Writer
      <3>1. CASE \/ StreamBuffer!CheckSpace \/ StreamBuffer!MeasureSpace
                 \/ \E expired \in BOOLEAN : StreamBuffer!WriterWoken(expired)
        BY <2>1, <3>1, WriterLooks, Zenon
      <3>2. CASE StreamBuffer!Write
        BY <2>1, <3>2, StreamWrites, Zenon
      <3>3. CASE StreamBuffer!PublishHead
        BY <2>1, <3>3, StreamSends, Zenon
      <3>4. CASE StreamBuffer!SendCompleted
        BY <2>1, <3>4, StreamCompletes, Zenon
      <3>5. QED
        BY <2>5, <3>1, <3>2, <3>3, <3>4, Zenon DEF StreamBuffer!Writer
    <2>6. CASE StreamBuffer!Reader
      <3>1. CASE \/ StreamBuffer!CheckBytes \/ StreamBuffer!ReaderWoken
                 \/ StreamBuffer!MeasureBytes
        BY <2>1, <3>1, ReaderLooks, Zenon
      <3>2. CASE StreamBuffer!Read
        BY <2>1, <3>2, StreamReads, Zenon
      <3>3. CASE StreamBuffer!PublishTail
        BY <2>1, <3>3, StreamReceives, Zenon
      <3>4. CASE StreamBuffer!ReceiveCompleted
        BY <2>1, <3>4, StreamCompletes, Zenon
      <3>5. QED
        BY <2>6, <3>1, <3>2, <3>3, <3>4, Zenon DEF StreamBuffer!Reader
    <2>7. QED
      BY <1>2, <2>2, <2>3, <2>4, <2>5, <2>6, Zenon DEF StreamBuffer!Next
  <1>3. QED
    BY <1>1, <1>2

\* The invariant says that a buffer is a pipe.
LEMMA StreamPiped == ASSUME StreamInv PROVE StreamBuffer!IsPipe
  <1>1. /\ RingInv /\ ReaderInv /\ WakeInv /\ Len(pipe) \in Nat
        /\ StreamBuffer!prvBytesInBuffer = Len(pipe)
        /\ StreamBuffer!xStreamBufferSpacesAvailable = stream.xLength - 1 - Len(pipe)
        /\ stream.xLength \in Nat /\ stream.xLength >= 2 /\ pipe \in Seq(Nat)
        /\ xTail \in 0 .. stream.xLength - 1 /\ Len(pipe) \in 0 .. stream.xLength - 1
    BY Measures, StreamUse DEF StreamInv, RingInv
  <1>2. StreamBuffer!RingIsPipe
    <2>1. ASSUME NEW i \in DOMAIN pipe
          PROVE  buffer[(xTail + i - 1) % stream.xLength] = pipe[i]
      <3>1. i \in 1 .. Len(pipe)
        BY <1>1
      <3>2. /\ xTail + i - 1 \in 0 .. 2 * stream.xLength
            /\ xTail + i - 1 < 2 * stream.xLength /\ stream.xLength \in Nat \ {0}
        <4>1. /\ stream.xLength \in Nat /\ stream.xLength >= 2
              /\ xTail \in Nat /\ xTail < stream.xLength
              /\ Len(pipe) \in Nat /\ Len(pipe) < stream.xLength
          BY <1>1
        <4>2. i \in Nat /\ i >= 1 /\ i <= Len(pipe)
          BY <3>1, <4>1
        <4>3. QED
          BY <4>1, <4>2
      <3>3. PICK n \in Nat \ {0}, a \in Nat :
              n = stream.xLength /\ a = xTail + i - 1 /\ a < 2 * n /\ a \in 0 .. 2 * n
        BY <3>2
      <3>4. (xTail + i - 1) % stream.xLength = Slot(xTail, i)
        <4>1. i \in 1 .. stream.xLength /\ 0 \in 0 .. stream.xLength - 1
          BY <1>1, <3>1
        <4>2. /\ Slot(xTail, i) \in 0 .. stream.xLength - 1
              /\ xTail + i - 1 >= stream.xLength =>
                   Slot(xTail, i) = xTail + i - 1 - stream.xLength
              /\ ~(xTail + i - 1 >= stream.xLength) => Slot(xTail, i) = xTail + i - 1
          BY <1>1, <4>1, Slots
        <4>3. (a >= n => Slot(xTail, i) = a - n) /\ (~(a >= n) => Slot(xTail, i) = a)
          BY <1>1, <3>1, <3>3, <4>2
        <4>4. a % n = IF a < n THEN a ELSE IF a < 2 * n THEN a - n ELSE 0
          BY <3>3, Around
        <4>5. a % n = Slot(xTail, i)
          BY <3>3, <4>3, <4>4
        <4>6. QED
          BY <3>3, <4>5
      <3>5. QED
        BY <1>1, <3>1, <3>4 DEF RingInv
    <2>2. QED
      BY <1>1, <2>1 DEF StreamBuffer!RingIsPipe, StreamBuffer!L
  <1>3. StreamBuffer!MessagesWhole
    BY <1>1, Zenon DEF StreamBuffer!MessagesWhole, ReaderInv, Taken, StreamBuffer!L
  <1>4. StreamBuffer!NoWakeUpLost
    BY <1>1, Zenon DEF StreamBuffer!NoWakeUpLost, WakeInv
  <1>5. QED
    BY <1>2, <1>3, <1>4 DEF StreamBuffer!IsPipe

\* The ring that its two sides do not lock is a pipe: the reader gets what was sent, in
\* its order, message by message, and nobody is left waiting at either end
\* (xStreamBufferSend, xStreamBufferReceive).
THEOREM RingIsAPipe == servicesSpec => []IsPipe
  <1>1. StreamInv => IsPipe
    BY StreamPiped DEF IsPipe
  <1>2. QED
    BY <1>1, StreamInit, StreamStep, EachAlone, PTL DEF StreamBuffer!Spec

-----------------------------------------------------------------------------
(* Packet buffers: what is asked of tcpip_thread when the pool is empty. *)

CONSTANTS Pool, Ram, BufSize, Threads, Tcpip, Pcbs, Lengths, Layers, MaxLen

PacketBuffers == INSTANCE Pbuf WITH call <- pbufCall

\* Where calls can be, and which of them have set the flag and not posted the request.
PbufPcs == {"idle", "alloc", "empty", "post", "unset", "free", "gone"}

IsPbufCall(c) == "pc" \in DOMAIN c /\ c.pc \in PbufPcs

Asking(calls) == {t \in Threads : calls[t].pc \in {"post", "unset"}}

Asks(c) == IF c.pc \in {"post", "unset"} THEN 1 ELSE 0

Requests(flag) == IF flag THEN 1 ELSE 0

ReclaimInv ==
    /\ DOMAIN pbufCall = Threads /\ \A t \in Threads : IsPbufCall(pbufCall[t])
    /\ pbuf_free_ooseq_pending \in BOOLEAN /\ callbacks \in Nat
    /\ callbacks + Cardinality(Asking(pbufCall)) = Requests(pbuf_free_ooseq_pending)

\* How many ask after a thread has gone on.
LEMMA AskingMoves ==
  ASSUME IsFiniteSet(Threads), NEW calls, DOMAIN calls = Threads, NEW t \in Threads, NEW c,
         NEW after, after = [calls EXCEPT ![t] = c]
  PROVE  /\ Cardinality(Asking(calls)) \in Nat /\ Asks(c) \in 0 .. 1 /\ Asks(calls[t]) \in 0 .. 1
         /\ Cardinality(Asking(after)) = Cardinality(Asking(calls)) + Asks(c) - Asks(calls[t])
  <1> DEFINE S == Asking(calls)
             T == Asking(after)
  <1>1. IsFiniteSet(S) /\ IsFiniteSet(T)
    BY FS_Subset DEF Asking
  <1>2. \A u \in Threads : after[u] = IF u = t THEN c ELSE calls[u]
    OBVIOUS
  <1>3. T = IF c.pc \in {"post", "unset"} THEN S \union {t} ELSE S \ {t}
    BY <1>2 DEF Asking
  <1>4. t \in S <=> calls[t].pc \in {"post", "unset"}
    BY DEF Asking
  <1> HIDE DEF S, T
  <1>5. Cardinality(S) \in Nat
    BY <1>1, FS_CardinalityType
  <1>6. /\ Cardinality(S \union {t}) = IF t \in S THEN Cardinality(S) ELSE Cardinality(S) + 1
        /\ Cardinality(S \ {t}) = IF t \in S THEN Cardinality(S) - 1 ELSE Cardinality(S)
    BY <1>1, FS_AddElement, FS_RemoveElement
  <1>7. QED
    BY <1>3, <1>4, <1>5, <1>6 DEF S, T, Asks

\* A call that frees asks for nothing.
LEMMA FreeingCall ==
  ASSUME NEW p, NEW more, NEW c \in PacketBuffers!Freeing(p, more)
  PROVE  IsPbufCall(c) /\ c.pc \in {"idle", "free"}
  <1>1. IsPbufCall(PacketBuffers!Idle) /\ PacketBuffers!Idle.pc = "idle"
    BY DEF PacketBuffers!Idle, IsPbufCall, PbufPcs
  <1>2. ASSUME NEW at, NEW others
        PROVE  /\ IsPbufCall([PacketBuffers!Idle EXCEPT !.pc = "free", !.at = at,
                                                          !.more = others])
               /\ [PacketBuffers!Idle EXCEPT !.pc = "free", !.at = at,
                                               !.more = others].pc = "free"
    BY DEF PacketBuffers!Idle, IsPbufCall, PbufPcs
  <1>3. \/ c = PacketBuffers!Idle
        \/ \E at, others :
             c = [PacketBuffers!Idle EXCEPT !.pc = "free", !.at = at, !.more = others]
    <2>1. CASE p # PacketBuffers!NULL
      <3>1. c = [PacketBuffers!Idle EXCEPT !.pc = "free", !.at = p, !.more = more]
        BY <2>1 DEF PacketBuffers!Freeing
      <3>2. QED
        BY <3>1
    <2>2. CASE p = PacketBuffers!NULL /\ more = {}
      BY <2>2 DEF PacketBuffers!Freeing
    <2>3. CASE p = PacketBuffers!NULL /\ more # {}
      <3>1. \E q \in more :
              c = [PacketBuffers!Idle EXCEPT !.pc = "free", !.at = q, !.more = more \ {q}]
        BY <2>3 DEF PacketBuffers!Freeing
      <3>2. QED
        BY <3>1
    <2>4. QED
      BY <2>1, <2>2, <2>3
  <1>4. CASE c = PacketBuffers!Idle
    BY <1>1, <1>4
  <1>5. ASSUME NEW at, NEW others,
               c = [PacketBuffers!Idle EXCEPT !.pc = "free", !.at = at, !.more = others]
        PROVE  IsPbufCall(c) /\ c.pc = "free"
    BY <1>2, <1>5
  <1>6. QED
    BY <1>3, <1>4, <1>5

\* Who asks is counted as what is requested changes.
LEMMA Adds ==
  ASSUME NEW k \in Int, NEW k1 \in Int, NEW n \in Int, NEW n1 \in Int, NEW r \in Int,
         NEW r1 \in Int, NEW a \in Int, NEW b \in Int,
         k + n = r, n1 = n + a - b, r1 - k1 = r - k + a - b
  PROVE  k1 + n1 = r1
  OBVIOUS

\* A thread goes on, and the flag and the requests on their way with it.
LEMMA Goes ==
  ASSUME IsFiniteSet(Threads), ReclaimInv, NEW t \in Threads, NEW d, IsPbufCall(d),
         pbufCall' = [pbufCall EXCEPT ![t] = d],
         pbuf_free_ooseq_pending' \in BOOLEAN, callbacks' \in Nat,
         Requests(pbuf_free_ooseq_pending') - callbacks'
           = Requests(pbuf_free_ooseq_pending) - callbacks + Asks(d) - Asks(pbufCall[t])
  PROVE  ReclaimInv'
  <1> DEFINE flag == pbuf_free_ooseq_pending
  <1>1. PICK after : after = pbufCall'
    OBVIOUS
  <1>2. PICK calls : calls = pbufCall
    OBVIOUS
  <1>3. DOMAIN calls = Threads /\ after = [calls EXCEPT ![t] = d]
    BY <1>1, <1>2 DEF ReclaimInv
  <1>4. /\ Cardinality(Asking(calls)) \in Nat
        /\ Asks(d) \in 0 .. 1 /\ Asks(calls[t]) \in 0 .. 1
        /\ Cardinality(Asking(after)) = Cardinality(Asking(calls)) + Asks(d) - Asks(calls[t])
    BY <1>3, AskingMoves
  <1>5. Asking(pbufCall)' = Asking(after)
    BY <1>1 DEF Asking
  <1>6. /\ callbacks \in Nat
        /\ callbacks + Cardinality(Asking(calls)) = Requests(flag)
    BY <1>2 DEF ReclaimInv
  <1>7. callbacks' + Cardinality(Asking(after)) = Requests(flag')
    <2>1. /\ Asks(d) \in Int /\ Asks(calls[t]) \in Int
          /\ Cardinality(Asking(calls)) \in Int /\ Cardinality(Asking(after)) \in Int
      BY <1>4
    <2>2. Requests(flag) \in Int /\ Requests(flag') \in Int
      BY DEF Requests
    <2>3. callbacks \in Int /\ callbacks' \in Int
      BY <1>6
    <2>4. Requests(flag') - callbacks' = Requests(flag) - callbacks + Asks(d) - Asks(calls[t])
      BY <1>2
    <2>5. QED
      BY <1>4, <1>6, <2>1, <2>2, <2>3, <2>4, Adds
  <1>8. DOMAIN after = Threads /\ \A u \in Threads : IsPbufCall(after[u])
    BY <1>2, <1>3 DEF ReclaimInv
  <1>9. DOMAIN pbufCall' = Threads /\ (\A u \in Threads : IsPbufCall(pbufCall[u]))'
    BY <1>1, <1>8 DEF IsPbufCall
  <1>10. QED
    BY <1>5, <1>7, <1>9 DEF ReclaimInv

\* A thread that goes on without asking or having asked changes nothing of it.
LEMMA GoesOn ==
  ASSUME IsFiniteSet(Threads), ReclaimInv, NEW t \in Threads, NEW d, IsPbufCall(d),
         d.pc \notin {"post", "unset"}, pbufCall[t].pc \notin {"post", "unset"},
         pbufCall' = [pbufCall EXCEPT ![t] = d],
         UNCHANGED <<pbuf_free_ooseq_pending, callbacks>>
  PROVE  ReclaimInv'
  <1>1. Asks(d) = 0 /\ Asks(pbufCall[t]) = 0
    BY DEF Asks
  <1>2. pbuf_free_ooseq_pending' \in BOOLEAN /\ callbacks' \in Nat /\ callbacks \in Nat
    BY DEF ReclaimInv
  <1>3. /\ Requests(pbuf_free_ooseq_pending') = Requests(pbuf_free_ooseq_pending)
        /\ Requests(pbuf_free_ooseq_pending) \in Int
    BY DEF Requests
  <1>4. Requests(pbuf_free_ooseq_pending') - callbacks'
          = Requests(pbuf_free_ooseq_pending) - callbacks + Asks(d) - Asks(pbufCall[t])
    BY <1>1, <1>2, <1>3
  <1>5. QED
    BY <1>2, <1>4, Goes

\* So does one that stays where it is.
LEMMA StaysThere ==
  ASSUME ReclaimInv, UNCHANGED <<pbufCall, pbuf_free_ooseq_pending, callbacks>>
  PROVE  ReclaimInv'
  BY DEF ReclaimInv, Asking, IsPbufCall

\* The steps of pbuf_alloc and of the callback it asks for.
LEMMA AskingSteps ==
  ASSUME IsFiniteSet(Threads), ReclaimInv, NEW t \in Threads,
         \/ PacketBuffers!pbuf_pool_is_empty(t) \/ PacketBuffers!tcpip_try_callback(t)
         \/ PacketBuffers!Unset(t)
  PROVE  ReclaimInv'
  <1> DEFINE c == pbufCall[t]
             flag == pbuf_free_ooseq_pending
  <1>1. IsPbufCall(c) /\ DOMAIN pbufCall = Threads
    BY DEF ReclaimInv
  <1>2. \A pc \in PbufPcs : IsPbufCall([c EXCEPT !.pc = pc]) /\ [c EXCEPT !.pc = pc].pc = pc
    BY <1>1 DEF IsPbufCall
  <1>3. ASSUME NEW d, IsPbufCall(d), pbufCall' = [pbufCall EXCEPT ![t] = d],
               flag' \in BOOLEAN, callbacks' \in Nat,
               Requests(flag') - callbacks' = Requests(flag) - callbacks + Asks(d) - Asks(c)
        PROVE  ReclaimInv'
    BY <1>3, Goes
  <1>4. /\ callbacks \in Nat /\ flag \in BOOLEAN
        /\ Requests(TRUE) = 1 /\ Requests(FALSE) = 0
        /\ \A d : (d.pc \in {"idle", "free", "empty"} => Asks(d) = 0)
                  /\ (d.pc \in {"post", "unset"} => Asks(d) = 1)
    BY DEF ReclaimInv, Requests, Asks
  <1> HIDE DEF c
  <1>5. ASSUME NEW p, NEW more, PacketBuffers!Frees(t, p, more)
        PROVE  \E d : /\ IsPbufCall(d) /\ d.pc \in {"idle", "free"}
                      /\ pbufCall' = [pbufCall EXCEPT ![t] = d]
    BY <1>5, FreeingCall DEF PacketBuffers!Frees
  <1>6. CASE PacketBuffers!pbuf_pool_is_empty(t)
    <2>1. c.pc = "empty" /\ flag' = TRUE /\ UNCHANGED callbacks
      BY <1>6 DEF PacketBuffers!pbuf_pool_is_empty, c
    <2>2. CASE flag
      <3>1. PacketBuffers!Frees(t, c.at, {})
        BY <1>6, <2>2 DEF PacketBuffers!pbuf_pool_is_empty, c
      <3>2. PICK d : /\ IsPbufCall(d) /\ d.pc \in {"idle", "free"}
                     /\ pbufCall' = [pbufCall EXCEPT ![t] = d]
        BY <1>5, <3>1
      <3>3. /\ Asks(d) = 0 /\ Asks(c) = 0
            /\ Requests(flag') = 1 /\ Requests(flag) = 1
        BY <1>4, <2>1, <2>2, <3>2
      <3>4. flag' \in BOOLEAN /\ callbacks' \in Nat
        BY <1>4, <2>1, <3>3
      <3>5. Requests(flag') - callbacks' = Requests(flag) - callbacks + Asks(d) - Asks(c)
        BY <1>4, <2>1, <3>3
      <3>6. QED
        BY <1>3, <3>2, <3>4, <3>5
    <2>3. CASE ~flag
      <3>1. pbufCall' = [pbufCall EXCEPT ![t].pc = "post"]
        BY <1>6, <2>3 DEF PacketBuffers!pbuf_pool_is_empty
      <3>2. pbufCall' = [pbufCall EXCEPT ![t] = [c EXCEPT !.pc = "post"]]
        BY <3>1 DEF c
      <3>3. IsPbufCall([c EXCEPT !.pc = "post"]) /\ [c EXCEPT !.pc = "post"].pc = "post"
        BY <1>2 DEF PbufPcs
      <3>4. /\ Asks([c EXCEPT !.pc = "post"]) = 1 /\ Asks(c) = 0
            /\ Requests(flag') = 1 /\ Requests(flag) = 0
        BY <1>4, <2>1, <2>3, <3>3
      <3>5. flag' \in BOOLEAN /\ callbacks' \in Nat
        BY <1>4, <2>1, <3>4
      <3>6. Requests(flag') - callbacks'
              = Requests(flag) - callbacks + Asks([c EXCEPT !.pc = "post"]) - Asks(c)
        BY <1>4, <2>1, <3>4
      <3>7. QED
        BY <1>3, <3>2, <3>3, <3>5, <3>6
    <2>4. QED
      BY <1>4, <2>2, <2>3
  <1>7. CASE PacketBuffers!tcpip_try_callback(t)
    <2>1. c.pc = "post" /\ UNCHANGED flag
      BY <1>7 DEF PacketBuffers!tcpip_try_callback, c
    <2>2. CASE callbacks' = callbacks + 1 /\ PacketBuffers!Frees(t, c.at, {})
      <3>1. PICK d : /\ IsPbufCall(d) /\ d.pc \in {"idle", "free"}
                     /\ pbufCall' = [pbufCall EXCEPT ![t] = d]
        BY <1>5, <2>2
      <3>2. Asks(d) = 0 /\ Asks(c) = 1
        BY <1>4, <2>1, <3>1
      <3>3. Requests(flag) \in Int /\ Requests(flag') = Requests(flag)
        BY <2>1 DEF Requests
      <3>4. flag' \in BOOLEAN /\ callbacks' \in Nat
        BY <1>4, <2>1, <2>2, <3>2, <3>3
      <3>5. Requests(flag') - callbacks' = Requests(flag) - callbacks + Asks(d) - Asks(c)
        BY <1>4, <2>1, <2>2, <3>2, <3>3
      <3>6. QED
        BY <1>3, <3>1, <3>4, <3>5
    <2>3. CASE pbufCall' = [pbufCall EXCEPT ![t].pc = "unset"] /\ UNCHANGED callbacks
      <3>1. pbufCall' = [pbufCall EXCEPT ![t] = [c EXCEPT !.pc = "unset"]]
        BY <2>3 DEF c
      <3>2. IsPbufCall([c EXCEPT !.pc = "unset"]) /\ [c EXCEPT !.pc = "unset"].pc = "unset"
        BY <1>2 DEF PbufPcs
      <3>3. Asks([c EXCEPT !.pc = "unset"]) = 1 /\ Asks(c) = 1
        BY <1>4, <2>1, <3>2
      <3>4. Requests(flag) \in Int /\ Requests(flag') = Requests(flag)
        BY <2>1 DEF Requests
      <3>5. flag' \in BOOLEAN /\ callbacks' \in Nat
        BY <1>4, <2>1, <2>3, <3>3, <3>4
      <3>6. Requests(flag') - callbacks'
              = Requests(flag) - callbacks + Asks([c EXCEPT !.pc = "unset"]) - Asks(c)
        BY <1>4, <2>1, <2>3, <3>3, <3>4
      <3>7. QED
        BY <1>3, <3>1, <3>2, <3>5, <3>6
    <2>4. QED
      BY <1>7, <2>2, <2>3 DEF PacketBuffers!tcpip_try_callback, c
  <1>8. CASE PacketBuffers!Unset(t)
    <2>1. /\ c.pc = "unset" /\ flag' = FALSE /\ UNCHANGED callbacks
          /\ PacketBuffers!Frees(t, c.at, {})
      BY <1>8 DEF PacketBuffers!Unset, c
    <2>2. PICK d : /\ IsPbufCall(d) /\ d.pc \in {"idle", "free"}
                   /\ pbufCall' = [pbufCall EXCEPT ![t] = d]
      BY <1>5, <2>1
    <2>3. flag = TRUE
      <3>1. t \in Asking(pbufCall) /\ IsFiniteSet(Asking(pbufCall))
        BY <2>1, FS_Subset DEF Asking, c
      <3>2. Cardinality(Asking(pbufCall)) \in Nat /\ Cardinality(Asking(pbufCall)) # 0
        BY <3>1, FS_CardinalityType, FS_EmptySet
      <3>3. Requests(flag) # 0
        BY <1>4, <3>2 DEF ReclaimInv
      <3>4. QED
        BY <1>4, <3>3
    <2>4. Asks(d) = 0 /\ Asks(c) = 1 /\ Requests(flag') = 0 /\ Requests(flag) = 1
      BY <1>4, <2>1, <2>2, <2>3
    <2>5. flag' \in BOOLEAN /\ callbacks' \in Nat
      BY <1>4, <2>1
    <2>6. Requests(flag') - callbacks' = Requests(flag) - callbacks + Asks(d) - Asks(c)
      BY <1>4, <2>1, <2>4
    <2>7. QED
      BY <1>3, <2>2, <2>5, <2>6
  <1>9. QED
    BY <1>6, <1>7, <1>8

\* The steps that begin a call, go on allocating or free.
LEMMA CallingSteps ==
  ASSUME IsFiniteSet(Threads), ReclaimInv, NEW t \in Threads,
         \/ PacketBuffers!AllocPool(t) \/ PacketBuffers!NoneLeft(t)
         \/ \E n, layer : PacketBuffers!Begin(t, n, layer)
         \/ PacketBuffers!Decrement(t) \/ PacketBuffers!Dispose(t)
  PROVE  ReclaimInv'
  <1> DEFINE c == pbufCall[t]
  <1>1. IsPbufCall(c) /\ DOMAIN pbufCall = Threads
    BY DEF ReclaimInv
  <1>2. PacketBuffers!Idle.pc = "idle" /\ IsPbufCall(PacketBuffers!Idle)
    BY DEF PacketBuffers!Idle, IsPbufCall, PbufPcs
  <1> HIDE DEF c
  <1>3. ASSUME NEW d, IsPbufCall(d), d.pc \notin {"post", "unset"},
               c.pc \notin {"post", "unset"}, pbufCall' = [pbufCall EXCEPT ![t] = d],
               UNCHANGED <<pbuf_free_ooseq_pending, callbacks>>
        PROVE  ReclaimInv'
    BY <1>3, GoesOn DEF c
  <1>4. ASSUME NEW p, NEW more, PacketBuffers!Frees(t, p, more),
               c.pc \notin {"post", "unset"},
               UNCHANGED <<pbuf_free_ooseq_pending, callbacks>>
        PROVE  ReclaimInv'
    <2>1. PICK d \in PacketBuffers!Freeing(p, more) : pbufCall' = [pbufCall EXCEPT ![t] = d]
      BY <1>4 DEF PacketBuffers!Frees
    <2>2. IsPbufCall(d) /\ d.pc \in {"idle", "free"}
      BY FreeingCall
    <2>3. QED
      BY <1>3, <1>4, <2>1, <2>2
  <1>5. CASE PacketBuffers!AllocPool(t)
    <2>1. c.pc = "alloc" /\ UNCHANGED <<pbuf_free_ooseq_pending, callbacks>>
      BY <1>5 DEF PacketBuffers!AllocPool, c
    <2>2. \/ pbufCall' = [pbufCall EXCEPT ![t] = PacketBuffers!Idle]
          \/ \E at, last, rem :
               pbufCall' = [pbufCall EXCEPT ![t] = [c EXCEPT !.at = at, !.last = last,
                                                           !.offset = 0, !.rem = rem]]
      BY <1>5 DEF PacketBuffers!AllocPool, c
    <2>3. CASE pbufCall' = [pbufCall EXCEPT ![t] = PacketBuffers!Idle]
      BY <1>2, <1>3, <2>1, <2>3
    <2>4. ASSUME NEW at, NEW last, NEW rem,
                 pbufCall' = [pbufCall EXCEPT ![t] = [c EXCEPT !.at = at, !.last = last,
                                                             !.offset = 0, !.rem = rem]]
          PROVE  ReclaimInv'
      <3> DEFINE d == [c EXCEPT !.at = at, !.last = last, !.offset = 0, !.rem = rem]
      <3>1. "pc" \in DOMAIN d /\ d.pc = "alloc"
        BY <1>1, <2>1 DEF IsPbufCall
      <3>2. pbufCall' = [pbufCall EXCEPT ![t] = d]
        BY <2>4
      <3> HIDE DEF d
      <3>3. IsPbufCall(d)
        BY <3>1 DEF IsPbufCall, PbufPcs
      <3>4. QED
        BY <1>3, <2>1, <3>1, <3>2, <3>3
    <2>5. QED
      BY <2>2, <2>3, <2>4
  <1>6. CASE PacketBuffers!NoneLeft(t)
    <2> DEFINE d == [c EXCEPT !.pc = "empty"]
    <2>1. /\ c.pc = "alloc" /\ UNCHANGED <<pbuf_free_ooseq_pending, callbacks>>
          /\ pbufCall' = [pbufCall EXCEPT ![t].pc = "empty"]
      BY <1>6 DEF PacketBuffers!NoneLeft, c
    <2>2. pbufCall' = [pbufCall EXCEPT ![t] = d]
      BY <2>1 DEF c
    <2>3. "pc" \in DOMAIN d /\ d.pc = "empty"
      BY <1>1 DEF IsPbufCall
    <2> HIDE DEF d
    <2>4. IsPbufCall(d)
      BY <2>3 DEF IsPbufCall, PbufPcs
    <2>5. QED
      BY <1>3, <2>1, <2>2, <2>3, <2>4
  <1>7. ASSUME NEW n, NEW layer, PacketBuffers!Begin(t, n, layer)
        PROVE  ReclaimInv'
    <2> DEFINE d == [PacketBuffers!Idle EXCEPT !.pc = "alloc", !.length = n, !.rem = n,
                                                 !.offset = layer]
    <2>1. /\ c = PacketBuffers!Idle /\ pbufCall' = [pbufCall EXCEPT ![t] = d]
          /\ UNCHANGED <<pbuf_free_ooseq_pending, callbacks>>
      BY <1>7 DEF PacketBuffers!Begin, c
    <2>2. "pc" \in DOMAIN d /\ d.pc = "alloc"
      BY DEF PacketBuffers!Idle
    <2> HIDE DEF d
    <2>3. IsPbufCall(d)
      BY <2>2 DEF IsPbufCall, PbufPcs
    <2>4. QED
      BY <1>2, <1>3, <2>1, <2>2, <2>3
  <1>8. CASE PacketBuffers!Decrement(t)
    <2> DEFINE d == [c EXCEPT !.pc = "gone"]
    <2>1. /\ c.pc = "free" /\ UNCHANGED <<pbuf_free_ooseq_pending, callbacks>>
          /\ \/ pbufCall' = [pbufCall EXCEPT ![t].pc = "gone"]
             \/ PacketBuffers!Frees(t, PacketBuffers!NULL, c.more)
      BY <1>8 DEF PacketBuffers!Decrement, c
    <2>2. CASE pbufCall' = [pbufCall EXCEPT ![t].pc = "gone"]
      <3>1. pbufCall' = [pbufCall EXCEPT ![t] = d]
        BY <2>2 DEF c
      <3>2. "pc" \in DOMAIN d /\ d.pc = "gone"
        BY <1>1 DEF IsPbufCall
      <3> HIDE DEF d
      <3>3. IsPbufCall(d)
        BY <3>2 DEF IsPbufCall, PbufPcs
      <3>4. QED
        BY <1>3, <2>1, <3>1, <3>2, <3>3
    <2>3. CASE PacketBuffers!Frees(t, PacketBuffers!NULL, c.more)
      BY <1>4, <2>1, <2>3
    <2>4. QED
      BY <2>1, <2>2, <2>3
  <1>9. CASE PacketBuffers!Dispose(t)
    <2>1. /\ c.pc = "gone" /\ UNCHANGED <<pbuf_free_ooseq_pending, callbacks>>
          /\ PacketBuffers!Frees(t, pbuf[c.at].next, c.more)
      BY <1>9 DEF PacketBuffers!Dispose, c
    <2>2. QED
      BY <1>4, <2>1
  <1>10. QED
    BY <1>5, <1>6, <1>7, <1>8, <1>9

\* The calls of a thread that is in none: some end in freeing.
LEMMA IdleSteps ==
  ASSUME IsFiniteSet(Threads), ReclaimInv, NEW t \in Threads,
         \/ \E n, layer : PacketBuffers!AllocRam(t, n, layer)
         \/ \E p : \/ PacketBuffers!pbuf_free(t, p) \/ PacketBuffers!pbuf_dechain(t, p)
                  \/ \E q : \/ PacketBuffers!pbuf_cat(t, p, q)
                            \/ PacketBuffers!pbuf_chain(t, p, q)
                  \/ \E n : \/ PacketBuffers!pbuf_realloc(t, p, n)
                            \/ PacketBuffers!pbuf_free_header(t, p, n)
                            \/ PacketBuffers!pbuf_add_header(t, p, n)
                            \/ PacketBuffers!pbuf_remove_header(t, p, n)
                  \/ \E layer : \/ PacketBuffers!pbuf_clone(t, p, layer)
                                \/ PacketBuffers!pbuf_coalesce(t, p, layer)
                  \/ \E u : PacketBuffers!pbuf_ref(t, u, p)
         \/ \E o, u, p : PacketBuffers!Give(t, o, u, p)
  PROVE  ReclaimInv'
  <1>1. PacketBuffers!Idle.pc = "idle"
    BY DEF PacketBuffers!Idle
  <1>2. ASSUME NEW p, NEW more, PacketBuffers!Frees(t, p, more),
               pbufCall[t] = PacketBuffers!Idle,
               UNCHANGED <<pbuf_free_ooseq_pending, callbacks>>
        PROVE  ReclaimInv'
    <2>1. PICK d \in PacketBuffers!Freeing(p, more) : pbufCall' = [pbufCall EXCEPT ![t] = d]
      BY <1>2 DEF PacketBuffers!Frees
    <2>2. IsPbufCall(d) /\ d.pc \in {"idle", "free"}
      BY FreeingCall
    <2>3. QED
      BY <1>1, <1>2, <2>1, <2>2, GoesOn
  <1>3. CASE \E n, layer : PacketBuffers!AllocRam(t, n, layer)
    BY <1>3, StaysThere DEF PacketBuffers!AllocRam
  <1>4. ASSUME NEW p, PacketBuffers!pbuf_free(t, p) PROVE ReclaimInv'
    BY <1>2, <1>4 DEF PacketBuffers!pbuf_free
  <1>5. ASSUME NEW p, PacketBuffers!pbuf_dechain(t, p) PROVE ReclaimInv'
    BY <1>2, <1>5 DEF PacketBuffers!pbuf_dechain
  <1>6. ASSUME NEW p, NEW q,
               PacketBuffers!pbuf_cat(t, p, q) \/ PacketBuffers!pbuf_chain(t, p, q)
        PROVE  ReclaimInv'
    BY <1>6, StaysThere DEF PacketBuffers!pbuf_cat, PacketBuffers!pbuf_chain
  <1>7. ASSUME NEW p, NEW n, PacketBuffers!pbuf_realloc(t, p, n) PROVE ReclaimInv'
    <2>1. PICK q : PacketBuffers!Frees(t, q, {})
      BY <1>7 DEF PacketBuffers!pbuf_realloc
    <2>2. /\ pbufCall[t] = PacketBuffers!Idle
          /\ UNCHANGED <<pbuf_free_ooseq_pending, callbacks>>
      BY <1>7 DEF PacketBuffers!pbuf_realloc
    <2>3. QED
      BY <1>2, <2>1, <2>2
  <1>8. ASSUME NEW p, NEW n, PacketBuffers!pbuf_free_header(t, p, n) PROVE ReclaimInv'
    <2>1. PICK gone : PacketBuffers!Frees(t, PacketBuffers!NULL, gone)
      BY <1>8 DEF PacketBuffers!pbuf_free_header
    <2>2. /\ pbufCall[t] = PacketBuffers!Idle
          /\ UNCHANGED <<pbuf_free_ooseq_pending, callbacks>>
      BY <1>8 DEF PacketBuffers!pbuf_free_header
    <2>3. QED
      BY <1>2, <2>1, <2>2
  <1>9. ASSUME NEW p, NEW n, \/ PacketBuffers!pbuf_add_header(t, p, n)
                            \/ PacketBuffers!pbuf_remove_header(t, p, n)
        PROVE  ReclaimInv'
    BY <1>9, StaysThere DEF PacketBuffers!pbuf_add_header, PacketBuffers!pbuf_remove_header
  <1>10. ASSUME NEW p, NEW layer, PacketBuffers!pbuf_clone(t, p, layer) PROVE ReclaimInv'
    BY <1>10, StaysThere DEF PacketBuffers!pbuf_clone
  <1>11. ASSUME NEW p, NEW layer, PacketBuffers!pbuf_coalesce(t, p, layer)
         PROVE  ReclaimInv'
    BY <1>2, <1>11 DEF PacketBuffers!pbuf_coalesce
  <1>12. ASSUME NEW p, NEW u, PacketBuffers!pbuf_ref(t, u, p) PROVE ReclaimInv'
    BY <1>12, StaysThere DEF PacketBuffers!pbuf_ref
  <1>13. ASSUME NEW o, NEW u, NEW p, PacketBuffers!Give(t, o, u, p) PROVE ReclaimInv'
    BY <1>13, StaysThere DEF PacketBuffers!Give
  <1>14. QED
    BY <1>3, <1>4, <1>5, <1>6, <1>7, <1>8, <1>9, <1>10, <1>11, <1>12, <1>13

\* While somebody asks, or a request is on its way, the flag is set, and there is only one.
LEMMA OneRequest ==
  ASSUME IsFiniteSet(Threads), ReclaimInv,
         callbacks > 0
  PROVE  pbuf_free_ooseq_pending = TRUE /\ callbacks = 1
  <1>1. IsFiniteSet(Asking(pbufCall))
    BY FS_Subset DEF Asking
  <1>2. Cardinality(Asking(pbufCall)) \in Nat
    BY <1>1, FS_CardinalityType
  <1>3. /\ callbacks + Cardinality(Asking(pbufCall)) = Requests(pbuf_free_ooseq_pending)
        /\ callbacks \in Nat /\ pbuf_free_ooseq_pending \in BOOLEAN
    BY DEF ReclaimInv
  <1>4. Requests(pbuf_free_ooseq_pending) \in Int
    BY DEF Requests
  <1>5. Requests(pbuf_free_ooseq_pending) > 0
    BY <1>2, <1>3, <1>4
  <1>6. pbuf_free_ooseq_pending = TRUE /\ Requests(pbuf_free_ooseq_pending) = 1
    BY <1>3, <1>5 DEF Requests
  <1>7. QED
    BY <1>2, <1>3, <1>6

\* tcpip_thread answers the request: pbuf_free_ooseq.
LEMMA FreeingOoseq ==
  ASSUME PacketBuffers!PbufAssumption, ReclaimInv, PacketBuffers!pbuf_free_ooseq
  PROVE  ReclaimInv'
  <1> DEFINE flag == pbuf_free_ooseq_pending
  <1>1. IsFiniteSet(Threads) /\ Tcpip \in Threads
    BY DEF PacketBuffers!PbufAssumption, PacketBuffers!IsFiniteSet, IsFiniteSet
  <1>2. /\ pbufCall[Tcpip] = PacketBuffers!Idle /\ callbacks > 0
        /\ callbacks' = callbacks - 1 /\ flag' = FALSE
    BY DEF PacketBuffers!pbuf_free_ooseq
  <1>3. flag = TRUE /\ callbacks = 1
    BY <1>1, <1>2, OneRequest
  <1>4. Requests(flag) = 1 /\ Requests(flag') = 0 /\ callbacks' = 0
    BY <1>2, <1>3 DEF Requests
  <1> HIDE DEF flag
  <1>5. flag' \in BOOLEAN
    BY <1>2
  <1>6. callbacks' \in Nat
    BY <1>4
  <1>7. CASE UNCHANGED pbufCall
    <2>1. Asking(pbufCall)' = Asking(pbufCall)
      BY <1>7 DEF Asking
    <2>2. /\ DOMAIN pbufCall' = Threads
          /\ (\A u \in Threads : IsPbufCall(pbufCall[u]))'
      BY <1>7 DEF ReclaimInv, IsPbufCall
    <2>3. Cardinality(Asking(pbufCall)) \in Nat
      BY <1>1, FS_Subset, FS_CardinalityType DEF Asking
    <2>4. callbacks + Cardinality(Asking(pbufCall)) = Requests(flag)
      BY DEF ReclaimInv, flag
    <2>5. Cardinality(Asking(pbufCall)) = 0
      BY <1>3, <1>4, <2>3, <2>4
    <2>6. QED
      <3>1. callbacks' + Cardinality(Asking(pbufCall))' = Requests(flag')
        BY <1>4, <2>1, <2>5
      <3>2. QED
        BY <1>5, <1>6, <2>2, <3>1 DEF ReclaimInv, flag
  <1>8. CASE \E with : PacketBuffers!Frees(Tcpip, PacketBuffers!NULL, with)
    <2>1. PICK with : PacketBuffers!Frees(Tcpip, PacketBuffers!NULL, with)
      BY <1>8
    <2>2. PICK d \in PacketBuffers!Freeing(PacketBuffers!NULL, with) :
                 pbufCall' = [pbufCall EXCEPT ![Tcpip] = d]
      BY <2>1 DEF PacketBuffers!Frees
    <2>3. IsPbufCall(d) /\ d.pc \in {"idle", "free"}
      BY FreeingCall
    <2>4. Asks(d) = 0 /\ Asks(pbufCall[Tcpip]) = 0
      BY <1>2, <2>3 DEF Asks, PacketBuffers!Idle
    <2>5. Requests(flag') - callbacks'
            = Requests(flag) - callbacks + Asks(d) - Asks(pbufCall[Tcpip])
      BY <1>3, <1>4, <2>4
    <2>6. QED
      BY <1>1, <1>5, <1>6, <2>2, <2>3, <2>5, Goes DEF flag
  <1>9. QED
    BY <1>7, <1>8 DEF PacketBuffers!pbuf_free_ooseq

\* Nobody has asked.
LEMMA ReclaimInit == ASSUME PacketBuffers!Init PROVE ReclaimInv
  <1>1. Asking(pbufCall) = {}
    BY DEF Asking, PacketBuffers!Init, PacketBuffers!Idle
  <1>2. Cardinality(Asking(pbufCall)) = 0
    BY <1>1, FS_EmptySet
  <1>3. callbacks = 0 /\ pbuf_free_ooseq_pending = FALSE
    BY DEF PacketBuffers!Init
  <1>4. DOMAIN pbufCall = Threads /\ \A t \in Threads : IsPbufCall(pbufCall[t])
    BY DEF PacketBuffers!Init, PacketBuffers!Idle, IsPbufCall, PbufPcs
  <1>5. QED
    <2>1. callbacks + Cardinality(Asking(pbufCall)) = Requests(pbuf_free_ooseq_pending)
      BY <1>2, <1>3 DEF Requests
    <2>2. pbuf_free_ooseq_pending \in BOOLEAN /\ callbacks \in Nat
      BY <1>3
    <2>3. QED
      BY <1>4, <2>1, <2>2 DEF ReclaimInv

\* The invariant is inductive.
LEMMA ReclaimStep ==
  ASSUME PacketBuffers!PbufAssumption, ReclaimInv,
         [PacketBuffers!Next]_(PacketBuffers!vars)
  PROVE  ReclaimInv'
  <1>1. IsFiniteSet(Threads)
    BY DEF PacketBuffers!PbufAssumption, PacketBuffers!IsFiniteSet, IsFiniteSet
  <1>2. CASE UNCHANGED PacketBuffers!vars
    BY <1>2, StaysThere DEF PacketBuffers!vars
  <1>3. CASE PacketBuffers!pbuf_free_ooseq
    BY <1>3, FreeingOoseq
  <1>4. QED
    BY <1>1, <1>2, <1>3, AskingSteps, CallingSteps, IdleSteps DEF PacketBuffers!Next

\* pbuf_free_ooseq_pending is set exactly while one request to give up what came out of
\* order is made, on its way or waiting (pbuf_pool_is_empty, pbuf_free_ooseq_callback): the
\* pool running empty is told to tcpip_thread once, and never left untold.
THEOREM ReclaimsOnce ==
  PacketBuffers!PbufAssumption => (PacketBuffers!Spec => []PacketBuffers!ReclaimOnce)
  <1>1. \A S : PacketBuffers!Cardinality(S) = Cardinality(S)
    BY DEF PacketBuffers!Cardinality, Cardinality
  <1>2. ReclaimInv => PacketBuffers!ReclaimOnce
    BY <1>1 DEF ReclaimInv, PacketBuffers!ReclaimOnce, Asking, Requests
  <1>3. SUFFICES ASSUME PacketBuffers!PbufAssumption
                 PROVE  PacketBuffers!Spec => []PacketBuffers!ReclaimOnce
    OBVIOUS
  <1>4. ReclaimInv /\ [PacketBuffers!Next]_(PacketBuffers!vars) => ReclaimInv'
    BY <1>3, ReclaimStep
  <1>5. QED
    BY <1>2, <1>4, ReclaimInit, PTL DEF PacketBuffers!Spec

=============================================================================
