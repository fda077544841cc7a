----------------------------- MODULE EncReceive -----------------------------
(***************************************************************************)
(* enc624j600_receive against the receive hardware of the ENC624J600.      *)
(*                                                                         *)
(* The hardware stores frames into the ring at ERXHEAD whenever they       *)
(* arrive, between any two SPI transactions of the driver, unless they     *)
(* would run over ERXTAIL.  The driver walks the chain of next-frame       *)
(* pointers the hardware stored in front of each frame, and hands bytes    *)
(* back by moving ERXTAIL behind the frame it just read.                   *)
(*                                                                         *)
(* One step of the driver is one SPI transaction (or one computation       *)
(* between two of them), so that arrivals interleave with all of them.     *)
(* The bytes of a frame are abstracted to its index in `frames', the       *)
(* history of everything the hardware stored; `intact' says which of these *)
(* frames still have all of their bytes in the ring.                       *)
(***************************************************************************)
EXTENDS EncRing, Sequences

CONSTANTS
    FrameLens,      \* lengths of arriving frames, from MAC addresses to CRC
    MaxFrames,      \* bound of the exploration: frames that are ever stored
    PktMax,         \* the largest value PKTCNT can count to
    GarbageNext,    \* what can be read as a next-frame pointer ...
    GarbageLen      \* ... and as a frame length where no frame starts

VARIABLES
    (* the hardware *)
    erxhead,        \* where the next frame will be stored
    erxtail,        \* ERXTAIL
    erxrdpt,        \* ERXRDPT as the driver set it last
    pktcnt,         \* ESTAT.PKTCNT, the frames pending
    frames,         \* every frame ever stored, in order
    intact,         \* the frames none of whose bytes was overwritten
    (* the driver *)
    pc,             \* the next transaction of enc624j600_receive
    next_receive_frame_pointer,
    data_length,    \* bytes of payload the RSV announced
    current,        \* the frame being read, 0 when it is none
    result,         \* what the last call returned
    (* history *)
    delivered,      \* the frames handed to the caller; 0 is no single frame
    escaped         \* ERXTAIL has been outside of the ring

hardware == <<erxhead, erxtail, erxrdpt, pktcnt, frames, intact>>
driver   == <<pc, next_receive_frame_pointer, data_length, current, result>>
history  == <<delivered, escaped>>
vars     == <<hardware, driver, history>>

-----------------------------------------------------------------------------

\* A stored frame is preceded by its next-frame pointer and its RSV, and the
\* one after it starts at an even address.
FrameSize(len) == len + 8 + (len % 2)

\* The ring is not at the start of the SRAM.  A frame longer than MAMXFL is
\* discarded, and one of MAMXFL bytes fits in the ring.
ASSUME ReceiveAssumption ==
    /\ 2 <= RingStart
    /\ FrameLens \subseteq Uint16
    /\ \A len \in FrameLens : FrameSize(len) \in 1 .. RingSize
    /\ MaxFrames \in Nat
    /\ PktMax \in Nat
    /\ GarbageNext \subseteq Uint16
    /\ GarbageLen \subseteq Uint16

\* The frames that start at address a and can still be read from there.
StoredAt(a) == {k \in intact : frames[k].start = a}

\* enc624j600_init: an empty ring, ERXTAIL on its last even address.
Init ==
    /\ erxhead = RingStart
    /\ erxtail = RingEnd - 1
    /\ erxrdpt = RingStart
    /\ pktcnt = 0
    /\ frames = << >>
    /\ intact = {}
    /\ pc = "idle"
    /\ next_receive_frame_pointer = RingStart
    /\ data_length = 0
    /\ current = 0
    /\ result = "none"
    /\ delivered = << >>
    /\ escaped = FALSE

(* ---- the hardware ---- *)

\* ERXHEAD would have to pass ERXTAIL to store s bytes.  No address of the
\* ring can be equal to an ERXTAIL outside of it.
RunsIntoTail(s) == Covers(erxhead, s, erxtail)

\* A frame that passed the filters arrives and is stored.
Arrive(len) ==
    LET s == FrameSize(len)
        n == Len(frames) + 1
        next == Wrap(erxhead + s)
    IN  /\ n <= MaxFrames
        /\ ~RunsIntoTail(s)
        /\ pktcnt < PktMax
        /\ frames' = Append(frames, [start |-> erxhead, size |-> s,
                                     next |-> next, len |-> len])
        /\ intact' = {k \in intact : ~Overlap(frames[k].start, frames[k].size,
                                              erxhead, s)} \union {n}
        /\ erxhead' = next
        /\ pktcnt' = pktcnt + 1
        /\ UNCHANGED <<erxtail, erxrdpt, driver, history>>

(* ---- enc624j600_receive ---- *)

\* One of the five pointers is NULL.
CallWithNull ==
    /\ pc = "idle"
    /\ result' = "FAILED"
    /\ UNCHANGED <<hardware, pc, next_receive_frame_pointer, data_length,
                   current, history>>

Check(pending) ==
    /\ pc = "idle"
    /\ IF ~pending
         THEN pc' = "idle" /\ result' = "NO_PENDING_FRAME"
         ELSE pc' = "seek" /\ result' = "none"
    /\ UNCHANGED <<hardware, next_receive_frame_pointer, data_length, current,
                   history>>

CheckPKTCNT_NoPKTCNT0  == Check(pktcnt > 1)

\* The PKTCNT bits of ESTAT.
CheckPKTCNT == Check(pktcnt # 0)

Seek(address) ==
    /\ pc = "seek"
    /\ erxrdpt' = address
    /\ pc' = "next"
    /\ UNCHANGED <<erxhead, erxtail, pktcnt, frames, intact,
                   next_receive_frame_pointer, data_length, current, result,
                   history>>

WriteERXRDPT == Seek(next_receive_frame_pointer)

\* The two bytes where ERXRDPT points become next_receive_frame_pointer.
FollowNextPointer ==
    /\ pc = "next"
    /\ \/ \E k \in StoredAt(erxrdpt) :
             /\ current' = k
             /\ next_receive_frame_pointer' = frames[k].next
       \/ /\ StoredAt(erxrdpt) = {}
          /\ current' = 0
          /\ next_receive_frame_pointer' \in GarbageNext
    /\ pc' = "rsv"
    /\ UNCHANGED <<erxhead, erxrdpt, pktcnt, frames, intact, data_length,
                   result, delivered>>

\* The bytes are given back as soon as the next frame is known.
ReadNextPointer_Releases ==
    /\ FollowNextPointer
    /\ erxtail' = Uint16Minus(next_receive_frame_pointer', 2)
    /\ escaped' = (escaped \/ erxtail' \notin Ring)

\* The pointer is overwritten here, before any of the frame is read.
ReadNextPointer ==
    /\ FollowNextPointer
    /\ UNCHANGED <<erxtail, escaped>>

\* data_length leaves out addresses, type and CRC.
ReadRSV ==
    /\ pc = "rsv"
    /\ \/ \E k \in StoredAt(erxrdpt) :
             /\ data_length' = Uint16Minus(frames[k].len, 18)
             /\ current' = IF k = current THEN k ELSE 0
       \/ /\ StoredAt(erxrdpt) = {}
          /\ current' = 0
          /\ \E len \in GarbageLen : data_length' = Uint16Minus(len, 18)
    /\ pc' = "header"
    /\ UNCHANGED <<hardware, next_receive_frame_pointer, result, history>>

\* Destination, source and type: three reads, of which only the fact that the
\* frame still has its bytes matters.
ReadHeader ==
    /\ pc = "header"
    /\ current' = IF current \in StoredAt(erxrdpt) THEN current ELSE 0
    /\ pc' = "data"
    /\ UNCHANGED <<hardware, next_receive_frame_pointer, data_length, result,
                   history>>

\* The caller's buffer now holds frame `current', if it is one frame at all.
ReadData ==
    /\ pc = "data"
    /\ delivered' = Append(delivered,
                           IF current \in StoredAt(erxrdpt) THEN current ELSE 0)
    /\ current' = 0
    /\ pc' = "tail"
    /\ UNCHANGED <<hardware, next_receive_frame_pointer, data_length, result,
                   escaped>>

SetTail(address) ==
    /\ pc = "tail"
    /\ erxtail' = address
    /\ escaped' = (escaped \/ address \notin Ring)
    /\ pc' = "dec"
    /\ UNCHANGED <<erxhead, erxrdpt, pktcnt, frames, intact,
                   next_receive_frame_pointer, data_length, current, result,
                   delivered>>

WriteERXTAIL_OnNextFrame == SetTail(next_receive_frame_pointer)
WriteERXTAIL_Missing     == SetTail(erxtail)

\* Two bytes before the next frame, as a 16-bit number: nothing wraps it into
\* the ring when the next frame starts at RingStart.
WriteERXTAIL == SetTail(Uint16Minus(next_receive_frame_pointer, 2))

CountDown(n) ==
    /\ pc = "dec"
    /\ pktcnt' = n
    /\ pc' = "idle"
    /\ result' = "SUCCEEDED"
    /\ UNCHANGED <<erxhead, erxtail, erxrdpt, frames, intact,
                   next_receive_frame_pointer, data_length, current, history>>

\* SETPKTDEC.
DecrementPKTCNT == CountDown(pktcnt - 1)

-----------------------------------------------------------------------------

Receive ==
    \/ CheckPKTCNT
    \/ WriteERXRDPT
    \/ ReadNextPointer
    \/ ReadRSV
    \/ ReadHeader
    \/ ReadData
    \/ WriteERXTAIL
    \/ DecrementPKTCNT

Next ==
    \/ \E len \in FrameLens : Arrive(len)
    \/ CallWithNull
    \/ Receive

Spec == Init /\ [][Next]_vars

\* my_second_task has the highest priority and calls in an endless loop.
FairSpec == Spec /\ WF_vars(Receive)

-----------------------------------------------------------------------------

Frame == [start : Ring, size : 1 .. RingSize, next : Ring, len : FrameLens]

\* The hardware's and the driver's variables have the types of the code.
TypeOK ==
    /\ erxhead \in Ring
    /\ erxtail \in Uint16
    /\ erxrdpt \in Uint16
    /\ pktcnt \in 0 .. PktMax
    /\ frames \in Seq(Frame)
    /\ intact \subseteq 1 .. Len(frames)
    /\ pc \in {"idle", "seek", "next", "rsv", "header", "data", "tail", "dec"}
    /\ next_receive_frame_pointer \in Uint16
    /\ data_length \in Uint16
    /\ current \in 0 .. Len(frames)
    /\ result \in {"none", "NO_PENDING_FRAME", "FAILED", "SUCCEEDED"}
    /\ delivered \in Seq(0 .. Len(frames))
    /\ escaped \in BOOLEAN

\* The frames whose payload the driver has not read yet.
Unread == {k \in 1 .. Len(frames) : k > Len(delivered)}

\* The frames PKTCNT no longer counts.
Acknowledged == IF pc \in {"tail", "dec"} THEN Len(delivered) - 1
                                          ELSE Len(delivered)

\* The frames whose bytes ERXTAIL has given back.
Released == IF pc = "tail" THEN Len(delivered) - 1 ELSE Len(delivered)

\* Where the ring's bytes in use begin: ERXTAIL stays two bytes behind it.
Oldest == Wrap(erxtail + 2)

\* As long as ERXTAIL stayed in the ring, storing frames never destroys one
\* the driver has still to read, whatever the driver was doing meanwhile.
UnreadIntact == escaped \/ Unread \subseteq intact

\* As long as ERXTAIL stayed in the ring, the caller gets every stored frame
\* once, whole, in the order of arrival.
InOrder == escaped \/ \A i \in 1 .. Len(delivered) : delivered[i] = i

\* PKTCNT is the number of stored frames the driver has not finished with,
\* so that NO_PENDING_FRAME is never answered when there is one.
PendingCounted == escaped \/ pktcnt = Len(frames) - Acknowledged

\* Between calls the driver's own pointer is where the oldest frame it has
\* not read starts, or where the next one will be stored, and ERXTAIL is two
\* bytes behind it.
PointersAgree ==
    ~escaped /\ pc = "idle" =>
        /\ next_receive_frame_pointer = Oldest
        /\ next_receive_frame_pointer =
             IF Len(delivered) < Len(frames)
               THEN frames[Len(delivered) + 1].start
               ELSE erxhead

\* What the driver knows of the ring stays in step with the ring: the frames it hands
\* over, the frames it counts and the places it keeps.
DriverInStep == InOrder /\ PendingCounted /\ PointersAgree

\* The comment at the top of enc624j600_receive: ERXTAIL "must be two bytes
\* behind the next frame or two bytes behind head when there isn't frames".
TailBehindNextFrame ==
    pc = "idle" => /\ erxtail \in Ring
                   /\ Dist(erxtail, next_receive_frame_pointer) = 2

\* Reception is the byte budget of RxFifo for as long as ERXTAIL stays in the
\* ring: two of the ring's bytes are never used.
Fifo == INSTANCE RxFifo WITH
    Capacity     <- RingSize - 2,
    Sizes        <- {FrameSize(len) : len \in FrameLens},
    accepted     <- [i \in DOMAIN frames |-> frames[i].size],
    used         <- Dist(Oldest, erxhead),
    released     <- Released,
    acknowledged <- Acknowledged,
    spoiled      <- escaped

ImplementsFifo == Fifo!Spec

\* Every stored frame reaches the caller, unless ERXTAIL leaves the ring.
EveryFrameDelivered ==
    \A i \in 1 .. MaxFrames :
        Len(frames) >= i ~> (Len(delivered) >= i \/ escaped)

=============================================================================
