-------------------------- MODULE EncDriver_proofs --------------------------
(***************************************************************************)
(* Theorems about enc624j600_transmit and enc624j600_init, for every       *)
(* transmit area that holds a frame, any lengths and duplex modes, any     *)
(* number of frames, pauses of the peer and losses of the link.  They are  *)
(* about the specifications themselves, of which TLC runs two loads.       *)
(***************************************************************************)
EXTENDS MCEncDriver, SequenceTheorems, TLAPS

-----------------------------------------------------------------------------
(* Arithmetic of the area. *)

\* A pointer advanced by at most the area's size wraps into the area.
LEMMA WrapInRing ==
    ASSUME NEW a \in Ring, NEW n \in 0 .. RingSize
    PROVE  Wrap(a + n) \in Ring
BY RingAssumption DEF Ring, Wrap, RingSize

\* Advancing twice is advancing by the sum.
LEMMA WrapTwice ==
    ASSUME NEW a \in Ring, NEW m \in Nat, NEW n \in Nat, m + n <= RingSize
    PROVE  Wrap(Wrap(a + m) + n) = Wrap(a + (m + n))
BY RingAssumption DEF Ring, Wrap, RingSize

\* Two spans one behind the other within a turn have no byte in common.
LEMMA SpansApart ==
    ASSUME NEW a \in Ring, NEW i \in Nat, NEW m \in Nat \ {0},
           NEW j \in Nat, NEW n \in Nat \ {0}, i + m <= j, j + n <= RingSize
    PROVE  ~Overlap(Wrap(a + i), m, Wrap(a + j), n)
BY RingAssumption DEF Ring, Dist, RingSize, Overlap, Wrap

\* A span has its first byte in common with every other one there.
LEMMA SameStart ==
    ASSUME NEW a \in Ring, NEW m \in Nat \ {0}, NEW n \in Nat
    PROVE  Overlap(a, m, a, n)
BY RingAssumption DEF Ring, Dist, Overlap

\* Every span of the frame area has a byte at least.
LEMMA SpanLengths == ASSUME NEW s \in Span PROVE s.n \in Nat \ {0}
BY DEF Span

\* Sixteen-bit numbers are naturals, every address of the area is one, and a
\* frame of 1500 bytes with its header is shorter than the area.
LEMMA AreaFacts ==
    /\ Uint16 \subseteq Nat
    /\ \A x \in Nat : x <= 65535 => x \in Uint16
    /\ Ring \subseteq Uint16
    /\ RingStart \in Ring
    /\ RingSize \in Nat
    /\ 1508 <= RingSize
<1>1. Uint16Max = 65535
  BY DEF Uint16Max
<1>2. Uint16 \subseteq Nat /\ \A x \in Nat : x <= 65535 => x \in Uint16
  <2>1. \A m \in Nat : 0 .. m \subseteq Nat /\ \A x \in Nat : x <= m => x \in 0 .. m
    OBVIOUS
  <2>2. Uint16Max \in Nat
    BY <1>1
  <2>3. Uint16 \subseteq Nat /\ \A x \in Nat : x <= Uint16Max => x \in Uint16
    BY <2>1, <2>2 DEF Uint16
  <2>4. QED
    BY <1>1, <2>3
<1>3. Ring \subseteq Uint16 /\ RingStart \in Ring
  <2>1. Uint16Max \in Nat
    BY <1>1
  <2>2. QED
    BY <2>1, RingAssumption DEF Uint16, Ring
<1>4. RingSize \in Nat
  BY <1>1, RingAssumption DEF RingSize
<1>5. 1508 <= RingSize
  BY TransmitAssumption
<1>6. QED
  BY <1>2, <1>3, <1>4, <1>5

-----------------------------------------------------------------------------
(* The inductive invariant of enc624j600_transmit. *)

\* Where a call is after it has written the destination, the type, the data ...
AfterDestination == {"type", "data", "start", "length", "request", "wait"}
AfterType        == {"data", "start", "length", "request", "wait"}
AfterData        == {"start", "length", "request", "wait"}

\* ... and while it still has all of them to write.
Unwritten == {"flow", "pointer", "destination"}

\* A span of the frame that is being sent.
Part(part, at, n) == [at |-> at, n |-> n, part |-> part, frame |-> frame]

\* No two spans begin at the same byte, and no frame wrote before it was asked for.
SpansSound ==
    /\ \A s, t \in sram : s.at = t.at => s = t
    /\ \A s \in sram : s.frame <= frame
    /\ pc \in Unwritten \/ (pc = "idle" /\ result = "FLOW_CONTROL_ACTIVE") =>
         \A s \in sram : s.frame < frame

\* The write pointer has followed the parts of the frame ...
PointerFollows ==
    /\ pc \in {"destination"} \union AfterDestination => gpwrpt_value \in Ring
    /\ pc = "destination" => egpwrpt = gpwrpt_value
    /\ pc = "type" => egpwrpt = Wrap(gpwrpt_value + 6)
    /\ pc = "data" => egpwrpt = Wrap(gpwrpt_value + 8)

\* ... which stay where they were written until the transmission is over ...
PartsInPlace ==
    /\ pc \in AfterDestination => Part("destination", gpwrpt_value, 6) \in sram
    /\ pc \in AfterType => Part("type", Wrap(gpwrpt_value + 6), 2) \in sram
    /\ pc \in AfterData => Part("data", Wrap(gpwrpt_value + 8), length) \in sram

\* ... and the hardware is told where they are.
RegistersSet ==
    /\ pc \in {"length", "request", "wait"} => etxst = gpwrpt_value
    /\ pc \in {"request", "wait"} => etxlen = 8 + length
    /\ txrts => pc = "wait"

\* A call that goes on has a frame of a length that can be sent.
CallSound ==
    /\ pc # "idle" \/ result # "none" => frame > 0
    /\ pc # "idle" => length \in 8 .. 1500

\* Everything that went out was asked for before this frame, or this one went out.
Behind == \A i \in DOMAIN sent : sent[i] < frame
Out    == sent # << >> /\ sent[Len(sent)] = frame

\* What CheckErrors is about to answer.
Succeeded ==
    IF duplex_mode = "FULL"
      THEN etxwire = 18 + (IF length < 46 THEN 46 ELSE length)
      ELSE ~aborted

\* The frame has not gone out before its transmission ends, and it has gone out
\* after it exactly if the registers, and then the answer, say so.
OutcomeKnown ==
    /\ \A i \in DOMAIN sent : sent[i] <= frame
    /\ pc \in Unwritten \union AfterDestination /\ ~(pc = "wait" /\ ~txrts) => Behind
    /\ pc = "check" \/ (pc = "wait" /\ ~txrts) => IF Succeeded THEN Out ELSE Behind
    /\ pc = "idle" => IF result = "SUCCEEDED" THEN Out ELSE Behind

TransmitInv ==
    /\ TypeOK
    /\ CallSound
    /\ SpansSound
    /\ PointerFollows
    /\ PartsInPlace
    /\ RegistersSet
    /\ WireIntegrity
    /\ OutcomeKnown

-----------------------------------------------------------------------------
(* enc624j600_transmit preserves it, action by action. *)

\* The parts of the invariant, expanded wherever a step is examined.
LEMMA TransmitInit == Init => TransmitInv
<1> SUFFICES ASSUME Init
             PROVE  TransmitInv
  OBVIOUS
<1>1. TypeOK
  <2>1. sent \in Seq(0 .. MaxFrames)
    BY DEF Init
  <2>2. egpwrpt \in Ring /\ {etxst, etxlen, etxwire, length, gpwrpt_value} \subseteq Uint16
    BY AreaFacts DEF Init
  <2>3. 0 \in 0 .. MaxFrames /\ 0 \in 0 .. MaxPauses
    BY TransmitAssumption
  <2>4. QED
    BY <2>1, <2>2, <2>3 DEF Init, TypeOK
<1>2. CallSound /\ SpansSound /\ PointerFollows /\ PartsInPlace /\ RegistersSet
  BY DEF Init, CallSound, SpansSound, PointerFollows, PartsInPlace, RegistersSet,
         Unwritten, AfterDestination, AfterType, AfterData
<1>3. WireIntegrity /\ OutcomeKnown
  BY DEF Init, WireIntegrity, OutcomeKnown, Behind, Unwritten, AfterDestination
<1>4. QED
  BY <1>1, <1>2, <1>3 DEF TransmitInv

\* The peer and a deferral change nothing the invariant is about.
LEMMA PeerStep ==
    ASSUME TransmitInv, PeerStarts \/ PeerStops \/ Defer \/ UNCHANGED vars
    PROVE  TransmitInv'
<1>1. UNCHANGED <<egpwrpt, sram, etxst, etxlen, txrts, status, driver, sent>>
      /\ {deferring', busy'} \subseteq BOOLEAN /\ pauses' \in 0 .. MaxPauses
  <2>1. CASE PeerStarts
    <3>1. pauses + 1 \in 0 .. MaxPauses
      BY <2>1, TransmitAssumption DEF PeerStarts, TransmitInv, TypeOK
    <3>2. QED
      BY <2>1, <3>1 DEF PeerStarts, hardware, status, driver, TransmitInv, TypeOK
  <2>2. CASE PeerStops \/ Defer \/ UNCHANGED vars
    BY <2>2 DEF PeerStops, Defer, vars, hardware, peer, status, driver,
                TransmitInv, TypeOK
  <2>3. QED
    BY <2>1, <2>2
<1>2. TypeOK'
  BY <1>1 DEF TransmitInv, TypeOK, status, driver
<1>3. QED
  BY <1>1, <1>2
     DEF TransmitInv, status, driver, CallSound, SpansSound, PointerFollows, Part,
         PartsInPlace, RegistersSet, WireIntegrity, OutcomeKnown, Behind, Out,
         Succeeded

\* The hardware ends the transmission of exactly this frame.
LEMMA FrameThere ==
    ASSUME TransmitInv, pc = "wait", txrts
    PROVE  FrameAt(etxst, etxlen) = {frame}
<1>1. /\ etxst = gpwrpt_value /\ etxlen = 8 + length /\ length \in 8 .. 1500
      /\ Part("destination", etxst, 6) \in sram
      /\ Part("type", Wrap(etxst + 6), 2) \in sram
      /\ Part("data", Wrap(etxst + 8), etxlen - 8) \in sram
  BY DEF TransmitInv, RegistersSet, PartsInPlace, CallSound, AfterDestination,
         AfterType, AfterData
<1>2. frame \in FrameAt(etxst, etxlen)
  BY <1>1 DEF FrameAt, Part
<1>3. ASSUME NEW f \in FrameAt(etxst, etxlen)
      PROVE  f = frame
  <2>1. [at |-> etxst, n |-> 6, part |-> "destination", frame |-> f] \in sram
    BY <1>3 DEF FrameAt
  <2>2. [at |-> etxst, n |-> 6, part |-> "destination", frame |-> f]
          = Part("destination", etxst, 6)
    BY <1>1, <2>1 DEF TransmitInv, SpansSound, Part
  <2>3. QED
    BY <2>2 DEF Part
<1>4. QED
  BY <1>2, <1>3

\* A transmission that ends well puts this frame behind the others.
LEMMA TransmittedStep ==
    ASSUME TransmitInv, Transmitted
    PROVE  TransmitInv'
<1> DEFINE bytes == IF etxlen + 6 < 60 THEN 64 ELSE etxlen + 10
<1>1. pc = "wait" /\ txrts
  BY DEF Transmitted, End, TransmitInv, RegistersSet
<1>2. /\ txrts' = FALSE /\ deferring' = FALSE /\ defer' = deferring /\ aborted' = FALSE
      /\ UNCHANGED <<egpwrpt, sram, etxst, etxlen, peer, driver>>
  BY DEF Transmitted, End
<1>3. sent' = Append(sent, frame)
  BY <1>1, FrameThere DEF Transmitted
<1>4. /\ etxwire' \in Uint16
      /\ duplex_mode = "FULL" =>
           etxwire' = 18 + (IF length < 46 THEN 46 ELSE length)
  <2>1. /\ \E lost \in {0, 8} : etxwire' = bytes + lost
        /\ duplex_mode = "FULL" => etxwire' = bytes + 0
    BY DEF Transmitted, End
  <2>2. etxlen = 8 + length /\ length \in 8 .. 1500
    BY <1>1 DEF TransmitInv, RegistersSet, CallSound
  <2>3. bytes = 18 + (IF length < 46 THEN 46 ELSE length)
    BY <2>2
  <2>4. QED
    BY <2>1, <2>2, <2>3, AreaFacts
<1>5. /\ sent \in Seq(0 .. MaxFrames) /\ frame \in 1 .. MaxFrames
      /\ \A i \in DOMAIN sent : sent[i] < frame
  BY <1>1, TransmitAssumption
     DEF TransmitInv, TypeOK, CallSound, OutcomeKnown, Behind, AfterDestination
<1>6. /\ sent' \in Seq(0 .. MaxFrames) /\ Len(sent') = Len(sent) + 1
      /\ \A i \in DOMAIN sent' :
           \/ i \in DOMAIN sent /\ sent'[i] = sent[i]
           \/ i = Len(sent) + 1 /\ sent'[i] = frame
      /\ DOMAIN sent' = 1 .. Len(sent) + 1 /\ DOMAIN sent = 1 .. Len(sent)
      /\ sent'[Len(sent')] = frame /\ sent' # << >>
  BY <1>3, <1>5
<1>7. TypeOK'
  BY <1>2, <1>4, <1>6 DEF TransmitInv, TypeOK, driver, peer
<1>8. (CallSound /\ SpansSound /\ PointerFollows /\ PartsInPlace /\ RegistersSet)'
  BY <1>2 DEF TransmitInv, CallSound, SpansSound, PointerFollows, PartsInPlace,
              RegistersSet, driver, Part
<1>9. WireIntegrity'
  BY <1>5, <1>6 DEF TransmitInv, WireIntegrity
<1>10. OutcomeKnown'
  <2>1. ASSUME NEW i \in DOMAIN sent'
        PROVE  sent'[i] <= frame
    <3>1. frame \in Nat
      BY <1>5, TransmitAssumption
    <3>2. CASE i \in DOMAIN sent /\ sent'[i] = sent[i]
      <4>1. i \in 1 .. Len(sent) /\ sent[i] < frame
        BY <1>5, <1>6, <3>2
      <4>2. sent[i] \in 0 .. MaxFrames
        BY <1>5, <4>1, ElementOfSeq
      <4>3. QED
        BY <3>1, <3>2, <4>1, <4>2, TransmitAssumption
    <3>3. QED
      BY <1>6, <3>1, <3>2
  <2>2. Out' /\ Succeeded'
    BY <1>2, <1>4, <1>6 DEF Out, Succeeded, driver
  <2>3. QED
    BY <1>1, <1>2, <2>1, <2>2 DEF OutcomeKnown, driver
<1>11. QED
  BY <1>7, <1>8, <1>9, <1>10 DEF TransmitInv

\* One that is cut short puts nothing there, and says so.
LEMMA AbortedStep ==
    ASSUME TransmitInv, Aborted
    PROVE  TransmitInv'
<1>1. pc = "wait" /\ txrts
  BY DEF Aborted, End, TransmitInv, RegistersSet
<1>2. /\ txrts' = FALSE /\ deferring' = FALSE /\ defer' = deferring
      /\ aborted' = TRUE /\ etxwire' = 0
      /\ UNCHANGED <<egpwrpt, sram, etxst, etxlen, peer, driver, sent>>
  BY DEF Aborted, End
<1>3. TypeOK'
  <2>1. 0 \in Uint16
    BY AreaFacts
  <2>2. QED
    BY <1>2, <2>1 DEF TransmitInv, TypeOK, driver, peer
<1>4. (CallSound /\ SpansSound /\ PointerFollows /\ PartsInPlace /\ RegistersSet
       /\ WireIntegrity)'
  BY <1>2 DEF TransmitInv, CallSound, SpansSound, PointerFollows, PartsInPlace,
              RegistersSet, WireIntegrity, driver, Part
<1>5. OutcomeKnown'
  <2>1. Behind /\ length \in 8 .. 1500
    BY <1>1 DEF TransmitInv, OutcomeKnown, AfterDestination, CallSound
  <2>2. Behind' /\ ~Succeeded'
    BY <1>2, <2>1 DEF Behind, Succeeded, driver
  <2>3. QED
    BY <1>1, <1>2, <2>2 DEF TransmitInv, OutcomeKnown, driver
<1>6. QED
  BY <1>3, <1>4, <1>5 DEF TransmitInv

\* A call asks for a frame that nothing was written or sent for; one that is
\* refused at once leaves it so.
LEMMA RequestStep ==
    ASSUME TransmitInv, NEW len \in Lengths, CallWithNull(len) \/ Call(len)
    PROVE  TransmitInv'
<1>1. /\ pc = "idle"
      /\ frame' \in 0 .. MaxFrames /\ frame' > 0 /\ frame <= frame'
      /\ length' \in Uint16
      /\ frame' = frame + 1 \/ (frame' = frame /\ result = "FLOW_CONTROL_ACTIVE")
  <2>1. frame > 0 \/ result # "FLOW_CONTROL_ACTIVE"
    BY DEF TransmitInv, CallSound
  <2>2. QED
    BY <2>1, TransmitAssumption
       DEF CallWithNull, Call, CallUpTo, Ask, TransmitInv, TypeOK
<1>2. /\ UNCHANGED <<hardware, peer, duplex_mode, gpwrpt_value, sent>>
      /\ \/ pc' = "idle" /\ result' \in {"FAILED", "DATA_IS_TOO_SMALL",
                                         "DATA_EXCEED_MTU"}
         \/ pc' = "flow" /\ result' = result /\ length' \in 8 .. 1500
  BY DEF CallWithNull, Call, CallUpTo, Return, Ask
<1>3. \A s \in sram : s.frame < frame'
  <2>1. \A s \in sram : s.frame \in Nat /\ s.frame <= frame
    BY TransmitAssumption DEF TransmitInv, SpansSound, TypeOK, Span
  <2>2. CASE frame' = frame + 1
    BY <2>1, <2>2, TransmitAssumption DEF TransmitInv, TypeOK
  <2>3. CASE frame' = frame /\ result = "FLOW_CONTROL_ACTIVE"
    BY <1>1, <2>3 DEF TransmitInv, SpansSound
  <2>4. QED
    BY <1>1, <2>2, <2>3
<1>4. \A i \in DOMAIN sent : sent[i] < frame'
  <2>1. \A i \in DOMAIN sent : sent[i] \in Nat /\ sent[i] <= frame
    BY TransmitAssumption DEF TransmitInv, OutcomeKnown, TypeOK
  <2>2. CASE frame' = frame + 1
    BY <2>1, <2>2, TransmitAssumption DEF TransmitInv, TypeOK
  <2>3. CASE frame' = frame /\ result = "FLOW_CONTROL_ACTIVE"
    BY <1>1, <2>3 DEF TransmitInv, OutcomeKnown, Behind
  <2>4. QED
    BY <1>1, <2>2, <2>3
<1>5. TypeOK'
  BY <1>1, <1>2 DEF TransmitInv, TypeOK, hardware, status, peer
<1>6. (CallSound /\ SpansSound)'
  BY <1>1, <1>2, <1>3, TransmitAssumption
     DEF TransmitInv, CallSound, SpansSound, hardware, TypeOK, Span
<1>7. (PointerFollows /\ PartsInPlace /\ RegistersSet)'
  BY <1>1, <1>2 DEF TransmitInv, PointerFollows, PartsInPlace, RegistersSet,
                    AfterDestination, AfterType, AfterData, hardware
<1>8. (WireIntegrity /\ OutcomeKnown)'
  <2>1. \A i \in DOMAIN sent : sent[i] <= frame'
    BY <1>1, <1>4, TransmitAssumption DEF TransmitInv, TypeOK
  <2>2. Behind'
    BY <1>2, <1>4 DEF Behind
  <2>3. QED
    BY <1>2, <2>1, <2>2 DEF TransmitInv, WireIntegrity, OutcomeKnown,
                            AfterDestination, Unwritten
<1>9. QED
  BY <1>5, <1>6, <1>7, <1>8 DEF TransmitInv

\* Writing a part puts it at the write pointer, over nothing of this frame.
LEMMA WriteStep ==
    ASSUME TransmitInv, WriteDestination \/ WriteType \/ WriteData
    PROVE  TransmitInv'
<1>0. PICK part, n, off, to :
        /\ \/ part = "destination" /\ off = 0 /\ n = 6 /\ to = "type"
           \/ part = "type" /\ off = 6 /\ n = 2 /\ to = "data"
           \/ part = "data" /\ off = 8 /\ n = length /\ to = "start"
        /\ WriteWindow(part, n, to)
  <2>1. CASE WriteDestination
    <3> WITNESS "destination", 6, 0, "type"
    <3> QED
      BY <2>1 DEF WriteDestination
  <2>2. CASE WriteType
    <3> WITNESS "type", 2, 6, "data"
    <3> QED
      BY <2>2 DEF WriteType
  <2>3. CASE WriteData
    <3> WITNESS "data", length, 8, "start"
    <3> QED
      BY <2>3 DEF WriteData
  <2>4. QED
    BY <2>1, <2>2, <2>3
<1> DEFINE new == Part(part, egpwrpt, n)
<1>1. /\ pc = part /\ pc' = to
      /\ sram' = {s \in sram : ~Overlap(s.at, s.n, egpwrpt, n)} \union {new}
      /\ egpwrpt' = Wrap(egpwrpt + n)
      /\ UNCHANGED <<etxst, etxlen, txrts, deferring, status, peer, duplex_mode,
                     frame, length, gpwrpt_value, result, sent>>
  BY <1>0 DEF WriteWindow, Part
<1>2. /\ gpwrpt_value \in Ring /\ egpwrpt \in Ring
      /\ length \in 8 .. 1500 /\ frame \in 1 .. MaxFrames
      /\ part \in {"destination", "type", "data"}
      /\ n \in 1 .. 1500 /\ off \in Nat
      /\ egpwrpt = Wrap(gpwrpt_value + off) /\ off + n <= RingSize
      /\ RingSize \in Nat
  <2>1. Wrap(gpwrpt_value + 0) = gpwrpt_value /\ gpwrpt_value \in Ring
    BY <1>0, <1>1, RingAssumption
       DEF Wrap, Ring, TransmitInv, PointerFollows, AfterDestination
  <2>2. length \in 8 .. 1500 /\ frame > 0
    BY <1>0, <1>1 DEF TransmitInv, CallSound
  <2>3. frame \in 0 .. MaxFrames /\ egpwrpt \in Ring
    BY DEF TransmitInv, TypeOK
  <2>4. egpwrpt = Wrap(gpwrpt_value + off)
    BY <1>0, <1>1, <2>1 DEF TransmitInv, PointerFollows
  <2>5. off + n <= RingSize
    BY <1>0, <2>2, AreaFacts
  <2>6. QED
    BY <1>0, <2>1, <2>2, <2>3, <2>4, <2>5, AreaFacts, TransmitAssumption
<1>3. new \in Span
  BY <1>0, <1>1, <1>2 DEF Part, Span
<1>4. TypeOK'
  <2>1. egpwrpt' \in Ring
    BY <1>0, <1>1, <1>2, WrapInRing
  <2>2. sram' \subseteq Span
    BY <1>0, <1>1, <1>3 DEF TransmitInv, TypeOK
  <2>3. QED
    BY <1>0, <1>1, <2>1, <2>2 DEF TransmitInv, TypeOK, status, peer
<1>5. SpansSound'
  <2>1. \A s \in sram' : s = new \/ (s \in sram /\ s.at # egpwrpt)
    <3>1. SUFFICES ASSUME NEW s \in sram, s.at = egpwrpt
                   PROVE  Overlap(s.at, s.n, egpwrpt, n)
      BY <1>1
    <3>2. s \in Span
      BY DEF TransmitInv, TypeOK
    <3>3. s.n \in Nat \ {0}
      BY <3>2, SpanLengths, Zenon
    <3>4. n \in Nat /\ egpwrpt \in Ring
      BY <1>2
    <3>5. Overlap(egpwrpt, s.n, egpwrpt, n)
      BY <3>3, <3>4, SameStart, Zenon
    <3>6. QED
      BY <3>1, <3>5, Zenon
  <2>2. new.at = egpwrpt /\ new.frame = frame
    BY DEF Part
  <2>3. \A s, t \in sram' : s.at = t.at => s = t
    BY <2>1, <2>2 DEF TransmitInv, SpansSound
  <2>4. \A s \in sram' : s.frame <= frame
    BY <1>2, <2>1, <2>2, TransmitAssumption DEF TransmitInv, SpansSound
  <2>5. QED
    BY <1>0, <1>1, <2>3, <2>4 DEF SpansSound, Unwritten
<1>6. (CallSound /\ RegistersSet /\ WireIntegrity)'
  BY <1>0, <1>1 DEF TransmitInv, CallSound, RegistersSet, WireIntegrity
<1>7. PointerFollows'
  <2>1. egpwrpt' = Wrap(gpwrpt_value + (off + n))
    BY <1>0, <1>1, <1>2, WrapTwice
  <2>2. QED
    BY <1>0, <1>1, <1>2, <2>1 DEF PointerFollows, AfterDestination
<1>8. PartsInPlace'
  <2>1. new \in sram' /\ new = Part(part, Wrap(gpwrpt_value + off), n)
    BY <1>0, <1>1, <1>2
  <2>2. ASSUME NEW p, NEW i \in Nat, NEW m \in Nat \ {0}, i + m <= off,
               Part(p, Wrap(gpwrpt_value + i), m) \in sram
        PROVE  Part(p, Wrap(gpwrpt_value + i), m) \in sram'
    <3>1. ~Overlap(Wrap(gpwrpt_value + i), m, egpwrpt, n)
      BY <1>0, <1>2, <2>2, SpansApart
    <3>2. QED
      BY <1>0, <1>1, <2>2, <3>1 DEF Part
  <2>3. \A p, a, m : Part(p, a, m)' = Part(p, a, m)
    BY <1>0, <1>1 DEF Part
  <2>4. Wrap(gpwrpt_value + 0) = gpwrpt_value
    BY <1>2, RingAssumption DEF Wrap, Ring
  <2>5. CASE part = "destination"
    BY <1>0, <1>1, <2>1, <2>3, <2>4, <2>5 DEF PartsInPlace, AfterDestination, AfterType,
                                        AfterData
  <2>6. CASE part = "type"
    <3>1. Part("destination", Wrap(gpwrpt_value + 0), 6) \in sram
      BY <1>0, <1>1, <2>4, <2>6 DEF TransmitInv, PartsInPlace, AfterDestination
    <3>2. Part("destination", gpwrpt_value, 6) \in sram'
      BY <1>0, <2>2, <2>4, <2>6, <3>1
    <3>3. QED
      BY <1>0, <1>1, <2>1, <2>3, <2>6, <3>2 DEF PartsInPlace, AfterType, AfterData
  <2>7. CASE part = "data"
    <3>1. /\ Part("destination", Wrap(gpwrpt_value + 0), 6) \in sram
          /\ Part("type", Wrap(gpwrpt_value + 6), 2) \in sram
      BY <1>0, <1>1, <2>4, <2>7
         DEF TransmitInv, PartsInPlace, AfterDestination, AfterType
    <3>2. /\ Part("destination", gpwrpt_value, 6) \in sram'
          /\ Part("type", Wrap(gpwrpt_value + 6), 2) \in sram'
      BY <1>0, <2>2, <2>4, <2>7, <3>1
    <3>3. QED
      BY <1>0, <1>1, <2>1, <2>3, <2>7, <3>2 DEF PartsInPlace
  <2>8. QED
    BY <1>0, <2>5, <2>6, <2>7
<1>9. OutcomeKnown'
  BY <1>0, <1>1 DEF TransmitInv, OutcomeKnown, Behind, Unwritten, AfterDestination
<1>10. QED
  BY <1>4, <1>5, <1>6, <1>7, <1>8, <1>9 DEF TransmitInv

\* Checking flow control, reading the write pointer, writing the three registers
\* and polling.
LEMMA ControlStep ==
    ASSUME TransmitInv,
           \/ CheckFlowControl \/ ReadEGPWRPT \/ WriteETXST \/ WriteETXLEN
           \/ SetTXRTS \/ PollTXRTS
    PROVE  TransmitInv'
<1>1. UNCHANGED <<egpwrpt, sram, peer, duplex_mode, frame, length, sent, etxwire,
                  defer, aborted, deferring>>
  BY DEF CheckFlowControl, RefuseIf, ReadEGPWRPT, Local, WriteETXST, SetETXST,
         WriteETXLEN, SetTXRTS, PollTXRTS, Poll, hardware, status
<1>2. CASE CheckFlowControl
  <2>1. /\ pc = "flow"
        /\ \/ pc' = "idle" /\ result' = "FLOW_CONTROL_ACTIVE"
           \/ pc' = "pointer" /\ result' = result
        /\ UNCHANGED <<etxst, etxlen, txrts, gpwrpt_value>>
    BY <1>2 DEF CheckFlowControl, RefuseIf, Return, hardware
  <2>2. TypeOK'
    BY <1>1, <2>1 DEF TransmitInv, TypeOK, peer
  <2>3. QED
    BY <1>1, <2>1, <2>2
       DEF TransmitInv, CallSound, SpansSound, PointerFollows, Part, PartsInPlace,
           RegistersSet, WireIntegrity, OutcomeKnown, Behind, Unwritten,
           AfterDestination, AfterType, AfterData
<1>3. CASE ReadEGPWRPT
  <2>1. /\ pc = "pointer" /\ pc' = "destination" /\ gpwrpt_value' = egpwrpt
        /\ UNCHANGED <<etxst, etxlen, txrts, result>>
    BY <1>3 DEF ReadEGPWRPT, Local, hardware
  <2>2. egpwrpt \in Uint16
    <3>1. egpwrpt \in Ring
      BY DEF TransmitInv, TypeOK
    <3>2. QED
      BY <3>1, AreaFacts
  <2>3. TypeOK'
    BY <1>1, <2>1, <2>2 DEF TransmitInv, TypeOK, peer
  <2>4. QED
    BY <1>1, <2>1, <2>3
       DEF TransmitInv, TypeOK, CallSound, SpansSound, PointerFollows, Part,
           PartsInPlace, RegistersSet, WireIntegrity, OutcomeKnown, Behind,
           Unwritten, AfterDestination, AfterType, AfterData
<1>4. CASE WriteETXST \/ WriteETXLEN \/ SetTXRTS
  <2>1. /\ \/ /\ pc = "start" /\ pc' = "length" /\ etxst' = gpwrpt_value
              /\ UNCHANGED <<etxlen, txrts>>
           \/ /\ pc = "length" /\ pc' = "request" /\ etxlen' = 8 + length
              /\ UNCHANGED <<etxst, txrts>>
           \/ /\ pc = "request" /\ pc' = "wait" /\ txrts' = TRUE
              /\ UNCHANGED <<etxst, etxlen>>
        /\ UNCHANGED <<gpwrpt_value, result>>
    BY <1>4 DEF WriteETXST, SetETXST, WriteETXLEN, SetTXRTS
  <2>2. TypeOK'
    <3>1. etxst' \in Uint16
      BY <2>1 DEF TransmitInv, TypeOK
    <3>2. etxlen' \in Uint16
      <4>1. pc = "length" => 8 + length \in Uint16
        BY AreaFacts DEF TransmitInv, CallSound
      <4>2. QED
        BY <2>1, <4>1 DEF TransmitInv, TypeOK
    <3>3. txrts' \in BOOLEAN /\ pc' \in {"length", "request", "wait"}
      BY <2>1 DEF TransmitInv, TypeOK
    <3>4. QED
      BY <1>1, <2>1, <3>1, <3>2, <3>3 DEF TransmitInv, TypeOK, peer
  <2>3. QED
    BY <1>1, <2>1, <2>2
       DEF TransmitInv, CallSound, SpansSound, PointerFollows, Part, PartsInPlace,
           RegistersSet, WireIntegrity, OutcomeKnown, Behind, Unwritten,
           AfterDestination, AfterType, AfterData
<1>5. CASE PollTXRTS
  <2>1. /\ pc = "wait" /\ pc' = "check" /\ ~txrts
        /\ UNCHANGED <<etxst, etxlen, txrts, gpwrpt_value, result>>
    BY <1>5 DEF PollTXRTS, Poll, Local, hardware
  <2>2. TypeOK'
    BY <1>1, <2>1 DEF TransmitInv, TypeOK, peer
  <2>3. OutcomeKnown'
    BY <1>1, <2>1 DEF TransmitInv, OutcomeKnown, Behind, Out, Succeeded, Unwritten,
                      AfterDestination
  <2>4. QED
    BY <1>1, <2>1, <2>2, <2>3
       DEF TransmitInv, CallSound, SpansSound, PointerFollows, PartsInPlace,
           RegistersSet, WireIntegrity, Unwritten, AfterDestination, AfterType,
           AfterData
<1>6. QED
  BY <1>2, <1>3, <1>4, <1>5

\* The answer is the one the registers call for.
LEMMA CheckStep ==
    ASSUME TransmitInv, CheckErrors
    PROVE  TransmitInv'
<1>1. /\ pc = "check" /\ pc' = "idle"
      /\ result' = IF Succeeded THEN "SUCCEEDED" ELSE "FAILED"
      /\ length' = length \/ length' = 46
      /\ UNCHANGED <<hardware, peer, duplex_mode, frame, gpwrpt_value, sent>>
  BY DEF CheckErrors, Check, Return, Succeeded
<1>2. TypeOK'
  <2>1. 46 \in Uint16
    BY AreaFacts
  <2>2. QED
    BY <1>1, <2>1 DEF TransmitInv, TypeOK, hardware, status, peer
<1>3. OutcomeKnown'
  BY <1>1 DEF TransmitInv, OutcomeKnown, Behind, Out, Unwritten, AfterDestination
<1>4. (CallSound /\ SpansSound)'
  BY <1>1 DEF TransmitInv, CallSound, SpansSound, Unwritten, hardware
<1>5. (PointerFollows /\ PartsInPlace /\ RegistersSet /\ WireIntegrity)'
  BY <1>1 DEF TransmitInv, PointerFollows, PartsInPlace, RegistersSet,
              WireIntegrity, AfterDestination, AfterType, AfterData, hardware
<1>6. QED
  BY <1>2, <1>3, <1>4, <1>5 DEF TransmitInv

\* Every step of enc624j600_transmit, of the hardware and of the peer.
LEMMA TransmitStep ==
    ASSUME TransmitInv, [Next]_vars
    PROVE  TransmitInv'
<1>1. CASE Request
  BY <1>1, RequestStep DEF Request
<1>2. CASE Transmit
  BY <1>2, WriteStep, ControlStep, CheckStep DEF Transmit
<1>3. QED
  BY <1>1, <1>2, PeerStep, TransmittedStep, AbortedStep DEF Next, Finish

\* The invariant gives the honest answer.
LEMMA HonestFromInv == TransmitInv => SuccessIsHonest
BY TransmitAssumption
   DEF TransmitInv, TypeOK, OutcomeKnown, Out, Behind, SuccessIsHonest

\* EncTransmit on its own: the invariant is one of its specification.
LEMMA TransmitSound == Spec => []TransmitInv
BY TransmitInit, TransmitStep, PTL DEF Spec

-----------------------------------------------------------------------------
(* The inductive invariant of enc624j600_init. *)

\* Where enc624j600_init is: bringing the chip out of reset, writing its
\* registers, setting the PHY up bit by bit, or listening to the link.
Resetting   == {"sentinel", "readback", "clock", "reset", "await"}
Configuring == {"buffers", "filters", "mac"}
Listening   == {"listen", "andone", "llstat", "deaf", "duplex", "macon2", "gap",
                "listen again", "done"}

\* Reset state and the value the driver finds in EUDAST tell the same story.
ResetKnown ==
    /\ booting => eudast # "0x1234"
    /\ bootPc \in {"sentinel", "readback"} => ~resetting
    /\ bootPc \in {"clock", "reset"} => ~booting /\ ~resetting /\ eudast = "0x1234"
    /\ bootPc = "await" => ~booting /\ (resetting <=> eudast # "0")
    /\ bootPc \notin Resetting => ~booting /\ ~resetting

\* What the driver has written so far, and nothing has taken away.
RegistersKnown ==
    /\ bootPc \notin Resetting \union {"buffers"} => "buffers" \in written
    /\ bootPc \notin Resetting \union {"buffers", "filters"} =>
         "filters" \in written /\ erxfcon = Boot!Enabled
    /\ bootPc \notin Resetting \union Configuring =>
         /\ "mac" \in written
         /\ macon2 \intersect {"PADCFG0", "PADCFG1", "PADCFG2", "TXCRCEN"}
              = {"PADCFG0", "TXCRCEN"}

\* What the modifications of the PHY's registers have achieved so far.
PhyKnown ==
    /\ bootPc \in {"loopback", "anen", "pause"} \union Listening =>
         "PSLEEP" \notin phcon1
    /\ bootPc \in {"pause"} \union Listening => "ANEN" \in phcon1
    /\ bootPc \in Listening => "ADPAUS0" \in phana

\* The register a step of phy_init modifies, and a value it may write to it.
Register == IF bootPc = "pause" THEN phana ELSE phcon1

Writable(data) ==
    IF bootPc = "pause"
      THEN data = {"ADPAUS0"}
      ELSE /\ data \subseteq Boot!PHCON1Bits /\ "PSLEEP" \notin data
           /\ bootPc = "anen" => "ANEN" \in data

\* The MII interface does what the driver last asked for, and nothing else: it
\* is free when the driver asks for something, what it read is the register's
\* value, and what it wrote is what was modified.
MIIKnown ==
    /\ bootPc \notin Boot!PhySteps \union Boot!PhyLoops => phase = "start"
    /\ phase \in {"start", "value"} => mii = "none"
    /\ phase \in {"pollread", "pollwrite"} => mii # "requested"
    /\ phase \in {"delayread", "pollread"} =>
         /\ micmd.kind = "read" /\ micmd.reg = Boot!RegisterOf(bootPc)
         /\ mii = "none" /\ bootPc \in Boot!PhySteps => mird = Register
    /\ phase = "value" /\ bootPc \in Boot!PhySteps => value = Register
    /\ phase \in {"delaywrite", "pollwrite"} =>
         /\ bootPc \in Boot!PhySteps
         /\ micmd.kind = "write" /\ micmd.reg = Boot!RegisterOf(bootPc)
         /\ Writable(micmd.data)
         /\ mii = "none" => micmd.data = Register

\* Reception is off while the duplex mode changes, and what the driver read once
\* is what it goes by.
DuplexKnown ==
    /\ rxen => bootPc \in {"andone", "llstat", "deaf", "done"}
    /\ bootPc \in {"macon2", "gap"} => renegotiated \/ (phydpx <=> "PHYDPX" \in value)
    /\ bootPc = "gap" => ("FULDPX" \in macon2 <=> "PHYDPX" \in value)
    /\ bootPc \in {"listen again", "done"} =>
         /\ (bootDuplex = "FULL") <=> "FULDPX" \in macon2
         /\ (bootDuplex = "FULL") <=> mabbipg = "full"
         /\ renegotiated \/ ((bootDuplex = "FULL") <=> phydpx)

BootInv ==
    /\ Boot!TypeOK
    /\ ResetKnown
    /\ RegistersKnown
    /\ PhyKnown
    /\ MIIKnown
    /\ DuplexKnown

-----------------------------------------------------------------------------
(* enc624j600_init preserves it, action by action. *)

\* The named sets of EncInit are constants, and these are their members.
LEMMA BootPlaces ==
    /\ Boot!PhySteps = {"sleep", "loopback", "anen", "pause"}
    /\ Boot!PhyLoops = {"andone", "llstat"}
    /\ Boot!Enabled = {"CRCEN", "RUNTEN", "UCEN", "BCEN"}
    /\ Boot!Enabled \subseteq Boot!FilterBits
    /\ {"PADCFG0", "TXCRCEN"} \subseteq Boot!MACON2Bits
    /\ {"PADCFG1", "PADCFG2", "HFRMEN", "FULDPX"} \subseteq Boot!MACON2Bits
    /\ Boot!PHCON1Bits = {"PSLEEP", "PLOOPBK", "ANEN"}
BY DEF Boot!PhySteps, Boot!PhyLoops, Boot!Enabled, Boot!FilterBits, Boot!MACON2Bits,
       Boot!PHCON1Bits

\* They are constants.
LEMMA BootFixed ==
    UNCHANGED <<Boot!PhySteps, Boot!PhyLoops, Boot!Enabled, Boot!FilterBits,
                Boot!MACON2Bits, Boot!PHCON1Bits>>
BY DEF Boot!PhySteps, Boot!PhyLoops, Boot!Enabled, Boot!FilterBits, Boot!MACON2Bits,
       Boot!PHCON1Bits

\* Where enc624j600_init may be.
BootPcs ==
    {"sentinel", "readback", "clock", "reset", "await", "buffers", "filters", "mac",
     "listen", "deaf", "duplex", "macon2", "gap", "listen again", "done"}
      \union Boot!PhySteps \union Boot!PhyLoops

\* A step that leaves the MII interface alone keeps the driver's types when what
\* it does write has its type.
LEMMA DriverTyped ==
    /\ Boot!DriverTypeOK
    /\ UNCHANGED <<micmd, mird, phase>>
    /\ mii' \in {"none", "requested", "busy"}
    /\ value' \subseteq Boot!PHCON1Bits \union {"ADPAUS0", "ANDONE", "LLSTAT", "PHYDPX"}
    /\ flaps' \in 0 .. MaxFlaps
    /\ bootPc' \in BootPcs
    /\ bootDuplex' \in {"FULL", "HALF"}
    => Boot!DriverTypeOK'
BY BootFixed, Zenon DEF Boot!DriverTypeOK, BootPcs

LEMMA DriverRest ==
    /\ Boot!DriverTypeOK
    /\ UNCHANGED <<mii, micmd, mird, value, flaps, bootPc, phase, bootDuplex>>
    => Boot!DriverTypeOK'
BY BootFixed, Zenon DEF Boot!DriverTypeOK

LEMMA DriverHas ==
    BootInv =>
      /\ Boot!DriverTypeOK
      /\ value \subseteq Boot!PHCON1Bits \union {"ADPAUS0", "ANDONE", "LLSTAT", "PHYDPX"}
      /\ mii \in {"none", "requested", "busy"}
      /\ flaps \in 0 .. MaxFlaps
      /\ bootPc \in BootPcs
      /\ bootDuplex \in {"FULL", "HALF"}
BY DEF BootInv, Boot!TypeOK, Boot!DriverTypeOK, BootPcs

\* After power-on.
LEMMA BootInit == Boot!Init => BootInv
<1> SUFFICES ASSUME Boot!Init
             PROVE  BootInv
  OBVIOUS
<1>1. Boot!TypeOK
  <2>1. Boot!ChipTypeOK
    BY DEF Boot!Init, Boot!ChipTypeOK, Boot!ResetValue
  <2>2. Boot!DriverTypeOK
    BY FlapsAssumption DEF Boot!Init, Boot!DriverTypeOK, Boot!NoCommand
  <2>3. QED
    BY <2>1, <2>2 DEF Boot!TypeOK
<1>2. ResetKnown /\ RegistersKnown /\ PhyKnown /\ MIIKnown /\ DuplexKnown
  BY BootFixed, BootPlaces
     DEF Boot!Init, Boot!NoCommand, ResetKnown, RegistersKnown, PhyKnown, MIIKnown,
         DuplexKnown, Resetting, Configuring, Listening
<1>3. QED
  BY <1>1, <1>2 DEF BootInv

\* A reset takes the registers back while the driver still waits for it.
LEMMA ChipStep ==
    ASSUME BootInv, Boot!PowerOnResetEnds \/ Boot!ClockStarts \/ Boot!ResetTakesEffect
    PROVE  BootInv'
<1>1. CASE Boot!ClockStarts
  <2>1. /\ clkrdy' = TRUE
        /\ UNCHANGED <<booting, resetting, eudast, written, macon2, mabbipg, erxfcon,
                       rxen, phcon1, phana, mii, micmd, mird, andone, up, latched,
                       phydpx, flaps, bootPc, phase, value, bootDuplex, renegotiated>>
    BY <1>1 DEF Boot!ClockStarts, Boot!registers, Boot!phy, Boot!miim, Boot!link,
                Boot!driver
  <2>2. Boot!TypeOK'
    <3>1. Boot!ChipTypeOK'
      BY <2>1, BootFixed DEF BootInv, Boot!TypeOK, Boot!ChipTypeOK
    <3>2. Boot!DriverTypeOK'
      BY <2>1, DriverRest DEF BootInv, Boot!TypeOK
    <3>3. QED
      BY <3>1, <3>2 DEF Boot!TypeOK
  <2>3. (ResetKnown /\ RegistersKnown /\ PhyKnown /\ DuplexKnown)'
    <3>1. (ResetKnown /\ RegistersKnown)'
      BY <2>1, BootFixed DEF BootInv, ResetKnown, RegistersKnown
    <3>2. (PhyKnown /\ DuplexKnown)'
      BY <2>1 DEF BootInv, PhyKnown, DuplexKnown
    <3>3. QED
      BY <3>1, <3>2
  <2>4. MIIKnown'
    BY <2>1, BootFixed DEF BootInv, MIIKnown, Register, Writable, Boot!RegisterOf
  <2>5. QED
    BY <2>2, <2>3, <2>4 DEF BootInv
<1>2. CASE Boot!PowerOnResetEnds \/ Boot!ResetTakesEffect
  <2>1. /\ eudast' = "0" /\ written' = {} /\ rxen' = FALSE
        /\ macon2' \subseteq Boot!MACON2Bits /\ mabbipg' = "half"
        /\ erxfcon' \subseteq Boot!FilterBits
        /\ UNCHANGED <<clkrdy, mii, micmd, mird, andone, up, latched, phydpx, flaps,
                       bootPc, phase, value, bootDuplex, renegotiated>>
    BY <1>2 DEF Boot!PowerOnResetEnds, Boot!ResetTakesEffect, Boot!ResetRegisters,
                Boot!ResetValue, Boot!miim, Boot!link, Boot!driver
  <2>2. /\ bootPc \in Resetting
        /\ \/ /\ booting /\ booting' = FALSE
              /\ UNCHANGED <<resetting, phcon1, phana>>
           \/ /\ resetting /\ resetting' = FALSE /\ UNCHANGED booting
              /\ phcon1' \subseteq Boot!PHCON1Bits /\ phana' = {}
    BY <1>2 DEF Boot!PowerOnResetEnds, Boot!ResetTakesEffect, Boot!ResetValue,
                Boot!phy, BootInv, ResetKnown
  <2>3. Boot!TypeOK'
    <3>1. Boot!ChipTypeOK'
      BY <2>1, <2>2, BootFixed DEF BootInv, Boot!TypeOK, Boot!ChipTypeOK
    <3>2. Boot!DriverTypeOK'
      BY <2>1, DriverRest DEF BootInv, Boot!TypeOK
    <3>3. QED
      BY <3>1, <3>2 DEF Boot!TypeOK
  <2>4. ResetKnown'
    BY <2>1, <2>2 DEF BootInv, ResetKnown, Resetting
  <2>5. (RegistersKnown /\ PhyKnown /\ DuplexKnown)'
    BY <2>1, <2>2 DEF RegistersKnown, PhyKnown, DuplexKnown, Resetting, Configuring,
                      Listening
  <2>6. MIIKnown'
    BY <2>1, <2>2, BootFixed, BootPlaces DEF BootInv, MIIKnown, Resetting
  <2>7. QED
    BY <2>3, <2>4, <2>5, <2>6 DEF BootInv
<1>3. QED
  BY <1>1, <1>2

\* The MII interface carries out what it was asked for.
LEMMA MIIStep ==
    ASSUME BootInv, Boot!MII
    PROVE  BootInv'
<1>1. /\ UNCHANGED <<booting, resetting, clkrdy, eudast, written, macon2, mabbipg,
                     erxfcon, rxen, micmd, andone, up, phydpx, flaps, bootPc, phase,
                     value, bootDuplex, renegotiated>>
      /\ latched' \in BOOLEAN
  BY DEF Boot!MII, Boot!MIIStarts, Boot!MIIReads, Boot!MIIWrites, Boot!chip,
         Boot!registers, Boot!phy, Boot!link, Boot!driver, BootInv, Boot!TypeOK,
         Boot!ChipTypeOK
<1>2. (ResetKnown /\ RegistersKnown /\ DuplexKnown)'
  BY <1>1 DEF BootInv, ResetKnown, RegistersKnown, DuplexKnown
<1>3. CASE Boot!MIIStarts
  <2>1. mii = "requested" /\ mii' = "busy" /\ UNCHANGED <<phcon1, phana, mird>>
    BY <1>3 DEF Boot!MIIStarts, Boot!phy
  <2>2. Boot!TypeOK'
    <3>1. Boot!ChipTypeOK'
      BY <1>1, <2>1, BootFixed DEF BootInv, Boot!TypeOK, Boot!ChipTypeOK
    <3>2. Boot!DriverTypeOK'
      BY <1>1, <2>1, DriverHas, DriverTyped
    <3>3. QED
      BY <3>1, <3>2 DEF Boot!TypeOK
  <2>3. (PhyKnown /\ MIIKnown)'
    BY <1>1, <2>1, BootFixed, BootPlaces
       DEF BootInv, PhyKnown, MIIKnown, Register, Writable, Boot!RegisterOf
  <2>4. QED
    BY <1>2, <2>2, <2>3 DEF BootInv
<1>4. CASE Boot!MIIReads
  <2>1. mii = "busy" /\ micmd.kind = "read" /\ mii' = "none" /\ UNCHANGED <<phcon1, phana>>
    BY <1>4 DEF Boot!MIIReads, Boot!phy
  <2>2. phase \in {"delayread", "pollread"} /\ micmd.reg = Boot!RegisterOf(bootPc)
    <3>1. phase \in {"start", "delayread", "pollread", "value", "delaywrite",
                     "pollwrite"}
      BY DEF BootInv, Boot!TypeOK, Boot!DriverTypeOK
    <3>2. QED
      BY <2>1, <3>1 DEF BootInv, MIIKnown
  <2>3. bootPc \in Boot!PhySteps \union Boot!PhyLoops
    BY <2>2 DEF BootInv, MIIKnown
  <2>4. /\ mird' \subseteq Boot!PHCON1Bits \union {"ADPAUS0", "ANDONE", "LLSTAT"}
        /\ bootPc \in Boot!PhySteps => mird' = Register
    <3>1. CASE bootPc \in {"sleep", "loopback", "anen"}
      <4>1. micmd.reg = "PHCON1"
        BY <2>2, <3>1 DEF Boot!RegisterOf
      <4>2. mird' = phcon1
        BY <1>4, <4>1 DEF Boot!MIIReads
      <4>3. QED
        BY <3>1, <4>2 DEF Register, BootInv, Boot!TypeOK, Boot!ChipTypeOK
    <3>2. CASE bootPc = "pause"
      <4>1. micmd.reg = "PHANA"
        BY <2>2, <3>2 DEF Boot!RegisterOf
      <4>2. mird' = phana
        BY <1>4, <4>1 DEF Boot!MIIReads
      <4>3. QED
        BY <3>2, <4>2 DEF Register, BootInv, Boot!TypeOK, Boot!ChipTypeOK
    <3>3. CASE bootPc \in Boot!PhyLoops
      <4>1. micmd.reg = "PHSTAT1"
        BY <2>2, <3>3, BootFixed, BootPlaces DEF Boot!RegisterOf
      <4>2. mird' = Boot!PHSTAT1
        BY <1>4, <4>1 DEF Boot!MIIReads
      <4>3. QED
        BY <3>3, <4>2, BootFixed, BootPlaces DEF Boot!PHSTAT1
    <3>4. QED
      BY <2>3, <3>1, <3>2, <3>3, BootFixed, BootPlaces
  <2>5. Boot!TypeOK'
    <3>1. Boot!ChipTypeOK'
      BY <1>1, <2>1, <2>4, BootFixed DEF BootInv, Boot!TypeOK, Boot!ChipTypeOK
    <3>2. Boot!DriverTypeOK'
      BY <1>1, <2>1, <2>4, BootFixed DEF BootInv, Boot!TypeOK, Boot!DriverTypeOK
    <3>3. QED
      BY <3>1, <3>2 DEF Boot!TypeOK
  <2>6. PhyKnown'
    BY <1>1, <2>1 DEF BootInv, PhyKnown
  <2>7. MIIKnown'
    BY <1>1, <2>1, <2>2, <2>4, BootFixed, BootPlaces
       DEF BootInv, MIIKnown, Register, Boot!RegisterOf
  <2>8. QED
    BY <1>2, <2>5, <2>6, <2>7 DEF BootInv
<1>5. CASE Boot!MIIWrites
  <2>1. /\ mii = "busy" /\ micmd.kind = "write" /\ mii' = "none" /\ UNCHANGED mird
        /\ phcon1' = IF micmd.reg = "PHCON1" THEN micmd.data ELSE phcon1
        /\ phana' = IF micmd.reg = "PHANA" THEN micmd.data ELSE phana
    BY <1>5 DEF Boot!MIIWrites
  <2>2. /\ phase \in {"delaywrite", "pollwrite"} /\ bootPc \in Boot!PhySteps
        /\ micmd.reg = Boot!RegisterOf(bootPc) /\ Writable(micmd.data)
    <3>1. phase \in {"start", "delayread", "pollread", "value", "delaywrite",
                     "pollwrite"}
      BY DEF BootInv, Boot!TypeOK, Boot!DriverTypeOK
    <3>2. QED
      BY <2>1, <3>1 DEF BootInv, MIIKnown
  <2>3. /\ bootPc # "pause" => phcon1' = micmd.data /\ phana' = phana
        /\ bootPc = "pause" => phcon1' = phcon1 /\ phana' = micmd.data
    BY <2>1, <2>2, BootFixed, BootPlaces DEF Boot!RegisterOf
  <2>4. Boot!TypeOK'
    <3>1. phcon1' \subseteq Boot!PHCON1Bits /\ phana' \subseteq {"ADPAUS0"}
      BY <2>2, <2>3 DEF Writable, BootInv, Boot!TypeOK, Boot!ChipTypeOK
    <3>2. Boot!ChipTypeOK'
      BY <1>1, <2>1, <3>1, BootFixed DEF BootInv, Boot!TypeOK, Boot!ChipTypeOK
    <3>3. Boot!DriverTypeOK'
      BY <1>1, <2>1, BootFixed DEF BootInv, Boot!TypeOK, Boot!DriverTypeOK
    <3>4. QED
      BY <3>2, <3>3 DEF Boot!TypeOK
  <2>5. PhyKnown'
    BY <1>1, <2>2, <2>3, BootFixed, BootPlaces DEF BootInv, PhyKnown, Writable, Listening
  <2>6. MIIKnown'
    BY <1>1, <2>1, <2>2, <2>3, BootFixed, BootPlaces
       DEF BootInv, MIIKnown, Register, Writable, Boot!RegisterOf
  <2>7. QED
    BY <1>2, <2>4, <2>5, <2>6 DEF BootInv
<1>6. QED
  BY <1>3, <1>4, <1>5 DEF Boot!MII

\* The link comes and goes.
LEMMA LinkStep ==
    ASSUME BootInv, Boot!Negotiate \/ Boot!LinkUp \/ Boot!LinkDown
    PROVE  BootInv'
<1>1. /\ UNCHANGED <<booting, resetting, clkrdy, eudast, written, macon2, mabbipg,
                     erxfcon, rxen, phcon1, phana, mii, micmd, mird, bootPc, phase,
                     value, bootDuplex>>
      /\ andone' \in BOOLEAN /\ up' \in BOOLEAN /\ latched' \in BOOLEAN
      /\ phydpx' \in BOOLEAN
      /\ renegotiated' = TRUE \/ UNCHANGED <<phydpx, renegotiated>>
  BY DEF Boot!Negotiate, Boot!LinkUp, Boot!LinkDown, Boot!chip, Boot!registers,
         Boot!phy, Boot!miim, Boot!driver, BootInv, Boot!TypeOK, Boot!ChipTypeOK
<1>2. flaps' \in 0 .. MaxFlaps
  <2>1. flaps' = flaps \/ (flaps < MaxFlaps /\ flaps' = flaps + 1)
    BY DEF Boot!Negotiate, Boot!LinkUp, Boot!LinkDown
  <2>2. flaps \in 0 .. MaxFlaps
    BY DEF BootInv, Boot!TypeOK, Boot!DriverTypeOK
  <2>3. QED
    BY <2>1, <2>2, FlapsAssumption
<1>3. Boot!TypeOK'
  <2>1. Boot!ChipTypeOK'
    BY <1>1, <1>2, BootFixed DEF BootInv, Boot!TypeOK, Boot!ChipTypeOK
  <2>2. Boot!DriverTypeOK'
    BY <1>1, <1>2, DriverHas, DriverTyped
  <2>3. QED
    BY <2>1, <2>2 DEF Boot!TypeOK
<1>4. (ResetKnown /\ RegistersKnown /\ PhyKnown)'
  BY <1>1, BootFixed DEF BootInv, ResetKnown, RegistersKnown, PhyKnown
<1>5. DuplexKnown'
  <2>1. CASE renegotiated' = TRUE
    BY <1>1, <2>1 DEF BootInv, DuplexKnown
  <2>2. CASE UNCHANGED <<phydpx, renegotiated>>
    BY <1>1, <2>2 DEF BootInv, DuplexKnown
  <2>3. QED
    BY <1>1, <2>1, <2>2
<1>6. MIIKnown'
  BY <1>1, BootFixed DEF BootInv, MIIKnown, Register, Writable, Boot!RegisterOf
<1>7. QED
  BY <1>3, <1>4, <1>5, <1>6 DEF BootInv

\* The driver brings the chip out of reset: EUDAST is 0x1234 only after the
\* power-on reset, and 0 again only after the reset the driver asked for.
LEMMA ResetStep ==
    ASSUME BootInv, Boot!Reset
    PROVE  BootInv'
<1>1. UNCHANGED <<booting, clkrdy, written, macon2, mabbipg, erxfcon, rxen, phcon1,
                  phana, mii, micmd, mird, andone, up, latched, phydpx, flaps, phase,
                  value, bootDuplex, renegotiated>>
  BY DEF Boot!Reset, Boot!WriteSentinel, Boot!ReadSentinel, Boot!PollCLKRDY,
         Boot!SetETHRST, Boot!AwaitReset, Boot!Look, Boot!Goto, Boot!chip,
         Boot!registers, Boot!phy, Boot!miim, Boot!link
<1>2. \/ /\ bootPc = "sentinel" /\ bootPc' = "readback" /\ UNCHANGED resetting
         /\ eudast' = IF booting THEN eudast ELSE "0x1234"
      \/ /\ bootPc = "readback" /\ UNCHANGED <<resetting, eudast>>
         /\ bootPc' = IF eudast = "0x1234" THEN "clock" ELSE "sentinel"
      \/ /\ bootPc = "clock" /\ bootPc' \in {"clock", "reset"}
         /\ UNCHANGED <<resetting, eudast>>
      \/ /\ bootPc = "reset" /\ bootPc' = "await" /\ resetting' = TRUE
         /\ UNCHANGED eudast
      \/ /\ bootPc = "await" /\ UNCHANGED <<resetting, eudast>>
         /\ bootPc' = IF eudast = "0" THEN "buffers" ELSE "await"
  BY DEF Boot!Reset, Boot!WriteSentinel, Boot!ReadSentinel, Boot!PollCLKRDY,
         Boot!SetETHRST, Boot!AwaitReset, Boot!Look, Boot!Goto, Boot!chip
<1>3. Boot!TypeOK'
  <2>1. Boot!ChipTypeOK'
    BY <1>1, <1>2, BootFixed DEF BootInv, Boot!TypeOK, Boot!ChipTypeOK
  <2>2. Boot!DriverTypeOK'
    <3>1. bootPc' \in BootPcs
      BY <1>2 DEF BootPcs
    <3>2. QED
      BY <1>1, <3>1, DriverHas, DriverTyped
  <2>3. QED
    BY <2>1, <2>2 DEF Boot!TypeOK
<1>4. ResetKnown'
  BY <1>1, <1>2 DEF BootInv, ResetKnown, Resetting
<1>5. bootPc \in Resetting /\ bootPc' \in Resetting \union {"buffers"}
  BY <1>2 DEF Resetting
<1>6. (RegistersKnown /\ PhyKnown)'
  BY <1>1, <1>5 DEF BootInv, RegistersKnown, PhyKnown, Resetting, Configuring, Listening
<1>7. MIIKnown'
  <2>1. phase = "start" /\ mii = "none"
    BY <1>5, BootPlaces DEF BootInv, MIIKnown, Resetting
  <2>2. QED
    BY <1>1, <2>1 DEF MIIKnown
<1>8. DuplexKnown'
  BY <1>1, <1>5 DEF BootInv, DuplexKnown, Resetting
<1>9. QED
  BY <1>3, <1>4, <1>6, <1>7, <1>8 DEF BootInv

\* The driver writes the registers, once no reset can take them back.
LEMMA ConfigureStep ==
    ASSUME BootInv, Boot!Configure
    PROVE  BootInv'
<1>1. UNCHANGED <<booting, resetting, clkrdy, mabbipg, rxen, phcon1, phana, mii, micmd,
                  mird, andone, up, latched, phydpx, flaps, phase, value, bootDuplex,
                  renegotiated>>
  BY DEF Boot!Configure, Boot!WriteBuffers, Boot!WriteFilters, Boot!WriteMAC,
         Boot!Goto, Boot!phy, Boot!miim, Boot!link
<1>2. \/ /\ bootPc = "buffers" /\ bootPc' = "filters"
         /\ written' = written \union {"buffers"} /\ eudast' = "other"
         /\ UNCHANGED <<macon2, erxfcon>>
      \/ /\ bootPc = "filters" /\ bootPc' = "mac"
         /\ written' = written \union {"filters"}
         /\ erxfcon' = (erxfcon \union Boot!Enabled) \ Boot!Disabled
         /\ UNCHANGED <<eudast, macon2>>
      \/ /\ bootPc = "mac" /\ bootPc' = "sleep"
         /\ written' = written \union {"mac"}
         /\ \E huge \in {{}, {"HFRMEN"}} :
              macon2' = (macon2 \ {"HFRMEN", "PADCFG0", "PADCFG1", "PADCFG2"})
                          \union huge \union {"PADCFG0", "TXCRCEN"}
         /\ UNCHANGED <<eudast, erxfcon>>
  BY DEF Boot!Configure, Boot!WriteBuffers, Boot!WriteFilters, Boot!WriteMAC,
         Boot!Goto
<1>3. bootPc = "filters" => erxfcon' = Boot!Enabled
  BY <1>2, BootPlaces DEF Boot!Disabled, BootInv, Boot!TypeOK, Boot!ChipTypeOK
<1>4. bootPc = "mac" =>
        /\ macon2' \subseteq Boot!MACON2Bits
        /\ macon2' \intersect {"PADCFG0", "PADCFG1", "PADCFG2", "TXCRCEN"}
             = {"PADCFG0", "TXCRCEN"}
  BY <1>2, BootPlaces DEF BootInv, Boot!TypeOK, Boot!ChipTypeOK
<1>5. Boot!TypeOK'
  <2>1. Boot!ChipTypeOK'
    BY <1>1, <1>2, <1>3, <1>4, BootFixed, BootPlaces
       DEF BootInv, Boot!TypeOK, Boot!ChipTypeOK
  <2>2. Boot!DriverTypeOK'
    <3>1. bootPc' \in BootPcs
      BY <1>2, BootPlaces DEF BootPcs
    <3>2. QED
      BY <1>1, <3>1, DriverHas, DriverTyped
  <2>3. QED
    BY <2>1, <2>2 DEF Boot!TypeOK
<1>6. ResetKnown'
  BY <1>1, <1>2 DEF BootInv, ResetKnown, Resetting
<1>7. RegistersKnown'
  BY <1>2, <1>3, <1>4, BootFixed DEF BootInv, RegistersKnown, Resetting, Configuring
<1>8. PhyKnown'
  BY <1>1, <1>2 DEF BootInv, PhyKnown, Listening
<1>9. MIIKnown'
  <2>1. phase = "start" /\ mii = "none"
    BY <1>2, BootPlaces DEF BootInv, MIIKnown
  <2>2. QED
    BY <1>1, <2>1 DEF MIIKnown
<1>10. DuplexKnown'
  BY <1>1, <1>2 DEF BootInv, DuplexKnown
<1>11. QED
  BY <1>5, <1>6, <1>7, <1>8, <1>9, <1>10 DEF BootInv

\* The driver reads and modifies the PHY's registers, one MII operation after the
\* other.
LEMMA AccessStep ==
    ASSUME BootInv, Boot!AccessPHY
    PROVE  BootInv'
<1>1. /\ bootPc \in Boot!PhySteps \union Boot!PhyLoops
      /\ UNCHANGED <<booting, resetting, clkrdy, eudast, written, macon2, mabbipg,
                     erxfcon, rxen, phcon1, phana, andone, up, latched, phydpx, flaps,
                     bootDuplex, renegotiated>>
  BY DEF Boot!AccessPHY, Boot!BeginRead, Boot!WaitForMII, Boot!Delay, Boot!EndRead,
         Boot!ReadMIRD, Boot!BeginWrite, Boot!EndWrite, Boot!TestPHSTAT1, Boot!LoopOn,
         Boot!Phase, Boot!chip, Boot!registers, Boot!phy, Boot!link
<1>2. Boot!ChipTypeOK'
  BY <1>1, BootFixed DEF BootInv, Boot!TypeOK, Boot!ChipTypeOK
<1>3. CASE UNCHANGED bootPc
  <2>1. (ResetKnown /\ RegistersKnown /\ PhyKnown)'
    BY <1>1, <1>3, BootFixed DEF BootInv, ResetKnown, RegistersKnown, PhyKnown
  <2>2. DuplexKnown'
    BY <1>1, <1>3, BootPlaces DEF BootInv, DuplexKnown
  <2>3. CASE Boot!BeginRead
    <3>1. /\ phase = "start" /\ phase' = "delayread" /\ mii' = "requested"
          /\ micmd' = [kind |-> "read", reg |-> Boot!RegisterOf(bootPc), data |-> {}]
          /\ UNCHANGED <<mird, value>>
      BY <2>3 DEF Boot!BeginRead, Boot!Phase, Boot!Command
    <3>2. Boot!RegisterOf(bootPc) \in {"PHCON1", "PHANA", "PHSTAT1"}
      BY DEF Boot!RegisterOf
    <3>3. Boot!DriverTypeOK'
      BY <1>1, <1>3, <3>1, <3>2, BootFixed DEF BootInv, Boot!TypeOK, Boot!DriverTypeOK
    <3>4. MIIKnown'
      BY <1>1, <1>3, <3>1, BootFixed DEF MIIKnown, Boot!RegisterOf
    <3>5. QED
      BY <1>2, <2>1, <2>2, <3>3, <3>4 DEF BootInv, Boot!TypeOK
  <2>4. CASE Boot!WaitForMII
    <3>1. /\ mii # "requested" /\ UNCHANGED <<mii, micmd, mird, value>>
          /\ \/ phase = "delayread" /\ phase' = "pollread"
             \/ phase = "delaywrite" /\ phase' = "pollwrite"
      BY <2>4 DEF Boot!WaitForMII, Boot!Delay, Boot!Phase, Boot!miim
    <3>2. Boot!DriverTypeOK'
      BY <1>1, <1>3, <3>1, BootFixed DEF BootInv, Boot!TypeOK, Boot!DriverTypeOK
    <3>3. MIIKnown'
      BY <1>1, <1>3, <3>1, BootFixed
         DEF BootInv, MIIKnown, Register, Writable, Boot!RegisterOf
    <3>4. QED
      BY <1>2, <2>1, <2>2, <3>2, <3>3 DEF BootInv, Boot!TypeOK
  <2>5. CASE Boot!EndRead
    <3>1. /\ mii # "busy" /\ phase = "pollread" /\ phase' = "value" /\ value' = mird
          /\ UNCHANGED <<mii, micmd, mird>>
      BY <2>5 DEF Boot!EndRead, Boot!ReadMIRD, Boot!Phase, Boot!miim
    <3>2. Boot!DriverTypeOK'
      BY <1>1, <1>3, <3>1, BootFixed DEF BootInv, Boot!TypeOK, Boot!DriverTypeOK
    <3>3. mii = "none"
      BY <3>1 DEF BootInv, MIIKnown, Boot!TypeOK, Boot!DriverTypeOK
    <3>4. MIIKnown'
      BY <1>1, <1>3, <3>1, <3>3, BootFixed DEF BootInv, MIIKnown, Register
    <3>5. QED
      BY <1>2, <2>1, <2>2, <3>2, <3>4 DEF BootInv, Boot!TypeOK
  <2>6. CASE Boot!BeginWrite
    <3>1. PICK data \in Boot!Modified :
            /\ bootPc \in Boot!PhySteps
            /\ phase = "value" /\ phase' = "delaywrite" /\ mii' = "requested"
            /\ micmd' = [kind |-> "write", reg |-> Boot!RegisterOf(bootPc),
                         data |-> data]
            /\ UNCHANGED <<mird, value>>
      BY <2>6 DEF Boot!BeginWrite, Boot!Phase, Boot!Command
    <3>2. value = Register
      BY <3>1 DEF BootInv, MIIKnown
    <3>3. Writable(data)
      <4>1. phcon1 \subseteq Boot!PHCON1Bits /\ phana \subseteq {"ADPAUS0"}
        BY DEF BootInv, Boot!TypeOK, Boot!ChipTypeOK
      <4>2. CASE bootPc = "pause"
        <5>1. data = value \union {"ADPAUS0"}
          BY <3>1, <4>2 DEF Boot!Modified
        <5>2. QED
          BY <3>2, <4>1, <4>2, <5>1 DEF Register, Writable
      <4>3. CASE bootPc = "sleep"
        <5>1. data = value \ {"PSLEEP"}
          BY <3>1, <4>3 DEF Boot!Modified
        <5>2. QED
          BY <3>2, <4>1, <4>3, <5>1 DEF Register, Writable
      <4>4. CASE bootPc \in {"loopback", "anen"}
        <5>1. /\ data \subseteq value \union {"PLOOPBK", "ANEN"} /\ "PSLEEP" \notin value
              /\ bootPc = "anen" => "ANEN" \in data
          BY <3>1, <3>2, <4>4 DEF Boot!Modified, Register, BootInv, PhyKnown
        <5>2. QED
          BY <3>2, <4>1, <4>4, <5>1, BootPlaces DEF Register, Writable
      <4>5. QED
        BY <3>1, <4>2, <4>3, <4>4, BootPlaces
    <3>4. Boot!RegisterOf(bootPc) \in {"PHCON1", "PHANA", "PHSTAT1"}
      BY DEF Boot!RegisterOf
    <3>5. Boot!DriverTypeOK'
      BY <1>1, <1>3, <3>1, <3>4, BootFixed DEF BootInv, Boot!TypeOK, Boot!DriverTypeOK
    <3>6. MIIKnown'
      BY <1>1, <1>3, <3>1, <3>3, BootFixed DEF MIIKnown, Boot!RegisterOf, Writable
    <3>7. QED
      BY <1>2, <2>1, <2>2, <3>5, <3>6 DEF BootInv, Boot!TypeOK
  <2>7. CASE Boot!EndWrite \/ Boot!TestPHSTAT1
    <3>1. /\ phase \in {"pollwrite", "value"} /\ phase' = "start" /\ mii # "busy"
          /\ UNCHANGED <<mii, micmd, mird, value>>
      BY <2>7 DEF Boot!EndWrite, Boot!TestPHSTAT1, Boot!LoopOn, Boot!Phase, Boot!miim,
                  BootInv, MIIKnown
    <3>2. Boot!DriverTypeOK'
      BY <1>1, <1>3, <3>1, BootFixed DEF BootInv, Boot!TypeOK, Boot!DriverTypeOK
    <3>3. mii = "none"
      BY <3>1 DEF BootInv, MIIKnown, Boot!TypeOK, Boot!DriverTypeOK
    <3>4. MIIKnown'
      BY <3>1, <3>3 DEF MIIKnown
    <3>5. QED
      BY <1>2, <2>1, <2>2, <3>2, <3>4 DEF BootInv, Boot!TypeOK
  <2>8. QED
    BY <2>3, <2>4, <2>5, <2>6, <2>7 DEF Boot!AccessPHY
<1>4. CASE bootPc' # bootPc
  <2>1. /\ bootPc' = Boot!After(bootPc) /\ phase' = "start" /\ mii # "busy"
        /\ \/ phase = "pollwrite" /\ bootPc \in Boot!PhySteps
           \/ phase = "value" /\ bootPc \in Boot!PhyLoops
        /\ UNCHANGED <<mii, micmd, mird, value>>
    BY <1>4 DEF Boot!AccessPHY, Boot!BeginRead, Boot!WaitForMII, Boot!Delay,
                Boot!EndRead, Boot!ReadMIRD, Boot!BeginWrite, Boot!EndWrite,
                Boot!TestPHSTAT1, Boot!LoopOn, Boot!Phase, Boot!miim, BootInv, MIIKnown
  <2>2. mii = "none"
    BY <2>1 DEF BootInv, MIIKnown, Boot!TypeOK, Boot!DriverTypeOK
  <2>3. \/ bootPc = "sleep" /\ bootPc' = "loopback"
        \/ bootPc = "loopback" /\ bootPc' = "anen"
        \/ bootPc = "anen" /\ bootPc' = "pause"
        \/ bootPc = "pause" /\ bootPc' = "listen"
        \/ bootPc = "andone" /\ bootPc' = "llstat"
        \/ bootPc = "llstat" /\ bootPc' = "deaf"
    BY <1>1, <2>1, BootPlaces DEF Boot!After
  <2>4. Boot!DriverTypeOK'
    BY <1>1, <2>1, <2>3, BootFixed, BootPlaces
       DEF BootInv, Boot!TypeOK, Boot!DriverTypeOK
  <2>5. (ResetKnown /\ RegistersKnown)'
    BY <1>1, <2>3, BootFixed
       DEF BootInv, ResetKnown, RegistersKnown, Resetting, Configuring
  <2>6. PhyKnown'
    <3>1. bootPc \in Boot!PhySteps => Writable(Register)
      BY <2>1, <2>2, BootPlaces DEF BootInv, MIIKnown
    <3>2. QED
      BY <1>1, <2>3, <3>1, BootPlaces
         DEF BootInv, PhyKnown, Writable, Register, Listening
  <2>7. MIIKnown'
    BY <2>1, <2>2 DEF MIIKnown
  <2>8. DuplexKnown'
    BY <1>1, <2>3 DEF BootInv, DuplexKnown
  <2>9. QED
    BY <1>2, <2>4, <2>5, <2>6, <2>7, <2>8 DEF BootInv, Boot!TypeOK
<1>5. QED
  BY <1>3, <1>4

\* The driver goes by what it read of PHYDPX, with reception off.
LEMMA DuplexStep ==
    ASSUME BootInv, Boot!SetDuplex
    PROVE  BootInv'
<1>1. UNCHANGED <<booting, resetting, clkrdy, eudast, written, erxfcon, phcon1, phana,
                  mii, micmd, mird, andone, up, latched, phydpx, flaps, phase>>
  BY DEF Boot!SetDuplex, Boot!EnableRX, Boot!DisableRX, Boot!SetRXEN, Boot!ReadPHYDPX,
         Boot!WriteMACON2, Boot!WriteMABBIPG, Boot!SetGap, Boot!Goto, Boot!chip,
         Boot!registers, Boot!phy, Boot!miim, Boot!link
<1>2. \/ /\ bootPc = "listen" /\ bootPc' = "andone" /\ rxen' = TRUE
         /\ UNCHANGED <<macon2, mabbipg, value, bootDuplex, renegotiated>>
      \/ /\ bootPc = "listen again" /\ bootPc' = "done" /\ rxen' = TRUE
         /\ UNCHANGED <<macon2, mabbipg, value, bootDuplex, renegotiated>>
      \/ /\ bootPc = "deaf" /\ bootPc' = "duplex" /\ rxen' = FALSE
         /\ UNCHANGED <<macon2, mabbipg, value, bootDuplex, renegotiated>>
      \/ /\ bootPc = "duplex" /\ bootPc' = "macon2" /\ renegotiated' = FALSE
         /\ value' = IF phydpx THEN {"PHYDPX"} ELSE {}
         /\ UNCHANGED <<rxen, macon2, mabbipg, bootDuplex>>
      \/ /\ bootPc = "macon2" /\ bootPc' = "gap"
         /\ macon2' = IF "PHYDPX" \in value THEN macon2 \union {"FULDPX"}
                                             ELSE macon2 \ {"FULDPX"}
         /\ UNCHANGED <<rxen, mabbipg, value, bootDuplex, renegotiated>>
      \/ /\ bootPc = "gap" /\ bootPc' = "listen again"
         /\ mabbipg' = IF "PHYDPX" \in value THEN "full" ELSE "half"
         /\ bootDuplex' = IF "PHYDPX" \in value THEN "FULL" ELSE "HALF"
         /\ UNCHANGED <<rxen, macon2, value, renegotiated>>
  BY DEF Boot!SetDuplex, Boot!EnableRX, Boot!DisableRX, Boot!SetRXEN, Boot!ReadPHYDPX,
         Boot!WriteMACON2, Boot!WriteMABBIPG, Boot!SetGap, Boot!Goto, Boot!chip,
         Boot!registers
<1>3. bootPc \in Listening /\ bootPc' \in Listening
  BY <1>2 DEF Listening
<1>4. macon2' \subseteq Boot!MACON2Bits
      /\ macon2' \intersect {"PADCFG0", "PADCFG1", "PADCFG2", "TXCRCEN"}
           = macon2 \intersect {"PADCFG0", "PADCFG1", "PADCFG2", "TXCRCEN"}
  BY <1>2, BootPlaces DEF BootInv, Boot!TypeOK, Boot!ChipTypeOK
<1>5. Boot!TypeOK'
  <2>1. Boot!ChipTypeOK'
    <3>1. {rxen', renegotiated'} \subseteq BOOLEAN /\ mabbipg' \in {"half", "full"}
      BY <1>2 DEF BootInv, Boot!TypeOK, Boot!ChipTypeOK
    <3>2. QED
      BY <1>1, <1>4, <3>1, BootFixed DEF BootInv, Boot!TypeOK, Boot!ChipTypeOK
  <2>2. Boot!DriverTypeOK'
    <3>1. value' \subseteq Boot!PHCON1Bits \union
                              {"ADPAUS0", "ANDONE", "LLSTAT", "PHYDPX"}
          /\ bootDuplex' \in {"FULL", "HALF"}
      BY <1>2, DriverHas
    <3>2. bootPc' \in BootPcs
      BY <1>2, BootPlaces DEF BootPcs
    <3>3. QED
      BY <1>1, <3>1, <3>2, DriverHas, DriverTyped
  <2>3. QED
    BY <2>1, <2>2 DEF Boot!TypeOK
<1>6. (ResetKnown /\ RegistersKnown /\ PhyKnown)'
  BY <1>1, <1>3, <1>4, BootFixed
     DEF BootInv, ResetKnown, RegistersKnown, PhyKnown, Resetting, Configuring,
         Listening
<1>7. MIIKnown'
  <2>1. phase = "start" /\ mii = "none"
    BY <1>2, BootPlaces DEF BootInv, MIIKnown
  <2>2. QED
    BY <1>1, <2>1 DEF MIIKnown
<1>8. DuplexKnown'
  <2>1. CASE bootPc \in {"listen", "deaf"}
    BY <1>2, <2>1 DEF DuplexKnown
  <2>2. CASE bootPc = "listen again"
    BY <1>1, <1>2, <2>2 DEF BootInv, DuplexKnown
  <2>3. CASE bootPc = "duplex"
    <3>1. ~rxen /\ bootPc' = "macon2" /\ UNCHANGED <<rxen, phydpx>>
      BY <1>1, <1>2, <2>3 DEF BootInv, DuplexKnown
    <3>2. phydpx <=> "PHYDPX" \in value'
      BY <1>2, <2>3
    <3>3. QED
      BY <3>1, <3>2 DEF DuplexKnown
  <2>4. CASE bootPc = "macon2"
    <3>1. /\ ~rxen /\ bootPc' = "gap" /\ UNCHANGED <<rxen, phydpx, value, renegotiated>>
          /\ renegotiated \/ (phydpx <=> "PHYDPX" \in value)
      BY <1>1, <1>2, <2>4 DEF BootInv, DuplexKnown
    <3>2. "FULDPX" \in macon2' <=> "PHYDPX" \in value
      BY <1>2, <2>4
    <3>3. QED
      BY <3>1, <3>2 DEF DuplexKnown
  <2>5. CASE bootPc = "gap"
    <3>1. /\ ~rxen /\ bootPc' = "listen again"
          /\ UNCHANGED <<rxen, phydpx, macon2, renegotiated>>
          /\ renegotiated \/ (phydpx <=> "PHYDPX" \in value)
          /\ "FULDPX" \in macon2 <=> "PHYDPX" \in value
      BY <1>1, <1>2, <2>5 DEF BootInv, DuplexKnown
    <3>2. /\ (bootDuplex' = "FULL") <=> "PHYDPX" \in value
          /\ (mabbipg' = "full") <=> "PHYDPX" \in value
      BY <1>2, <2>5
    <3>3. QED
      BY <3>1, <3>2 DEF DuplexKnown
  <2>6. QED
    BY <1>2, <2>1, <2>2, <2>3, <2>4, <2>5
<1>9. QED
  BY <1>5, <1>6, <1>7, <1>8 DEF BootInv

\* Every step of the driver, of the chip, of the MII interface and of the link.
LEMMA BootStep ==
    ASSUME BootInv, Boot!Next
    PROVE  BootInv'
BY ChipStep, MIIStep, LinkStep, ResetStep, ConfigureStep, AccessStep, DuplexStep
   DEF Boot!Next, Boot!enc624j600_init, Boot!Boot

-----------------------------------------------------------------------------
(* The theorems: of Spec, enc624j600_transmit, and of BootSpec, enc624j600_init. *)

\* EncInit without its fairness.
BootSpec == Boot!Init /\ [][Boot!Next]_(Boot!vars)

\* What TLC runs side by side are behaviours of both.
LEMMA RunsAreInstances == MCFairSpec => Spec /\ BootSpec
<1>1. MCInit => Init /\ Boot!Init
  BY DEF MCInit
<1>2. [Transmits \/ Boots]_<<vars, load, bootVars>> => [Next]_vars
  BY DEF Transmits, Boots
<1>3. [Transmits \/ Boots]_<<vars, load, bootVars>> => [Boot!Next]_(Boot!vars)
  BY DEF Transmits, Boots, bootVars, Boot!vars, Boot!chip, Boot!registers, Boot!phy, Boot!miim,
         Boot!link, Boot!driver
<1>4. QED
  BY <1>1, <1>2, <1>3, PTL DEF MCFairSpec, Spec, BootSpec

\* When nothing of enc624j600_init and its chip moves, nothing of it changes.
LEMMA BootRest == BootInv /\ UNCHANGED bootVars => BootInv'
<1>1. SUFFICES ASSUME BootInv, UNCHANGED bootVars
               PROVE  BootInv'
  OBVIOUS
<1>2. BootInv
  BY <1>1
<1>3. UNCHANGED <<booting, resetting, clkrdy, eudast, written, macon2, mabbipg, erxfcon,
                  rxen, phcon1, phana, mii, micmd, mird, phydpx, flaps, bootPc, phase,
                  value, bootDuplex, renegotiated>>
  BY <1>1 DEF bootVars
<1>4. Boot!TypeOK'
  <2>1. Boot!ChipTypeOK'
    BY <1>1, BootFixed DEF bootVars, BootInv, Boot!TypeOK, Boot!ChipTypeOK
  <2>2. UNCHANGED <<mii, micmd, mird, value, flaps, bootPc, phase, bootDuplex>>
    BY <1>3
  <2>3. Boot!DriverTypeOK'
    BY <1>2, <2>2, DriverRest DEF BootInv, Boot!TypeOK
  <2>4. QED
    BY <2>1, <2>3 DEF Boot!TypeOK
<1>5. (ResetKnown /\ RegistersKnown)'
  BY <1>2, <1>3, BootFixed DEF BootInv, ResetKnown, RegistersKnown
<1>6. (PhyKnown /\ DuplexKnown)'
  BY <1>2, <1>3, BootFixed DEF BootInv, PhyKnown, DuplexKnown
<1>7. MIIKnown'
  BY <1>2, <1>3, BootFixed DEF BootInv, MIIKnown, Register, Writable, Boot!RegisterOf
<1>8. QED
  BY <1>4, <1>5, <1>6, <1>7 DEF BootInv

LEMMA BootSound == BootSpec => []BootInv
<1>1. UNCHANGED Boot!vars => UNCHANGED bootVars
  BY DEF bootVars, Boot!vars, Boot!chip, Boot!registers, Boot!phy, Boot!miim, Boot!link,
         Boot!driver
<1>2. BootInv /\ [Boot!Next]_(Boot!vars) => BootInv'
  BY <1>1, BootStep, BootRest
<1>3. QED
  BY <1>2, BootInit, PTL DEF BootSpec

\* For every transmit area, lengths, modes and numbers of frames, pauses and lost
\* links: variables keep their types, and no reset undoes what enc624j600_init
\* configured.
THEOREM ConfigurationIsSafe == Spec /\ BootSpec => []ConfigurationSurvives
<1>1. TransmitInv /\ BootInv => ConfigurationSurvives
  <2>1. BootInv => Boot!ConfigurationSurvives
    BY DEF BootInv, ResetKnown, RegistersKnown, Resetting, Boot!ConfigurationSurvives
  <2>2. QED
    BY <2>1 DEF TransmitInv, BootInv, ConfigurationSurvives
<1>2. QED
  BY <1>1, TransmitSound, BootSound, PTL

\* When enc624j600_init returns, the duplex modes agree and every bit has the value
\* its modification gave it.
THEOREM DuplexIsAgreed == BootSpec => []DuplexAgrees
<1>1. BootInv => DuplexAgrees
  <2>1. SUFFICES ASSUME BootInv
                 PROVE  Boot!Configured /\ Boot!DuplexAgrees
    BY DEF DuplexAgrees
  <2>2. Boot!Configured
    <3>1. CASE bootPc \in {"listen", "deaf", "duplex", "done"} \union Boot!PhyLoops
      <4>1. bootPc \in Listening /\ bootPc \notin Resetting \union Configuring
        BY <3>1, BootPlaces DEF Listening, Resetting, Configuring
      <4>2. /\ {"buffers", "filters", "mac"} \subseteq written /\ erxfcon = Boot!Enabled
            /\ macon2 \intersect {"PADCFG0", "PADCFG1", "PADCFG2", "TXCRCEN"}
                 = {"PADCFG0", "TXCRCEN"}
        BY <2>1, <4>1 DEF BootInv, RegistersKnown, Configuring
      <4>3. written = {"buffers", "filters", "mac"}
        BY <2>1, <4>2 DEF BootInv, Boot!TypeOK, Boot!ChipTypeOK
      <4>4. "PSLEEP" \notin phcon1 /\ "ANEN" \in phcon1 /\ "ADPAUS0" \in phana
        BY <2>1, <4>1 DEF BootInv, PhyKnown
      <4>5. QED
        BY <4>2, <4>3, <4>4 DEF Boot!Configured
    <3>2. QED
      BY <3>1 DEF Boot!Configured
  <2>3. QED
    BY <2>1, <2>2 DEF BootInv, DuplexKnown, Boot!DuplexAgrees
<1>2. QED
  BY <1>1, BootSound, PTL

\* What goes out is the callers' frames, whole, in the order of the calls, none
\* twice.
THEOREM WireIsSound == Spec => []WireIntegrity
BY TransmitSound, PTL DEF TransmitInv

\* SUCCEEDED is answered exactly for the frames that went out.
THEOREM AnswersAreHonest == Spec => []SuccessIsHonest
BY TransmitSound, HonestFromInv, PTL

\* No step gives the MII interface an operation while it has another one, or
\* changes the MAC's duplex mode while it receives.
THEOREM NothingIsDisturbed == BootSpec => NothingDisturbed
<1> DEFINE Asks == micmd' # micmd \/ (mii # "requested" /\ mii' = "requested")
           Turns == ("FULDPX" \in macon2) # ("FULDPX" \in macon2')
<1>1. ASSUME BootInv, Boot!Next
      PROVE  (Asks => mii = "none") /\ (Turns => ~rxen)
  <2>1. CASE Boot!Boot
    <3>1. UNCHANGED <<mii, micmd>>
      BY <2>1 DEF Boot!Boot, Boot!PowerOnResetEnds, Boot!ClockStarts,
                  Boot!ResetTakesEffect, Boot!miim
    <3>2. CASE Boot!ClockStarts
      BY <3>1, <3>2 DEF Boot!ClockStarts, Boot!registers
    <3>3. CASE Boot!PowerOnResetEnds \/ Boot!ResetTakesEffect
      <4>1. bootPc \in Resetting
        BY <1>1, <3>3 DEF BootInv, ResetKnown, Boot!PowerOnResetEnds, Boot!ResetTakesEffect
      <4>2. QED
        BY <1>1, <3>1, <4>1 DEF BootInv, DuplexKnown, Resetting
    <3>4. QED
      BY <2>1, <3>2, <3>3 DEF Boot!Boot
  <2>2. CASE Boot!MII
    BY <2>2 DEF Boot!MII, Boot!MIIStarts, Boot!MIIReads, Boot!MIIWrites, Boot!chip,
                Boot!registers
  <2>3. CASE Boot!Negotiate \/ Boot!LinkUp \/ Boot!LinkDown
    BY <2>3 DEF Boot!Negotiate, Boot!LinkUp, Boot!LinkDown, Boot!chip, Boot!registers,
                Boot!miim
  <2>4. CASE Boot!Reset
    BY <2>4 DEF Boot!Reset, Boot!WriteSentinel, Boot!ReadSentinel, Boot!PollCLKRDY,
                Boot!SetETHRST, Boot!AwaitReset, Boot!Look, Boot!chip, Boot!registers,
                Boot!miim
  <2>5. CASE Boot!Configure
    <3>1. UNCHANGED <<mii, micmd>> /\ bootPc \in Configuring
      BY <2>5 DEF Boot!Configure, Boot!WriteBuffers, Boot!WriteFilters, Boot!WriteMAC,
                  Boot!Goto, Boot!miim, Configuring
    <3>2. QED
      BY <1>1, <3>1 DEF BootInv, DuplexKnown, Configuring
  <2>6. CASE Boot!AccessPHY
    <3>1. UNCHANGED macon2
      BY <2>6 DEF Boot!AccessPHY, Boot!BeginRead, Boot!WaitForMII, Boot!Delay,
                  Boot!EndRead, Boot!ReadMIRD, Boot!BeginWrite, Boot!EndWrite,
                  Boot!TestPHSTAT1, Boot!LoopOn, Boot!Phase, Boot!chip, Boot!registers
    <3>2. CASE Boot!BeginRead \/ Boot!BeginWrite
      <4>1. phase \in {"start", "value"}
        BY <3>2 DEF Boot!BeginRead, Boot!BeginWrite, Boot!Phase
      <4>2. QED
        BY <1>1, <3>1, <4>1 DEF BootInv, MIIKnown
    <3>3. CASE ~(Boot!BeginRead \/ Boot!BeginWrite)
      <4>1. UNCHANGED <<mii, micmd>>
        BY <2>6, <3>3 DEF Boot!AccessPHY, Boot!WaitForMII, Boot!Delay, Boot!EndRead,
                          Boot!ReadMIRD, Boot!EndWrite, Boot!TestPHSTAT1, Boot!LoopOn,
                          Boot!miim
      <4>2. QED
        BY <3>1, <4>1
    <3>4. QED
      BY <3>2, <3>3
  <2>7. CASE Boot!SetDuplex
    <3>1. UNCHANGED <<mii, micmd>>
      BY <2>7 DEF Boot!SetDuplex, Boot!EnableRX, Boot!DisableRX, Boot!SetRXEN,
                  Boot!ReadPHYDPX, Boot!WriteMACON2, Boot!WriteMABBIPG, Boot!SetGap,
                  Boot!Goto, Boot!miim
    <3>2. UNCHANGED macon2 \/ bootPc = "macon2"
      BY <2>7 DEF Boot!SetDuplex, Boot!EnableRX, Boot!DisableRX, Boot!SetRXEN,
                  Boot!ReadPHYDPX, Boot!WriteMACON2, Boot!WriteMABBIPG, Boot!SetGap,
                  Boot!Goto, Boot!chip, Boot!registers
    <3>3. QED
      BY <1>1, <3>1, <3>2 DEF BootInv, DuplexKnown
  <2>8. QED
    BY <1>1, <2>1, <2>2, <2>3, <2>4, <2>5, <2>6, <2>7
       DEF Boot!Next, Boot!enc624j600_init
<1>2. BootInv /\ [Boot!Next]_(Boot!vars) =>
        [(Asks => mii = "none") /\ (Turns => ~rxen)]_(Boot!vars)
  BY <1>1
<1>3. QED
  BY <1>2, BootSound, PTL DEF BootSpec, NothingDisturbed, Boot!NothingDisturbed

=============================================================================
