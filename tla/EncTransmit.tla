---------------------------- MODULE EncTransmit ----------------------------
(***************************************************************************)
(* enc624j600_transmit against the transmit hardware of the ENC624J600.    *)
(*                                                                         *)
(* A frame is written through EGPDATA wherever EGPWRPT happens to be in    *)
(* the transmit area (the ring of this module), in three SPI transactions; *)
(* ETXST and ETXLEN then tell the hardware where it is, SETTXRTS starts    *)
(* it, and the driver polls TXRTS until the hardware is done.              *)
(*                                                                         *)
(* The bytes of the area are abstracted to `sram', the spans written by    *)
(* those transactions that have not been overwritten since.                *)
(***************************************************************************)
EXTENDS EncRing, Sequences

CONSTANTS
    Lengths,    \* payload lengths callers ask for
    Modes,      \* what the auto-negotiation of enc624j600_init can choose
    MaxFrames,  \* bound of the exploration: frames callers ask for
    MaxPauses   \* bound of the exploration: times the peer takes the medium

ASSUME TransmitAssumption ==
    /\ Lengths \subseteq Uint16
    /\ Modes \subseteq {"FULL", "HALF"}
    /\ MaxFrames \in Nat
    /\ MaxPauses \in Nat
    /\ 1508 <= RingSize

VARIABLES
    (* the hardware *)
    egpwrpt,        \* EGPWRPT
    sram,           \* spans [at, n, part, frame] that hold what was written
    etxst, etxlen,  \* ETXST and ETXLEN
    txrts,          \* ECON1.TXRTS
    etxwire,        \* ETXWIRE, bytes of the last transmission on the wire
    defer,          \* ETXSTAT.DEFER of the last transmission
    aborted,        \* ETXSTAT's LATECOL, MAXCOL or EXDEFER of the last one
    deferring,      \* this transmission had to wait for the medium
    (* the peer *)
    busy,           \* it occupies the medium, or has paused this side
    pauses,         \* how often it has done so
    (* the driver *)
    pc,             \* the next transaction of enc624j600_transmit
    duplex_mode,
    frame,          \* the frame to send, numbered by the caller
    length,
    gpwrpt_value,
    result,         \* what the last call returned
    (* history *)
    sent            \* what went out: frames, or 0 for what nobody asked for

status   == <<etxwire, defer, aborted>>
hardware == <<egpwrpt, sram, etxst, etxlen, txrts, deferring, status>>
peer     == <<busy, pauses>>
driver   == <<pc, duplex_mode, frame, length, gpwrpt_value, result>>
vars     == <<hardware, peer, driver, sent>>

-----------------------------------------------------------------------------

\* enc624j600_init: the write pointer at the start of the area, the duplex
\* mode negotiated, nothing transmitted since the reset.
Init ==
    /\ egpwrpt = RingStart
    /\ sram = {}
    /\ etxst = 0 /\ etxlen = 0 /\ txrts = FALSE
    /\ etxwire = 0 /\ defer = FALSE /\ aborted = FALSE /\ deferring = FALSE
    /\ busy = FALSE /\ pauses = 0
    /\ pc = "idle"
    /\ duplex_mode \in Modes
    /\ frame = 0 /\ length = 0 /\ gpwrpt_value = 0
    /\ result = "none"
    /\ sent = << >>

(* ---- the hardware and the peer ---- *)

PeerStarts ==
    /\ ~busy
    /\ pauses < MaxPauses
    /\ busy' = TRUE
    /\ pauses' = pauses + 1
    /\ UNCHANGED <<hardware, driver, sent>>

PeerStops ==
    /\ busy
    /\ busy' = FALSE
    /\ UNCHANGED <<hardware, pauses, driver, sent>>

\* In half duplex a transmission waits for the medium.
Defer ==
    /\ txrts /\ duplex_mode = "HALF" /\ busy /\ ~deferring
    /\ deferring' = TRUE
    /\ UNCHANGED <<egpwrpt, sram, etxst, etxlen, txrts, status, peer, driver,
                   sent>>

\* The frame whose three parts lie where ETXST and ETXLEN point, if any.
FrameAt(st, len) ==
    LET Holds(part, at, n, f) ==
          [at |-> at, n |-> n, part |-> part, frame |-> f] \in sram
    IN  {f \in {s.frame : s \in sram} :
           /\ Holds("destination", st, 6, f)
           /\ Holds("type", Wrap(st + 6), 2, f)
           /\ Holds("data", Wrap(st + 8), len - 8, f)}

\* The transmission ends and its status registers tell how; before that they
\* tell of the previous one.
End(wire, error) ==
    /\ txrts
    /\ txrts' = FALSE
    /\ etxwire' = wire
    /\ aborted' = error
    /\ defer' = deferring
    /\ deferring' = FALSE
    /\ UNCHANGED <<egpwrpt, sram, etxst, etxlen, peer, driver>>

\* The hardware inserts the source address, pads to 60 bytes and adds a CRC;
\* in half duplex ETXWIRE also counts the bytes lost in collisions.
Transmitted ==
    /\ duplex_mode = "HALF" => ~busy
    /\ LET bytes == IF etxlen + 6 < 60 THEN 64 ELSE etxlen + 10
       IN  \E lost \in IF duplex_mode = "HALF" THEN {0, 8} ELSE {0} :
             End(bytes + lost, FALSE)
    /\ \/ \E f \in FrameAt(etxst, etxlen) : sent' = Append(sent, f)
       \/ FrameAt(etxst, etxlen) = {} /\ sent' = Append(sent, 0)

\* A late collision, too many of them, or an excessive deferral in half duplex;
\* a transmission cut short in full duplex.
Aborted ==
    /\ End(0, TRUE)
    /\ UNCHANGED sent

(* ---- enc624j600_transmit ---- *)

Return(r) == pc' = "idle" /\ result' = r

\* A caller asks for the next frame, or again for one that was refused.
Ask(len) ==
    /\ pc = "idle"
    /\ IF result = "FLOW_CONTROL_ACTIVE"
         THEN len = length /\ frame' = frame
         ELSE frame < MaxFrames /\ frame' = frame + 1
    /\ length' = len

\* One of the three pointers is NULL.
CallWithNull(len) ==
    /\ Ask(len)
    /\ Return("FAILED")
    /\ UNCHANGED <<hardware, peer, duplex_mode, gpwrpt_value, sent>>

CallUpTo(len, max) ==
    /\ Ask(len)
    /\ \/ len <= 7 /\ Return("DATA_IS_TOO_SMALL")
       \/ len > max /\ Return("DATA_EXCEED_MTU")
       \/ len \in 8 .. max /\ pc' = "flow" /\ UNCHANGED result
    /\ UNCHANGED <<hardware, peer, duplex_mode, gpwrpt_value, sent>>

Call_OneMore(len) == CallUpTo(len, 1501)

\* The result of the last call is still to be seen until this one returns.
Call(len) == CallUpTo(len, 1500)

RefuseIf(flow) ==
    /\ pc = "flow"
    /\ IF flow
         THEN Return("FLOW_CONTROL_ACTIVE")
         ELSE pc' = "pointer" /\ UNCHANGED result
    /\ UNCHANGED <<hardware, peer, duplex_mode, frame, length, gpwrpt_value,
                   sent>>

CheckFlowControl_Inverted ==
    RefuseIf((duplex_mode = "FULL" /\ ~busy) \/ (duplex_mode = "HALF" /\ defer))

\* FCOP in full duplex; in half duplex ETXSTAT, of the last transmission.
CheckFlowControl ==
    RefuseIf((duplex_mode = "FULL" /\ busy) \/ (duplex_mode = "HALF" /\ defer))

\* A transaction of the driver that leaves no trace in the hardware.
Local(from, to) ==
    /\ pc = from
    /\ pc' = to
    /\ UNCHANGED <<hardware, peer, duplex_mode, frame, sent>>

ReadEGPWRPT ==
    /\ Local("pointer", "destination")
    /\ gpwrpt_value' = egpwrpt
    /\ UNCHANGED <<length, result>>

\* write_to_window_reg: n bytes through EGPDATA, which advances EGPWRPT.
WriteWindow(part, n, to) ==
    /\ pc = part
    /\ pc' = to
    /\ sram' = {s \in sram : ~Overlap(s.at, s.n, egpwrpt, n)} \union
               {[at |-> egpwrpt, n |-> n, part |-> part, frame |-> frame]}
    /\ egpwrpt' = Wrap(egpwrpt + n)
    /\ UNCHANGED <<etxst, etxlen, txrts, deferring, status, peer, duplex_mode,
                   frame, length, gpwrpt_value, result, sent>>

WriteDestination == WriteWindow("destination", 6, "type")
WriteType        == WriteWindow("type", 2, "data")
WriteData        == WriteWindow("data", length, "start")

SetETXST(address) ==
    /\ pc = "start"
    /\ pc' = "length"
    /\ etxst' = address
    /\ UNCHANGED <<egpwrpt, sram, etxlen, txrts, deferring, status, peer,
                   duplex_mode, frame, length, gpwrpt_value, result, sent>>

WriteETXST_AfterData == SetETXST(egpwrpt)

WriteETXST == SetETXST(gpwrpt_value)

WriteETXLEN ==
    /\ pc = "length"
    /\ pc' = "request"
    /\ etxlen' = 8 + length
    /\ UNCHANGED <<egpwrpt, sram, etxst, txrts, deferring, status, peer,
                   duplex_mode, frame, length, gpwrpt_value, result, sent>>

SetTXRTS ==
    /\ pc = "request"
    /\ pc' = "wait"
    /\ txrts' = TRUE
    /\ UNCHANGED <<egpwrpt, sram, etxst, etxlen, deferring, status, peer,
                   duplex_mode, frame, length, gpwrpt_value, result, sent>>

\* One turn of the loop that reads ECON1; it has no limit.
Poll(done) ==
    /\ done
    /\ Local("wait", "check")
    /\ UNCHANGED <<length, gpwrpt_value, result>>

PollTXRTS == Poll(~txrts)

\* ETXWIRE counts padding, the source address and the CRC, so that the length
\* to compare it with is at least the 46 bytes every frame is padded to.
Check(failed) ==
    /\ pc = "check"
    /\ Return(IF failed THEN "FAILED" ELSE "SUCCEEDED")
    /\ length' = IF duplex_mode = "FULL" /\ length < 46 THEN 46 ELSE length
    /\ UNCHANGED <<hardware, peer, duplex_mode, frame, gpwrpt_value, sent>>

CheckErrors_NoPadding ==
    Check(IF duplex_mode = "FULL" THEN etxwire # 18 + length ELSE aborted)

CheckErrors ==
    Check(IF duplex_mode = "FULL"
            THEN etxwire # 18 + (IF length < 46 THEN 46 ELSE length)
            ELSE aborted)

-----------------------------------------------------------------------------

Request == \E len \in Lengths : CallWithNull(len) \/ Call(len)

Transmit ==
    \/ CheckFlowControl
    \/ ReadEGPWRPT
    \/ WriteDestination
    \/ WriteType
    \/ WriteData
    \/ WriteETXST
    \/ WriteETXLEN
    \/ SetTXRTS
    \/ PollTXRTS
    \/ CheckErrors

Finish == Transmitted \/ Aborted

Next == Request \/ Transmit \/ Defer \/ Finish \/ PeerStarts \/ PeerStops

Spec == Init /\ [][Next]_vars

\* A call runs to its end, the caller tries a refused frame again, and the
\* hardware ends every transmission it has started.
FairSpec ==
    /\ Spec
    /\ WF_vars(Transmit)
    /\ WF_vars(\E len \in Lengths : Call(len))
    /\ WF_vars(Finish)
    /\ WF_vars(PeerStops)

-----------------------------------------------------------------------------

Span == [at : Ring, n : 1 .. 1500, part : {"destination", "type", "data"},
         frame : 1 .. MaxFrames]

\* The variables have the types of the registers and of the code.
TypeOK ==
    /\ egpwrpt \in Ring
    /\ sram \subseteq Span
    /\ etxst \in Uint16 /\ etxlen \in Uint16 /\ etxwire \in Uint16
    /\ {txrts, defer, aborted, deferring, busy} \subseteq BOOLEAN
    /\ pauses \in 0 .. MaxPauses
    /\ pc \in {"idle", "flow", "pointer", "destination", "type", "data",
               "start", "length", "request", "wait", "check"}
    /\ duplex_mode \in Modes
    /\ frame \in 0 .. MaxFrames
    /\ length \in Uint16 /\ gpwrpt_value \in Uint16
    /\ result \in {"none", "SUCCEEDED", "DATA_IS_TOO_SMALL",
                   "DATA_EXCEED_MTU", "FLOW_CONTROL_ACTIVE", "FAILED"}
    /\ sent \in Seq(0 .. MaxFrames)

\* Whatever goes out is one of the callers' frames, whole, wherever in the
\* area it was written and whatever frames were there before, and frames go
\* out in the order of the calls, none twice.
WireIntegrity ==
    /\ \A i \in DOMAIN sent : sent[i] # 0
    /\ \A i, j \in DOMAIN sent : i < j => sent[i] < sent[j]

\* SUCCEEDED is answered exactly for the frames that went out: padding and
\* collisions are not mistaken for errors nor errors for them.
SuccessIsHonest ==
    pc = "idle" /\ frame > 0 =>
      (result = "SUCCEEDED" <=> sent # << >> /\ sent[Len(sent)] = frame)

\* enc624j600_driver.h: ENC_FLOW_CONTROL_ACTIVE tells that the "peer node has
\* been paused the transmission temporary"; a frame that is tried again and
\* again is not refused for ever by a peer that stops pausing.
RefusalIsTemporary ==
    result = "FLOW_CONTROL_ACTIVE" ~> result # "FLOW_CONTROL_ACTIVE"

\* Every call returns, and in full duplex a refusal is temporary: the pause it is
\* about is over when the peer ends it, whatever transmissions came before.
EveryCallReturns ==
    /\ pc # "idle" ~> pc = "idle"
    /\ duplex_mode = "FULL" /\ result = "FLOW_CONTROL_ACTIVE"
         ~> result # "FLOW_CONTROL_ACTIVE"

=============================================================================
