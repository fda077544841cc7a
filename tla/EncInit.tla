------------------------------ MODULE EncInit ------------------------------
(***************************************************************************)
(* enc624j600_init: how the driver brings the ENC624J600 out of its        *)
(* power-on reset, configures it, configures the PHY behind the MII        *)
(* management interface, and copies the duplex mode the PHY negotiated     *)
(* into the MAC.                                                           *)
(*                                                                         *)
(* The chip is not synchronised with the driver: the power-on reset ends,  *)
(* a reset command takes effect, an MII operation runs, the link comes and *)
(* goes whenever they do.  Registers are sets of the bits that are set.    *)
(***************************************************************************)
EXTENDS Naturals, Sequences

CONSTANTS
    MaxFlaps    \* bound of the exploration: times the link goes down, a number

VARIABLES
    (* the chip *)
    booting,        \* it is in its power-on reset and ignores writes
    resetting,      \* SETETHRST was received and has not taken effect yet
    clkrdy,         \* ESTAT.CLKRDY
    eudast,         \* EUDAST: is it 0x1234, 0 or another value?
    written,        \* which areas of registers hold what the driver wrote
    macon2,         \* MACON2
    mabbipg,        \* MABBIPG: the gap of full or of half duplex
    erxfcon,        \* ERXFCON, the receive filters
    rxen,           \* ECON1.RXEN
    (* the PHY and the MII management interface *)
    phcon1, phana,  \* PHCON1 and PHANA
    mii,            \* "none", "requested" or "busy"; MISTAT.BUSY is the last
    micmd,          \* the operation: a read or a write of a register
    mird,           \* MIRD
    (* the link *)
    andone,         \* PHSTAT1.ANDONE
    up,             \* there is a link
    latched,        \* it was down since PHSTAT1 was last read
    phydpx,         \* ESTAT.PHYDPX, full duplex was negotiated
    flaps,
    (* the driver *)
    pc,             \* what enc624j600_init is doing
    phase,          \* where it is in read_phy_sfr or write_phy_sfr
    value,          \* what read_phy_sfr returned
    duplex_mode,
    (* history *)
    renegotiated    \* a negotiation ended since PHYDPX was read

registers == <<written, macon2, mabbipg, erxfcon>>
chip      == <<booting, resetting, clkrdy, eudast, registers, rxen>>
phy       == <<phcon1, phana>>
miim      == <<mii, micmd, mird>>
link      == <<andone, up, latched, phydpx, flaps>>
driver    == <<pc, phase, value, duplex_mode>>
vars      == <<chip, phy, miim, link, driver, renegotiated>>

-----------------------------------------------------------------------------

NoCommand == [kind |-> "none", reg |-> "none", data |-> {}]

\* The bits the driver sets or clears one by one.
FilterBits == {"CRCEN", "RUNTEN", "UCEN", "BCEN", "CRCEEN", "RUNTEEN",
               "NOTMEEN", "MCEN", "HTEN", "MPEN", "PMEN"}
MACON2Bits == {"HFRMEN", "PADCFG0", "PADCFG1", "PADCFG2", "TXCRCEN", "FULDPX"}
PHCON1Bits == {"PSLEEP", "PLOOPBK", "ANEN"}

\* The source does not name the reset value of a register it modifies: all its
\* bits clear or all of them set.
ResetValue(bits) == {{}, bits}

\* Nothing but power: the driver has done nothing.  It takes for granted, and
\* so does the model, that EUDAST does not read as 0x1234 by chance.
Init ==
    /\ booting = TRUE /\ resetting = FALSE /\ clkrdy = FALSE
    /\ eudast \in {"0", "other"}
    /\ written = {}
    /\ macon2 \in ResetValue(MACON2Bits)
    /\ mabbipg = "half"
    /\ erxfcon \in ResetValue(FilterBits)
    /\ rxen = FALSE
    /\ phcon1 \in ResetValue(PHCON1Bits) /\ phana = {}
    /\ mii = "none" /\ micmd = NoCommand /\ mird = {}
    /\ andone = FALSE /\ up = FALSE /\ latched = TRUE /\ phydpx = FALSE
    /\ flaps = 0
    /\ pc = "sentinel" /\ phase = "start" /\ value = {}
    /\ duplex_mode = "HALF"
    /\ renegotiated = FALSE

(* ---- the chip ---- *)

\* Every register goes back to its reset value.
ResetRegisters ==
    /\ eudast' = "0"
    /\ written' = {}
    /\ macon2' \in ResetValue(MACON2Bits)
    /\ mabbipg' = "half"
    /\ erxfcon' \in ResetValue(FilterBits)
    /\ rxen' = FALSE

PowerOnResetEnds ==
    /\ booting
    /\ booting' = FALSE
    /\ ResetRegisters
    /\ UNCHANGED <<resetting, clkrdy, phy, miim, link, driver, renegotiated>>

ClockStarts ==
    /\ ~booting /\ ~clkrdy
    /\ clkrdy' = TRUE
    /\ UNCHANGED <<booting, resetting, eudast, registers, rxen, phy, miim,
                   link, driver, renegotiated>>

ResetTakesEffect ==
    /\ resetting
    /\ resetting' = FALSE
    /\ ResetRegisters
    /\ phcon1' \in ResetValue(PHCON1Bits) /\ phana' = {}
    /\ UNCHANGED <<booting, clkrdy, miim, link, driver, renegotiated>>

(* ---- the MII management interface ---- *)

MIIStarts ==
    /\ mii = "requested"
    /\ mii' = "busy"
    /\ UNCHANGED <<chip, phy, micmd, mird, link, driver, renegotiated>>

\* PHSTAT1.LLSTAT is clear when the link was down since the last time.
PHSTAT1 == {b \in {"ANDONE", "LLSTAT"} : IF b = "ANDONE" THEN andone
                                         ELSE up /\ ~latched}

MIIReads ==
    /\ mii = "busy" /\ micmd.kind = "read"
    /\ mii' = "none"
    /\ mird' = CASE micmd.reg = "PHCON1"  -> phcon1
                 [] micmd.reg = "PHANA"   -> phana
                 [] OTHER                 -> PHSTAT1
    /\ latched' = IF micmd.reg = "PHSTAT1" THEN ~up ELSE latched
    /\ UNCHANGED <<chip, phy, micmd, andone, up, phydpx, flaps, driver,
                   renegotiated>>

MIIWrites ==
    /\ mii = "busy" /\ micmd.kind = "write"
    /\ mii' = "none"
    /\ phcon1' = IF micmd.reg = "PHCON1" THEN micmd.data ELSE phcon1
    /\ phana' = IF micmd.reg = "PHANA" THEN micmd.data ELSE phana
    /\ UNCHANGED <<chip, micmd, mird, link, driver, renegotiated>>

(* ---- the link ---- *)

\* The PHY and its peer agree on a duplex mode, again after each loss.
Negotiate ==
    /\ "ANEN" \in phcon1 /\ "PSLEEP" \notin phcon1
    /\ ~andone
    /\ andone' = TRUE
    /\ phydpx' \in BOOLEAN
    /\ renegotiated' = TRUE
    /\ UNCHANGED <<chip, phy, miim, up, latched, flaps, driver>>

LinkUp ==
    /\ andone /\ ~up
    /\ up' = TRUE
    /\ UNCHANGED <<chip, phy, miim, andone, latched, phydpx, flaps, driver,
                   renegotiated>>

LinkDown ==
    /\ up /\ flaps < MaxFlaps
    /\ up' = FALSE /\ andone' = FALSE /\ latched' = TRUE
    /\ flaps' = flaps + 1
    /\ UNCHANGED <<chip, phy, miim, phydpx, driver, renegotiated>>

(* ---- reset ---- *)

Goto(from, to) == pc = from /\ pc' = to /\ UNCHANGED <<phase, value>>

\* Writes are lost while the chip is in its power-on reset.
WriteSentinel ==
    /\ Goto("sentinel", "readback")
    /\ eudast' = IF booting THEN eudast ELSE "0x1234"
    /\ UNCHANGED <<booting, resetting, clkrdy, registers, rxen, phy, miim,
                   link, duplex_mode, renegotiated>>

Look(from, ok, then, else) ==
    /\ Goto(from, IF ok THEN then ELSE else)
    /\ UNCHANGED <<chip, phy, miim, link, duplex_mode, renegotiated>>

ReadSentinel == Look("readback", eudast = "0x1234", "clock", "sentinel")
PollCLKRDY   == Look("clock", clkrdy, "reset", "clock")

SetETHRST ==
    /\ Goto("reset", "await")
    /\ resetting' = TRUE
    /\ UNCHANGED <<booting, clkrdy, eudast, registers, rxen, phy, miim, link,
                   duplex_mode, renegotiated>>

AwaitReset_Missing == Look("await", TRUE, "buffers", "await")

\* EUDAST is 0 again, where it was 0x1234 before.
AwaitReset == Look("await", eudast = "0", "buffers", "await")

(* ---- the registers ---- *)

\* The buffer pointers and the clock output; EUDAST gets its final value.
WriteBuffers ==
    /\ Goto("buffers", "filters")
    /\ written' = written \union {"buffers"}
    /\ eudast' = "other"
    /\ UNCHANGED <<booting, resetting, clkrdy, macon2, mabbipg, erxfcon, rxen,
                   phy, miim, link, duplex_mode, renegotiated>>

\* The eleven calls of configure_receive_filter: each filter's own bits.
Enabled  == {"CRCEN", "RUNTEN", "UCEN", "BCEN"}
Disabled == FilterBits \ Enabled

WriteFilters ==
    /\ Goto("filters", "mac")
    /\ erxfcon' = (erxfcon \union Enabled) \ Disabled
    /\ written' = written \union {"filters"}
    /\ UNCHANGED <<booting, resetting, clkrdy, eudast, macon2, mabbipg, rxen,
                   phy, miim, link, duplex_mode, renegotiated>>

\* mac_init, with or without huge frames.
WriteMAC ==
    /\ Goto("mac", "sleep")
    /\ \E huge \in {{}, {"HFRMEN"}} :
         macon2' = (macon2 \ {"HFRMEN", "PADCFG0", "PADCFG1", "PADCFG2"})
                     \union huge \union {"PADCFG0", "TXCRCEN"}
    /\ written' = written \union {"mac"}
    /\ UNCHANGED <<booting, resetting, clkrdy, eudast, mabbipg, erxfcon, rxen,
                   phy, miim, link, duplex_mode, renegotiated>>

(* ---- read_phy_sfr and write_phy_sfr ---- *)

\* The steps of phy_init, each a read and a write of a PHY register, and the
\* two loops that read PHSTAT1.
PhySteps == {"sleep", "loopback", "anen", "pause"}
PhyLoops == {"andone", "llstat"}

RegisterOf(p) == CASE p \in {"sleep", "loopback", "anen"} -> "PHCON1"
                   [] p = "pause"                         -> "PHANA"
                   [] OTHER                               -> "PHSTAT1"

Phase(from, to) ==
    /\ pc \in PhySteps \union PhyLoops
    /\ phase = from /\ phase' = to
    /\ UNCHANGED <<chip, phy, link, duplex_mode, renegotiated>>

Command(kind, data) ==
    /\ mii' = "requested"
    /\ micmd' = [kind |-> kind, reg |-> RegisterOf(pc), data |-> data]
    /\ UNCHANGED mird

BeginRead ==
    /\ Phase("start", "delayread")
    /\ Command("read", {})
    /\ UNCHANGED <<pc, value>>

\* enc624j600_hal_delay(30U): longer than the interface takes to become busy.
Delay(ready) ==
    /\ ready
    /\ \/ Phase("delayread", "pollread")
       \/ Phase("delaywrite", "pollwrite")
    /\ UNCHANGED <<miim, pc, value>>

WaitForMII_TooShort == Delay(TRUE)

WaitForMII == Delay(mii # "requested")

ReadMIRD(ready) ==
    /\ ready
    /\ Phase("pollread", "value")
    /\ value' = mird
    /\ UNCHANGED <<miim, pc>>

\* The loop that polls MISTAT.BUSY, and MIRD after it.
EndRead == ReadMIRD(mii # "busy")

Modified_ClearsANEN ==
    CASE pc = "loopback" -> {value \union {"PLOOPBK"}, value \ {"PLOOPBK"}}
      [] pc = "pause"    -> {value \union {"ADPAUS0"}}
      [] OTHER           -> {value \ {"PSLEEP", "ANEN"}}

\* bit_field_set_phy_sfr or bit_field_clear_phy_sfr, as phy_init calls them.
Modified == CASE pc = "sleep"    -> {value \ {"PSLEEP"}}
              [] pc = "loopback" -> {value \union {"PLOOPBK"},
                                     value \ {"PLOOPBK"}}
              [] pc = "anen"     -> {value \union {"ANEN"}}
              [] OTHER           -> {value \union {"ADPAUS0"}}

BeginWrite ==
    /\ pc \in PhySteps
    /\ Phase("value", "delaywrite")
    /\ \E data \in Modified : Command("write", data)
    /\ UNCHANGED <<pc, value>>

After(p) == CASE p = "sleep"    -> "loopback"
              [] p = "loopback" -> "anen"
              [] p = "anen"     -> "pause"
              [] p = "pause"    -> "listen"
              [] p = "andone"   -> "llstat"
              [] OTHER          -> "deaf"

EndWrite ==
    /\ mii # "busy"
    /\ pc \in PhySteps
    /\ Phase("pollwrite", "start")
    /\ pc' = After(pc)
    /\ UNCHANGED <<miim, value>>

\* The loops on ANDONE and LLSTAT; they have no limit.
LoopOn(ok) ==
    /\ pc \in PhyLoops
    /\ Phase("value", "start")
    /\ pc' = IF ok THEN After(pc) ELSE pc
    /\ UNCHANGED <<miim, value>>

TestPHSTAT1 == LoopOn((IF pc = "andone" THEN "ANDONE" ELSE "LLSTAT") \in value)

(* ---- the duplex mode ---- *)

EnableRX ==
    /\ \/ Goto("listen", "andone")
       \/ Goto("listen again", "done")
    /\ rxen' = TRUE
    /\ UNCHANGED <<booting, resetting, clkrdy, eudast, registers, phy, miim,
                   link, duplex_mode, renegotiated>>

SetRXEN(on) ==
    /\ Goto("deaf", "duplex")
    /\ rxen' = on
    /\ UNCHANGED <<booting, resetting, clkrdy, eudast, registers, phy, miim,
                   link, duplex_mode, renegotiated>>

DisableRX == SetRXEN(FALSE)

\* ESTAT.PHYDPX is read once, and decides what follows.
ReadPHYDPX ==
    /\ pc = "duplex" /\ pc' = "macon2"
    /\ value' = IF phydpx THEN {"PHYDPX"} ELSE {}
    /\ renegotiated' = FALSE
    /\ UNCHANGED <<chip, phy, miim, link, phase, duplex_mode>>

WriteMACON2 ==
    /\ Goto("macon2", "gap")
    /\ macon2' = IF "PHYDPX" \in value THEN macon2 \union {"FULDPX"}
                                       ELSE macon2 \ {"FULDPX"}
    /\ UNCHANGED <<booting, resetting, clkrdy, eudast, written, mabbipg,
                   erxfcon, rxen, phy, miim, link, duplex_mode, renegotiated>>

\* MABBIPG, and the driver's own note of the mode.
SetGap(full) ==
    /\ Goto("gap", "listen again")
    /\ mabbipg' = IF full THEN "full" ELSE "half"
    /\ duplex_mode' = IF full THEN "FULL" ELSE "HALF"
    /\ UNCHANGED <<booting, resetting, clkrdy, eudast, written, macon2,
                   erxfcon, rxen, phy, miim, link, renegotiated>>

WriteMABBIPG_ReadsAgain == SetGap(phydpx)

WriteMABBIPG == SetGap("PHYDPX" \in value)

-----------------------------------------------------------------------------

Reset == WriteSentinel \/ ReadSentinel \/ PollCLKRDY \/ SetETHRST \/ AwaitReset

Configure == WriteBuffers \/ WriteFilters \/ WriteMAC

AccessPHY ==
    \/ BeginRead
    \/ WaitForMII
    \/ EndRead
    \/ BeginWrite
    \/ EndWrite
    \/ TestPHSTAT1

SetDuplex == EnableRX \/ DisableRX \/ ReadPHYDPX \/ WriteMACON2 \/ WriteMABBIPG

enc624j600_init == Reset \/ Configure \/ AccessPHY \/ SetDuplex

Boot == PowerOnResetEnds \/ ClockStarts \/ ResetTakesEffect

MII == MIIStarts \/ MIIReads \/ MIIWrites

Next == enc624j600_init \/ Boot \/ MII \/ Negotiate \/ LinkUp \/ LinkDown

\* The driver runs, the chip boots and resets, MII operations end, and a
\* cable is plugged in: a negotiation ends and the link comes up.
Fairness ==
    /\ WF_vars(enc624j600_init)
    /\ WF_vars(PowerOnResetEnds)
    /\ WF_vars(ClockStarts)
    /\ WF_vars(ResetTakesEffect)
    /\ WF_vars(MII)
    /\ WF_vars(Negotiate)
    /\ WF_vars(LinkUp)

Spec == Init /\ [][Next]_vars /\ Fairness

-----------------------------------------------------------------------------

ChipTypeOK ==
    /\ {booting, resetting, clkrdy, rxen, andone, up, latched, phydpx,
        renegotiated} \subseteq BOOLEAN
    /\ eudast \in {"0x1234", "0", "other"}
    /\ written \subseteq {"buffers", "filters", "mac"}
    /\ macon2 \subseteq MACON2Bits
    /\ mabbipg \in {"half", "full"}
    /\ erxfcon \subseteq FilterBits
    /\ phcon1 \subseteq PHCON1Bits /\ phana \subseteq {"ADPAUS0"}

DriverTypeOK ==
    /\ mii \in {"none", "requested", "busy"}
    /\ micmd.kind \in {"none", "read", "write"}
    /\ micmd.reg \in {"none", "PHCON1", "PHANA", "PHSTAT1"}
    /\ mird \subseteq PHCON1Bits \union {"ADPAUS0", "ANDONE", "LLSTAT"}
    /\ value \subseteq PHCON1Bits \union {"ADPAUS0", "ANDONE", "LLSTAT", "PHYDPX"}
    /\ flaps \in 0 .. MaxFlaps
    /\ pc \in {"sentinel", "readback", "clock", "reset", "await", "buffers",
               "filters", "mac", "listen", "deaf", "duplex", "macon2", "gap",
               "listen again", "done"} \union PhySteps \union PhyLoops
    /\ phase \in {"start", "delayread", "pollread", "value", "delaywrite",
                  "pollwrite"}
    /\ duplex_mode \in {"FULL", "HALF"}

\* Every variable has the type of the register or variable it stands for.
TypeOK == ChipTypeOK /\ DriverTypeOK

\* No reset, neither the power-on reset nor the commanded one, takes effect
\* after the driver has started to configure the chip: the value it left in
\* EUDAST tells it that both are over.
ConfigurationSurvives ==
    /\ pc \in {"clock", "reset", "await"} => ~booting
    /\ pc \notin {"sentinel", "readback", "clock", "reset", "await"} =>
         /\ ~booting /\ ~resetting
         /\ "buffers" \in written \/ pc = "buffers"

\* When reception is switched on, every bit has its value: those of PHCON1
\* and PHANA through three modifications that read the others back, those of
\* MACON2 with the filters and the padding.
Configured ==
    pc \in {"listen", "deaf", "duplex", "done"} \union PhyLoops =>
      /\ "PSLEEP" \notin phcon1 /\ "ANEN" \in phcon1 /\ "ADPAUS0" \in phana
      /\ written = {"buffers", "filters", "mac"}
      /\ erxfcon = Enabled
      /\ macon2 \intersect {"PADCFG0", "PADCFG1", "PADCFG2", "TXCRCEN"}
           = {"PADCFG0", "TXCRCEN"}

\* When enc624j600_init returns, MAC, gap and driver have the same duplex mode
\* however the link came and went, and the PHY has it too unless it has
\* negotiated again since the driver looked; the rest is configured.
DuplexAgrees ==
    /\ Configured
    /\ pc \in {"listen again", "done"} =>
         /\ (duplex_mode = "FULL") <=> "FULDPX" \in macon2
         /\ (duplex_mode = "FULL") <=> mabbipg = "full"
         /\ renegotiated \/ ((duplex_mode = "FULL") <=> phydpx)

\* The MII interface is never given an operation while it has another one, and the
\* duplex mode of the MAC changes only while reception is off.
NothingDisturbed ==
    [][/\ micmd' # micmd \/ (mii # "requested" /\ mii' = "requested") => mii = "none"
       /\ ("FULDPX" \in macon2) # ("FULDPX" \in macon2') => ~rxen]_vars

\* With a cable plugged in, enc624j600_init returns, however often the link is
\* lost in between.
InitReturns == <>(pc = "done")

=============================================================================
