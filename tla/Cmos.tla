-------------------------------- MODULE Cmos --------------------------------
(***************************************************************************)
(* The I2C bus and the CMOS memory and clock on it (cmos.c). The guest     *)
(* drives SCL and SDA through a register of IOMD; every write of it calls  *)
(* cmosi2cchange, whose serialiser moves through the states of a transfer  *)
(* on the edges and calls the PCF8583. i2cclock is always 1 and left out;  *)
(* the second slave (SPD) is not attached in this machine.                 *)
(*                                                                         *)
(* An operator whose name has a capitalised suffix is a wrong form of the  *)
(* one it precedes, used only by the mutants of PROJECT.json.              *)
(***************************************************************************)
EXTENDS CmosTypes

VARIABLES
    oldscl, oldsda,     \* serdes.oldpinstate
    state,              \* serdes.state
    bitcount, inbuf, outbuf,
    active_slave,       \* "none" or "pcf8583"
    i2cdata,
    pcf_state, reg_address,
    cmosram,
    file,               \* the contents of cmos.ram
    bug                 \* a path the code calls a bug was taken, or a null slave used

serdes == <<state, bitcount, inbuf, outbuf, active_slave>>
pcf    == <<pcf_state, reg_address, cmosram, file>>
vars   == <<oldscl, oldsda, serdes, i2cdata, pcf, bug>>

States == {"IDLE", "ADDR", "ACK_READ", "ACK_READ_ADDR", "ACK_WRITE", "READ", "WRITE", "WAIT"}

reset_serdes(s) ==
    /\ state' = s
    /\ bitcount' = 0 /\ inbuf' = 0 /\ outbuf' = 0 /\ active_slave' = "none"
    /\ i2cdata' = 1

-----------------------------------------------------------------------------
\* The sum cmos_update_checksum keeps one more than, over all the NVRAM but
\* the checksum itself. SumOf[s] adds up the cells of s.
Nvram == Byte \ (Registers \cup {Commit})
SumOf(ram) ==
    LET f[s \in SUBSET Byte] ==
          IF s = {} THEN 0 ELSE LET a == CHOOSE a \in s : TRUE IN ram[a] + f[s \ {a}]
    IN f[Nvram]

\* The NVRAM after cmos_init and cmos_reset: the file, the settings of this
\* machine (the year, the kind of mouse), the checksum, the registers zero.
Adjusted(contents, settings, sum) ==
    [a \in Byte |-> IF a \in Registers THEN 0
                    ELSE IF a = Commit THEN sum ELSE AtTime(contents, settings)[a]]

Sums(contents, settings, sum) == sum = (SumOf(AtTime(contents, settings)) + 1) % ByteSize

\* The first start finds no file.
Init ==
    /\ file = [a \in Byte |-> 0]
    /\ \E settings \in [Settings -> Words], sum \in Byte :
          Sums(file, settings, sum) /\ cmosram = Adjusted(file, settings, sum)
    /\ oldscl = 0 /\ oldsda = 0
    /\ state = "IDLE" /\ bitcount = 0 /\ inbuf = 0 /\ outbuf = 0 /\ active_slave = "none"
    /\ i2cdata = 1 /\ pcf_state = "ADDR" /\ reg_address = 0
    /\ bug = FALSE

\* The process ends between two writes of the guest and is started again.
Restart ==
    /\ \E settings \in [Settings -> Words], sum \in Byte :
          Sums(file, settings, sum) /\ cmosram' = Adjusted(file, settings, sum)
    /\ UNCHANGED file
    /\ oldscl' = 0 /\ oldsda' = 0
    /\ reset_serdes("IDLE")
    /\ pcf_state' = "ADDR" /\ reg_address' = 0
    /\ bug' = FALSE

-----------------------------------------------------------------------------
\* The PCF8583

\* The first byte is the address; a store to the checksum saves the file.
pcf8583_write(b) ==
    IF pcf_state = "ADDR"
    THEN reg_address' = b /\ pcf_state' = "DATA" /\ UNCHANGED <<cmosram, file>>
    ELSE /\ b \in Words
         /\ cmosram' = [cmosram EXCEPT ![reg_address] = b]
         /\ file' = IF reg_address = Commit THEN cmosram' ELSE file
         /\ reg_address' = (reg_address + 1) % ByteSize
         /\ UNCHANGED pcf_state

\* A read of a register brings the time of the host into all of them first.
pcf8583_read ==
    /\ IF reg_address \in Registers
       THEN \E t \in Times : cmosram' = AtTime(cmosram, t)
       ELSE UNCHANGED cmosram
    /\ outbuf' = cmosram'[reg_address]
    /\ reg_address' = (reg_address + 1) % ByteSize
    /\ UNCHANGED <<pcf_state, file>>

-----------------------------------------------------------------------------
\* cmosi2cchange. oldscl' and oldsda' are its arguments.

IsStart == oldscl' = 1 /\ oldsda = 1 /\ oldsda' = 0
IsStop  == oldscl' = 1 /\ oldsda = 0 /\ oldsda' = 1
Edge    == ~IsStart /\ ~IsStop
Falling == Edge /\ oldscl = 1 /\ oldscl' = 0
Rising  == Edge /\ oldscl = 0 /\ oldscl' = 1
NoEdge  == Edge /\ oldscl' = oldscl

StartCondition ==
    /\ IsStart
    /\ reset_serdes("ADDR")
    /\ UNCHANGED <<pcf, bug>>

StopCondition_KeepsState ==
    /\ IsStop
    /\ active_slave' = "none" /\ i2cdata' = 1
    /\ pcf_state' = IF active_slave # "none" THEN "ADDR" ELSE pcf_state
    /\ UNCHANGED <<state, bitcount, inbuf, outbuf, reg_address, cmosram, file, bug>>

\* The slave's stop, when there is one, and the reset.
StopCondition ==
    /\ IsStop
    /\ reset_serdes("IDLE")
    /\ pcf_state' = IF active_slave # "none" THEN "ADDR" ELSE pcf_state
    /\ UNCHANGED <<reg_address, cmosram, file, bug>>

Idle ==
    /\ Edge /\ state = "IDLE"
    /\ i2cdata' = 1
    /\ UNCHANGED <<serdes, pcf, bug>>

\* States that do nothing at this edge, and calls that change no clock.
Nothing ==
    /\ Edge
    /\ \/ state = "WAIT"
       \/ NoEdge /\ state # "IDLE"
       \/ Rising /\ state = "READ" /\ bitcount # 0
    /\ UNCHANGED <<serdes, i2cdata, pcf, bug>>

\* The line is released, or pulled low to acknowledge.
Drive(d) == i2cdata' = d /\ UNCHANGED <<serdes, pcf, bug>>

FallingEdge_NoRelease ==
    /\ Falling
    /\ \/ state \in {"ADDR", "ACK_READ"} /\ Drive(1)
       \/ state \in {"ACK_READ_ADDR", "ACK_WRITE"} /\ Drive(0)
       \/ state = "WRITE" /\ Drive(i2cdata)

FallingEdge ==
    /\ Falling
    /\ \/ state \in {"ADDR", "ACK_READ", "WRITE"} /\ Drive(1)
       \/ state \in {"ACK_READ_ADDR", "ACK_WRITE"} /\ Drive(0)

\* A bit of the address. The start of the slave always acknowledges.
AddrBit ==
    LET b == Shift(inbuf, oldsda') IN
    /\ Rising /\ state = "ADDR"
    /\ IF bitcount + 1 < Bits
       THEN /\ bitcount' = bitcount + 1 /\ inbuf' = b
            /\ UNCHANGED <<state, outbuf, active_slave, i2cdata, pcf_state>>
       ELSE IF b \div 2 # Device
       THEN reset_serdes("IDLE") /\ UNCHANGED pcf_state
       ELSE /\ bitcount' = bitcount + 1 /\ inbuf' = b
            /\ state' = IF b % 2 = 1 THEN "ACK_READ_ADDR" ELSE "ACK_WRITE"
            /\ active_slave' = "pcf8583" /\ i2cdata' = 1 /\ pcf_state' = "ADDR"
            /\ UNCHANGED outbuf
    /\ UNCHANGED <<reg_address, cmosram, file, bug>>

AckReadAddr ==
    /\ Rising /\ state = "ACK_READ_ADDR"
    /\ state' = "READ" /\ bitcount' = Bits
    /\ UNCHANGED <<inbuf, outbuf, active_slave, i2cdata, pcf, bug>>

\* The master acknowledges, or not. Without a slave the code exits.
AckRead ==
    /\ Rising /\ state = "ACK_READ"
    /\ bug' = (bug \/ active_slave = "none" \/ (oldsda' = 1 /\ i2cdata = 0))
    /\ IF oldsda' = 1
       THEN state' = "WAIT" /\ UNCHANGED bitcount
       ELSE state' = "READ" /\ bitcount' = Bits
    /\ UNCHANGED <<inbuf, outbuf, active_slave, i2cdata, pcf>>

AckWrite ==
    /\ Rising /\ state = "ACK_WRITE"
    /\ state' = "WRITE" /\ bitcount' = 0 /\ inbuf' = 0
    /\ UNCHANGED <<outbuf, active_slave, i2cdata, pcf, bug>>

\* The falling edges of a read: the first fetches the byte, each puts a bit.
ReadBit ==
    /\ Falling /\ state = "READ"
    /\ IF bitcount = Bits
       THEN pcf8583_read
       ELSE UNCHANGED <<outbuf, pcf>>
    /\ bug' = (bug \/ bitcount = 0 \/ active_slave = "none")
    /\ IF bitcount > 0
       THEN bitcount' = bitcount - 1 /\ i2cdata' = BitOf(outbuf', bitcount')
       ELSE UNCHANGED <<bitcount, i2cdata>>
    /\ UNCHANGED <<state, inbuf, active_slave>>

ReadEnd ==
    /\ Rising /\ state = "READ" /\ bitcount = 0
    /\ state' = "ACK_READ"
    /\ UNCHANGED <<bitcount, inbuf, outbuf, active_slave, i2cdata, pcf, bug>>

\* A bit of a byte for the slave, whose write always acknowledges.
WriteBit ==
    LET b == Shift(inbuf, oldsda') IN
    /\ Rising /\ state = "WRITE"
    /\ bitcount' = bitcount + 1 /\ inbuf' = b
    /\ IF bitcount + 1 = Bits
       THEN /\ bug' = (bug \/ active_slave = "none")
            /\ pcf8583_write(b)
            /\ state' = "ACK_WRITE"
       ELSE UNCHANGED <<state, pcf, bug>>
    /\ UNCHANGED <<outbuf, active_slave, i2cdata>>

cmosi2cchange(newscl, newsda) ==
    /\ oldscl' = newscl /\ oldsda' = newsda
    /\ \/ StartCondition \/ StopCondition \/ Idle \/ Nothing \/ FallingEdge
       \/ AddrBit \/ AckReadAddr \/ AckRead \/ AckWrite \/ ReadBit \/ ReadEnd \/ WriteBit

Next == Restart \/ \E c, d \in 0 .. 1 : cmosi2cchange(c, d)

Spec == Init /\ [][Next]_vars
-----------------------------------------------------------------------------
\* The types of the serialiser, the memory and the file.
TypeOK ==
    /\ oldscl \in 0 .. 1 /\ oldsda \in 0 .. 1 /\ i2cdata \in 0 .. 1
    /\ state \in States /\ bitcount \in 0 .. Bits
    /\ inbuf \in Byte /\ outbuf \in Byte
    /\ active_slave \in {"none", "pcf8583"}
    /\ pcf_state \in {"ADDR", "DATA"} /\ reg_address \in Byte
    /\ cmosram \in Ram /\ file \in Ram
    /\ bug \in BOOLEAN

\* What the clock level says of a read in progress: the code outputs a bit at
\* each falling edge, so with SCL low one bit at least has left; and when the
\* line is free.
InStep ==
    /\ state \in {"IDLE", "WAIT", "ADDR"} => i2cdata = 1
    /\ state = "READ" => IF oldscl = 1 THEN bitcount > 0 ELSE bitcount < Bits
    /\ state = "ACK_READ" => bitcount = 0 /\ (oldscl = 0 => i2cdata = 1)
    /\ state \in {"ADDR", "WRITE"} => bitcount < Bits

\* The paths the code calls bugs (no slave in a read or a write, bitcount <= 0,
\* the line held low by its own reply) are never taken, and no null slave is
\* used, whatever the guest does with the two lines (cmos.c:644-744).
NoEmulatorBug == ~bug

\* A transfer that has a slave to talk to has not lost it.
SlavePresent ==
    state \in {"ACK_READ_ADDR", "ACK_READ", "ACK_WRITE", "READ", "WRITE"} => active_slave = "pcf8583"

\* The inductive invariant of the proofs.
BusInv == TypeOK /\ InStep /\ SlavePresent /\ NoEmulatorBug

\* What the serialiser's state stands for.
FrameOf ==
    CASE state = "ADDR"                    -> "address"
      [] state = "ACK_READ_ADDR"           -> "answer"
      [] state \in {"ACK_WRITE", "WRITE"}  -> "receive"
      [] state \in {"READ", "ACK_READ"}    -> "transmit"
      [] state \in {"IDLE", "WAIT"}        -> "idle"
PosOf ==
    CASE state \in {"ADDR", "WRITE"}                          -> bitcount
      [] state \in {"ACK_READ_ADDR", "ACK_WRITE", "ACK_READ"} -> Bits
      [] state = "READ"            -> IF oldscl = 1 THEN Bits - bitcount ELSE Bits - 1 - bitcount
      [] state \in {"IDLE", "WAIT"}                           -> 0
ByteOf ==
    CASE state \in {"ADDR", "WRITE", "ACK_WRITE", "ACK_READ_ADDR"}       -> inbuf
      [] state = "ACK_READ" \/ (state = "READ" /\ bitcount < Bits)      -> outbuf
      [] state \in {"IDLE", "WAIT"} \/ (state = "READ" /\ bitcount = Bits) -> 0

Memory == INSTANCE I2cMemory WITH
    scl <- oldscl, sda <- oldsda, out <- i2cdata,
    frame <- FrameOf, pos <- PosOf, byte <- ByteOf,
    expects <- IF state \in {"ACK_WRITE", "WRITE"} /\ pcf_state = "DATA" THEN "data" ELSE "pointer",
    pointer <- reg_address, mem <- cmosram, saved <- file

\* The state machine of cmosi2cchange and the PCF8583 are a memory on an I2C
\* bus: every bit the guest clocks in or out is the one of the byte the
\* protocol puts there, the pointer moves one for each byte, and a restart
\* brings back what was saved.
ByteMemory == Memory!Spec
=============================================================================
