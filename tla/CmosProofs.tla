----------------------------- MODULE CmosProofs -----------------------------
(***************************************************************************)
(* Proofs about Cmos for any width of a byte, any place of the clock, the  *)
(* checksum and the settings, and any bytes the guest stores.              *)
(***************************************************************************)
EXTENDS Cmos, TLAPS

LEMMA ByteFacts == /\ ByteSize \in Nat \ {0} /\ 0 \in Byte
                   /\ \A n \in Nat : n % ByteSize \in Byte
  <1>1. ByteSize \in Nat \ {0}
    BY BitsAssumption
  <1>2. ASSUME NEW n \in Nat PROVE n % ByteSize \in 0 .. ByteSize - 1
    BY <1>1, SMT
  <1>. QED BY <1>1, <1>2, SMT DEF Byte

LEMMA ShiftType == ASSUME NEW b \in Byte, NEW d \in 0 .. 1 PROVE Shift(b, d) \in Byte
  <1>1. 2 * b + d \in Nat
    BY ByteFacts, SMT DEF Byte
  <1>. QED BY <1>1, ByteFacts DEF Shift

LEMMA NextAddress == ASSUME NEW a \in Byte PROVE (a + 1) % ByteSize \in Byte
  <1>1. a + 1 \in Nat
    BY ByteFacts, SMT DEF Byte
  <1>. QED BY <1>1, ByteFacts

LEMMA AtTimeType == ASSUME NEW m \in Ram, NEW t \in Times PROVE AtTime(m, t) \in Ram
  <1>1. PICK cells \in SUBSET Registers : t \in [cells -> Byte]
    BY DataAssumption
  <1>2. \A a \in Byte : (IF a \in DOMAIN t THEN t[a] ELSE m[a]) \in Byte
    BY <1>1 DEF Ram
  <1>. QED BY <1>2 DEF AtTime, Ram

LEMMA AdjustedType ==
  ASSUME NEW m \in Ram, NEW settings \in [Settings -> Words], NEW sum \in Byte
  PROVE  Adjusted(m, settings, sum) \in Ram
  <1>1. \A a \in Byte : AtTime(m, settings)[a] \in Byte
    BY DataAssumption DEF AtTime, Ram
  <1>2. \A a \in Byte : (IF a \in Registers THEN 0 ELSE IF a = Commit THEN sum
                         ELSE AtTime(m, settings)[a]) \in Byte
    BY <1>1, ByteFacts
  <1>. QED BY <1>2 DEF Adjusted, Ram

LEMMA BitType == ASSUME NEW b, NEW n PROVE BitOf(b, n) \in 0 .. 1
  BY SMT DEF BitOf

-----------------------------------------------------------------------------
\* The serialiser

LEMMA BusInit == Init => BusInv
  <1>. SUFFICES ASSUME Init PROVE BusInv
    OBVIOUS
  <1>1. file \in Ram
    BY ByteFacts DEF Init, Ram
  <1>2. cmosram \in Ram
    BY <1>1, AdjustedType DEF Init
  <1>a. /\ oldscl = 0 /\ oldsda = 0 /\ state = "IDLE" /\ bitcount = 0 /\ inbuf = 0 /\ outbuf = 0
        /\ active_slave = "none" /\ i2cdata = 1 /\ pcf_state = "ADDR" /\ reg_address = 0
        /\ bug = FALSE
    BY DEF Init
  <1>b. 0 \in Byte /\ 0 \in 0 .. Bits
    BY ByteFacts, BitsAssumption
  <1>c. bug \in BOOLEAN
    BY <1>a, Zenon
  <1>3. TypeOK
    BY <1>a, <1>b, <1>c, <1>1, <1>2 DEF TypeOK, States
  <1>. QED BY <1>a, <1>3 DEF BusInv, InStep, SlavePresent, NoEmulatorBug

LEMMA BusRestart == BusInv /\ Restart => BusInv'
  <1>. SUFFICES ASSUME BusInv, Restart PROVE BusInv'
    OBVIOUS
  <1>1. file' \in Ram
    BY DEF BusInv, TypeOK, Restart
  <1>2. cmosram' \in Ram
    BY AdjustedType DEF BusInv, TypeOK, Restart
  <1>a. /\ oldscl' = 0 /\ oldsda' = 0 /\ state' = "IDLE" /\ bitcount' = 0 /\ inbuf' = 0
        /\ outbuf' = 0 /\ active_slave' = "none" /\ i2cdata' = 1 /\ pcf_state' = "ADDR"
        /\ reg_address' = 0 /\ bug' = FALSE
    BY DEF Restart, reset_serdes
  <1>b. 0 \in Byte /\ 0 \in 0 .. Bits
    BY ByteFacts, BitsAssumption
  <1>c. bug' \in BOOLEAN
    BY <1>a, Zenon
  <1>3. TypeOK'
    BY <1>a, <1>b, <1>c, <1>1, <1>2 DEF TypeOK, States
  <1>. QED BY <1>a, <1>3 DEF BusInv, InStep, SlavePresent, NoEmulatorBug

\* What stays typed while the PCF8583 stores or reads a byte.
LEMMA WriteType ==
  ASSUME TypeOK, NEW b \in Byte, pcf8583_write(b)
  PROVE  cmosram' \in Ram /\ file' \in Ram /\ reg_address' \in Byte /\ pcf_state' \in {"ADDR", "DATA"}
  <1>1. CASE pcf_state = "ADDR"
    BY <1>1 DEF TypeOK, pcf8583_write
  <1>2. CASE pcf_state # "ADDR"
    <2>1. cmosram' \in Ram
      BY <1>2 DEF TypeOK, pcf8583_write, Ram
    <2>2. reg_address' \in Byte
      BY <1>2, NextAddress DEF TypeOK, pcf8583_write
    <2>. QED BY <1>2, <2>1, <2>2 DEF TypeOK, pcf8583_write
  <1>. QED BY <1>1, <1>2

LEMMA ReadType ==
  ASSUME TypeOK, pcf8583_read
  PROVE  cmosram' \in Ram /\ file' \in Ram /\ outbuf' \in Byte /\ reg_address' \in Byte
         /\ pcf_state' \in {"ADDR", "DATA"}
  <1>1. cmosram' \in Ram
    BY AtTimeType DEF TypeOK, pcf8583_read
  <1>2. outbuf' \in Byte
    BY <1>1 DEF TypeOK, pcf8583_read, Ram
  <1>3. reg_address' \in Byte
    BY NextAddress DEF TypeOK, pcf8583_read
  <1>. QED BY <1>1, <1>2, <1>3 DEF TypeOK, pcf8583_read

LEMMA BusStep ==
  ASSUME BusInv, NEW c \in 0 .. 1, NEW d \in 0 .. 1, cmosi2cchange(c, d)
  PROVE  BusInv'
  <1>. USE BitsAssumption
  <1>a. TypeOK /\ InStep /\ SlavePresent /\ ~bug /\ oldscl' \in 0 .. 1 /\ oldsda' \in 0 .. 1
    BY DEF BusInv, NoEmulatorBug, cmosi2cchange
  <1>1. CASE StartCondition
    BY <1>1, <1>a, ByteFacts DEF StartCondition, reset_serdes, pcf, BusInv, TypeOK, InStep, SlavePresent,
       NoEmulatorBug, States
  <1>2. CASE StopCondition
    BY <1>2, <1>a, ByteFacts DEF StopCondition, reset_serdes, BusInv, TypeOK, InStep, SlavePresent,
       NoEmulatorBug, States
  <1>3. CASE Idle
    BY <1>3, <1>a DEF Idle, serdes, pcf, BusInv, TypeOK, InStep, SlavePresent, NoEmulatorBug
  <1>4. CASE Nothing
    BY <1>4, <1>a DEF Nothing, Edge, NoEdge, Rising, serdes, pcf, BusInv, TypeOK, InStep,
       SlavePresent, NoEmulatorBug
  <1>5. CASE FallingEdge
    BY <1>5, <1>a DEF FallingEdge, Falling, Drive, serdes, pcf, BusInv, TypeOK, InStep,
       SlavePresent, NoEmulatorBug
  <1>6. CASE AddrBit
    <2>1. Shift(inbuf, oldsda') \in Byte
      BY <1>a, ShiftType DEF TypeOK
    <2>2. CASE bitcount + 1 < Bits
      BY <2>1, <2>2, <1>6, <1>a DEF AddrBit, Rising, BusInv, TypeOK, InStep, SlavePresent,
         NoEmulatorBug, States
    <2>3. CASE ~(bitcount + 1 < Bits) /\ Shift(inbuf, oldsda') \div 2 # Device
      BY <2>3, <1>6, <1>a, ByteFacts DEF AddrBit, Rising, reset_serdes, BusInv, TypeOK, InStep,
         SlavePresent, NoEmulatorBug, States
    <2>4. CASE ~(bitcount + 1 < Bits) /\ Shift(inbuf, oldsda') \div 2 = Device
      BY <2>1, <2>4, <1>6, <1>a DEF AddrBit, Rising, BusInv, TypeOK, InStep, SlavePresent,
         NoEmulatorBug, States
    <2>. QED BY <2>2, <2>3, <2>4
  <1>7. CASE AckReadAddr
    BY <1>7, <1>a DEF AckReadAddr, Rising, pcf, BusInv, TypeOK, InStep, SlavePresent,
       NoEmulatorBug, States
  <1>8. CASE AckRead
    BY <1>8, <1>a DEF AckRead, Rising, pcf, BusInv, TypeOK, InStep, SlavePresent,
       NoEmulatorBug, States
  <1>9. CASE AckWrite
    BY <1>9, <1>a, ByteFacts DEF AckWrite, Rising, pcf, BusInv, TypeOK, InStep, SlavePresent,
       NoEmulatorBug, States
  <1>10. CASE ReadBit
    <2>1. /\ cmosram' \in Ram /\ file' \in Ram /\ outbuf' \in Byte /\ reg_address' \in Byte
          /\ pcf_state' \in {"ADDR", "DATA"}
      BY <1>10, <1>a, ReadType DEF ReadBit, TypeOK, pcf
    <2>2. bitcount > 0 /\ active_slave # "none"
      BY <1>10, <1>a DEF ReadBit, Falling, InStep, SlavePresent
    <2>3. bitcount' = bitcount - 1 /\ i2cdata' \in 0 .. 1 /\ bug' = FALSE
      BY <1>10, <1>a, <2>2, BitType DEF ReadBit, TypeOK
    <2>. QED BY <1>10, <1>a, <2>1, <2>2, <2>3 DEF ReadBit, Falling, BusInv, TypeOK, InStep,
         SlavePresent, NoEmulatorBug
  <1>11. CASE ReadEnd
    BY <1>11, <1>a DEF ReadEnd, Rising, pcf, BusInv, TypeOK, InStep, SlavePresent,
       NoEmulatorBug, States
  <1>12. CASE WriteBit
    <2>1. Shift(inbuf, oldsda') \in Byte
      BY <1>a, ShiftType DEF TypeOK
    <2>2. CASE bitcount + 1 = Bits
      <3>1. pcf8583_write(Shift(inbuf, oldsda'))
        BY <2>2, <1>12 DEF WriteBit
      <3>2. /\ cmosram' \in Ram /\ file' \in Ram /\ reg_address' \in Byte
            /\ pcf_state' \in {"ADDR", "DATA"}
        BY <1>a, <2>1, <3>1, WriteType
      <3>. QED BY <2>1, <2>2, <3>2, <1>12, <1>a DEF WriteBit, Rising, BusInv, TypeOK, InStep,
           SlavePresent, NoEmulatorBug, States
    <2>3. CASE bitcount + 1 # Bits
      BY <2>1, <2>3, <1>12, <1>a DEF WriteBit, Rising, pcf, BusInv, TypeOK, InStep, SlavePresent,
         NoEmulatorBug, States
    <2>. QED BY <2>2, <2>3
  <1>. QED BY <1>1, <1>2, <1>3, <1>4, <1>5, <1>6, <1>7, <1>8, <1>9, <1>10, <1>11, <1>12
       DEF cmosi2cchange

LEMMA BusStutter == BusInv /\ UNCHANGED vars => BusInv'
  BY DEF BusInv, TypeOK, InStep, SlavePresent, NoEmulatorBug, vars, serdes, pcf

LEMMA BusNext == BusInv /\ [Next]_vars => BusInv'
  BY BusRestart, BusStep, BusStutter DEF Next

\* The serialiser keeps its invariant whatever the guest writes to the lines.
THEOREM BusInvariant == Spec => []BusInv
  BY BusInit, BusNext, PTL DEF Spec

\* The serialiser, the slave and the memory keep their types.
THEOREM TypesHold == Spec => []TypeOK
  <1>1. BusInv => TypeOK
    BY DEF BusInv
  <1>. QED BY <1>1, BusInvariant, PTL

\* The paths cmos.c calls bugs are never taken (cmos.c:644-744).
THEOREM NeverABug == Spec => []NoEmulatorBug
  <1>1. BusInv => NoEmulatorBug
    BY DEF BusInv
  <1>. QED BY <1>1, BusInvariant, PTL
-----------------------------------------------------------------------------
\* The refinement of I2cMemory. Expects names the substituted expression.

Expects == IF state \in {"ACK_WRITE", "WRITE"} /\ pcf_state = "DATA" THEN "data" ELSE "pointer"

LEMMA SameOperators ==
    /\ Memory!Byte = Byte /\ Memory!Ram = Ram /\ Memory!Plain = Plain
    /\ \A b, d : Memory!Shift(b, d) = Shift(b, d)
    /\ \A b, n : Memory!BitOf(b, n) = BitOf(b, n)
    /\ \A a : Memory!After(a) = (a + 1) % ByteSize
    /\ \A m, t : Memory!AtTime(m, t) = AtTime(m, t)
  BY DEF Byte, Memory!Byte, ByteSize, Memory!ByteSize, Ram, Memory!Ram, Plain, Memory!Plain,
         Shift, Memory!Shift, BitOf, Memory!BitOf, Memory!After, AtTime, Memory!AtTime

LEMMA MapStart == StartCondition => Memory!Start
  BY DEF StartCondition, IsStart, reset_serdes, pcf, Memory!Start, Memory!Enter, Memory!store,
         FrameOf, PosOf, ByteOf

LEMMA MapStop == StopCondition => Memory!Stop
  BY DEF StopCondition, IsStop, reset_serdes, Memory!Stop, Memory!Enter, Memory!store,
         FrameOf, PosOf, ByteOf

\* A call that leaves the serialiser and the slave alone at no edge.
LEMMA MapPrepare ==
  ASSUME BusInv, NoEdge, UNCHANGED <<serdes, i2cdata, pcf>>,
         NEW c \in 0 .. 1, NEW d \in 0 .. 1, oldscl' = c, oldsda' = d
  PROVE  Memory!Prepare
  <1>1. oldscl' = oldscl /\ (oldscl = 1 => oldsda' = oldsda)
    BY DEF NoEdge, Edge, IsStart, IsStop, BusInv, TypeOK
  <1>. QED BY <1>1 DEF Memory!Prepare, Memory!line, Memory!store, serdes, pcf, FrameOf, PosOf, ByteOf

LEMMA RisingPins ==
  ASSUME BusInv, NEW c \in 0 .. 1, NEW d \in 0 .. 1, oldscl' = c, oldsda' = d, Rising
  PROVE  oldscl = 0 /\ oldscl' = 1 /\ oldsda' = oldsda /\ oldsda \in 0 .. 1
  BY DEF BusInv, TypeOK, Rising, Edge, IsStart, IsStop

LEMMA MapIdle ==
  ASSUME BusInv, NEW c \in 0 .. 1, NEW d \in 0 .. 1, oldscl' = c, oldsda' = d,
         state \in {"IDLE", "WAIT"}, UNCHANGED <<serdes, i2cdata, pcf>>, Edge
  PROVE  Memory!Prepare \/ Memory!RiseIdle \/ Memory!FallIdle
  <1>1. i2cdata = 1 /\ oldscl \in 0 .. 1
    BY DEF BusInv, InStep, TypeOK
  <1>2. CASE oldscl' = oldscl
    BY <1>2, MapPrepare DEF NoEdge
  <1>3. CASE oldscl = 0 /\ oldscl' = 1
    <2>1. oldsda' = oldsda
      BY <1>3, RisingPins DEF Rising
    <2>. QED BY <1>3, <2>1 DEF Memory!RiseIdle, Memory!Rise, Memory!line, Memory!store, serdes, pcf,
         FrameOf, PosOf, ByteOf
  <1>4. CASE oldscl = 1 /\ oldscl' = 0
    BY <1>4, <1>1 DEF Memory!FallIdle, Memory!Fall, Memory!line, Memory!store, serdes, pcf,
       FrameOf, PosOf, ByteOf
  <1>. QED BY <1>1, <1>2, <1>3, <1>4

LEMMA MapNothing ==
  ASSUME BusInv, NEW c \in 0 .. 1, NEW d \in 0 .. 1, oldscl' = c, oldsda' = d, Nothing
  PROVE  Memory!Prepare \/ Memory!RiseIdle \/ Memory!FallIdle \/ Memory!Sampled
  <1>1. UNCHANGED <<serdes, i2cdata, pcf>> /\ Edge
    BY DEF Nothing
  <1>2. CASE state = "WAIT"
    BY <1>1, <1>2, MapIdle
  <1>3. CASE NoEdge
    BY <1>1, <1>3, MapPrepare
  <1>4. CASE Rising /\ state = "READ" /\ bitcount # 0
    <2>1. bitcount \in 1 .. Bits - 1 /\ Bits \in Nat
      BY <1>4, BitsAssumption DEF BusInv, TypeOK, InStep, Rising
    <2>2. oldscl = 0 /\ oldscl' = 1 /\ oldsda' = oldsda
      BY <1>4, RisingPins
    <2>3. state' = state /\ bitcount' = bitcount /\ outbuf' = outbuf /\ i2cdata' = i2cdata
          /\ UNCHANGED <<reg_address, cmosram, file>>
      BY <1>1 DEF serdes, pcf
    <2>4. PosOf = Bits - 1 - bitcount /\ PosOf' = Bits - bitcount
      BY <1>4, <2>2, <2>3 DEF PosOf
    <2>5. ByteOf' = ByteOf
      BY <1>4, <2>1, <2>3 DEF ByteOf
    <2>6. PosOf < Bits /\ PosOf' = PosOf + 1
      BY <2>1, <2>4, SMT
    <2>. QED BY <1>4, <2>2, <2>3, <2>5, <2>6 DEF Memory!Sampled, Memory!Rise, Memory!store, FrameOf
  <1>. QED BY <1>2, <1>3, <1>4 DEF Nothing

LEMMA MapFalling ==
  ASSUME BusInv, FallingEdge
  PROVE  Memory!FallListening \/ Memory!Release
  <1>1. oldscl = 1 /\ oldscl' = 0 /\ UNCHANGED <<serdes, pcf>> /\ Bits \in Nat
    BY BitsAssumption DEF FallingEdge, Falling, Drive
  <1>2. UNCHANGED <<FrameOf, ByteOf, Expects>>
    BY <1>1 DEF FallingEdge, serdes, pcf, FrameOf, ByteOf, Expects
  <1>3. CASE state = "ACK_READ"
    BY <1>1, <1>2, <1>3 DEF FallingEdge, Drive, serdes, pcf, FrameOf, PosOf, Expects, Memory!Release,
       Memory!Fall, Memory!line, Memory!store
  <1>4. CASE state \in {"ADDR", "WRITE"}
    <2>1. PosOf < Bits /\ PosOf' = PosOf
      BY <1>1, <1>4 DEF BusInv, InStep, TypeOK, PosOf, serdes
    <2>2. FrameOf \in {"address", "receive"} /\ FrameOf' = FrameOf /\ i2cdata' = 1
      BY <1>1, <1>4 DEF FallingEdge, Drive, FrameOf, serdes
    <2>3. PosOf # Bits
      BY <2>1, <1>1, <1>4, BitsAssumption DEF PosOf, BusInv, TypeOK
    <2>. QED BY <1>1, <1>2, <2>1, <2>2, <2>3 DEF pcf, Expects, Memory!FallListening, Memory!Fall,
         Memory!line, Memory!store
  <1>5. CASE state \in {"ACK_READ_ADDR", "ACK_WRITE"}
    BY <1>1, <1>2, <1>5 DEF FallingEdge, Drive, serdes, pcf, FrameOf, PosOf, Expects,
       Memory!FallListening, Memory!Fall, Memory!line, Memory!store
  <1>. QED BY <1>3, <1>4, <1>5 DEF FallingEdge

LEMMA MapAddrBit ==
  ASSUME BusInv, NEW c \in 0 .. 1, NEW d \in 0 .. 1, oldscl' = c, oldsda' = d, AddrBit
  PROVE  Memory!AddressBit
  <1>1. oldscl = 0 /\ oldscl' = 1 /\ oldsda' = oldsda /\ state = "ADDR"
    BY RisingPins DEF AddrBit
  <1>2. bitcount \in Nat /\ bitcount < Bits /\ Bits \in Nat
    BY <1>1, BitsAssumption DEF BusInv, InStep, TypeOK
  <1>3. FrameOf = "address" /\ PosOf = bitcount /\ ByteOf = inbuf /\ Expects = "pointer"
    BY <1>1 DEF FrameOf, PosOf, ByteOf, Expects
  <1>4. reg_address' = reg_address /\ cmosram' = cmosram /\ file' = file
    BY DEF AddrBit
  <1>. DEFINE b == Shift(inbuf, oldsda)
  <1>5. Memory!Shift(ByteOf, oldsda) = b /\ i2cdata = 1
    BY <1>1, <1>3, SameOperators DEF BusInv, InStep
  <1>6. CASE bitcount + 1 < Bits
    <2>1. state' = "ADDR" /\ bitcount' = bitcount + 1 /\ inbuf' = b /\ i2cdata' = i2cdata
      BY <1>1, <1>6 DEF AddrBit
    <2>2. FrameOf' = "address" /\ PosOf' = bitcount + 1 /\ ByteOf' = b /\ Expects' = "pointer"
      BY <2>1 DEF FrameOf, PosOf, ByteOf, Expects
    <2>. QED BY <1>1, <1>3, <1>4, <1>5, <1>6, <2>1, <2>2 DEF Expects, Memory!AddressBit, Memory!Rise,
         Memory!store
  <1>7. CASE ~(bitcount + 1 < Bits) /\ b \div 2 # Device
    <2>1. state' = "IDLE" /\ i2cdata' = 1
      BY <1>1, <1>7 DEF AddrBit, reset_serdes
    <2>2. FrameOf' = "idle" /\ PosOf' = 0 /\ ByteOf' = 0 /\ Expects' = "pointer"
      BY <2>1 DEF FrameOf, PosOf, ByteOf, Expects
    <2>. QED BY <1>1, <1>3, <1>4, <1>5, <1>7, <2>1, <2>2 DEF Expects, Memory!AddressBit, Memory!Rise,
         Memory!store, Memory!Enter
  <1>8. CASE ~(bitcount + 1 < Bits) /\ b \div 2 = Device
    <2>1. /\ state' = IF b % 2 = 1 THEN "ACK_READ_ADDR" ELSE "ACK_WRITE"
          /\ inbuf' = b /\ i2cdata' = 1 /\ pcf_state' = "ADDR"
      BY <1>1, <1>8 DEF AddrBit
    <2>2. /\ FrameOf' = IF b % 2 = 1 THEN "answer" ELSE "receive"
          /\ PosOf' = Bits /\ ByteOf' = b /\ Expects' = "pointer"
      BY <2>1 DEF FrameOf, PosOf, ByteOf, Expects
    <2>. QED BY <1>1, <1>3, <1>4, <1>5, <1>8, <2>1, <2>2 DEF Expects, Memory!AddressBit, Memory!Rise,
         Memory!store
  <1>. QED BY <1>6, <1>7, <1>8
LEMMA MapAnswer ==
  ASSUME BusInv, NEW c \in 0 .. 1, NEW d \in 0 .. 1, oldscl' = c, oldsda' = d,
         AckReadAddr \/ AckWrite
  PROVE  Memory!Acknowledged
  <1>1. oldscl = 0 /\ oldscl' = 1 /\ oldsda' = oldsda /\ i2cdata' = i2cdata /\ UNCHANGED pcf
    BY RisingPins DEF AckReadAddr, AckWrite
  <1>2. CASE AckReadAddr
    <2>1. state = "ACK_READ_ADDR" /\ state' = "READ" /\ bitcount' = Bits
      BY <1>2 DEF AckReadAddr
    <2>2. /\ FrameOf = "answer" /\ PosOf = Bits /\ FrameOf' = "transmit" /\ PosOf' = Bits - Bits
          /\ ByteOf' = 0 /\ Expects = "pointer" /\ Expects' = "pointer"
      BY <1>1, <2>1, BitsAssumption DEF FrameOf, PosOf, ByteOf, Expects
    <2>. QED BY <1>1, <2>2, BitsAssumption DEF pcf, Expects, Memory!Acknowledged, Memory!Rise,
         Memory!store
  <1>3. CASE AckWrite
    <2>1. state = "ACK_WRITE" /\ state' = "WRITE" /\ bitcount' = 0 /\ inbuf' = 0
      BY <1>3 DEF AckWrite
    <2>2. /\ FrameOf = "receive" /\ PosOf = Bits /\ FrameOf' = "receive" /\ PosOf' = 0
          /\ ByteOf' = 0 /\ Expects' = Expects
      BY <1>1, <2>1 DEF FrameOf, PosOf, ByteOf, Expects, pcf
    <2>. QED BY <1>1, <2>2 DEF pcf, Expects, Memory!Acknowledged, Memory!Rise, Memory!store
  <1>. QED BY <1>2, <1>3

LEMMA MapAckRead ==
  ASSUME BusInv, NEW c \in 0 .. 1, NEW d \in 0 .. 1, oldscl' = c, oldsda' = d, AckRead
  PROVE  Memory!MasterAnswers
  <1>1. oldscl = 0 /\ oldscl' = 1 /\ oldsda' = oldsda /\ i2cdata' = i2cdata /\ UNCHANGED pcf
    BY RisingPins DEF AckRead
  <1>2. /\ state = "ACK_READ"
        /\ IF oldsda = 1 THEN state' = "WAIT" ELSE state' = "READ" /\ bitcount' = Bits
    BY <1>1 DEF AckRead
  <1>3. /\ FrameOf = "transmit" /\ PosOf = Bits /\ PosOf' = 0 /\ ByteOf' = 0
        /\ FrameOf' = IF oldsda = 1 THEN "idle" ELSE "transmit"
        /\ Expects' = "pointer"
    BY <1>1, <1>2, BitsAssumption DEF FrameOf, PosOf, ByteOf, Expects
  <1>. QED BY <1>1, <1>3 DEF pcf, Expects, Memory!MasterAnswers, Memory!Rise, Memory!Enter,
       Memory!store

LEMMA MapReadEnd ==
  ASSUME BusInv, NEW c \in 0 .. 1, NEW d \in 0 .. 1, oldscl' = c, oldsda' = d, ReadEnd
  PROVE  Memory!Sampled
  <1>1. oldscl = 0 /\ oldscl' = 1 /\ oldsda' = oldsda /\ i2cdata' = i2cdata /\ UNCHANGED pcf
    BY RisingPins DEF ReadEnd
  <1>2. state = "READ" /\ bitcount = 0 /\ state' = "ACK_READ" /\ bitcount' = 0 /\ outbuf' = outbuf
    BY DEF ReadEnd
  <1>3. /\ FrameOf = "transmit" /\ PosOf = Bits - 1 - 0 /\ ByteOf = outbuf /\ Expects = "pointer"
        /\ FrameOf' = "transmit" /\ PosOf' = Bits /\ ByteOf' = outbuf /\ Expects' = "pointer"
    BY <1>1, <1>2, BitsAssumption DEF FrameOf, PosOf, ByteOf, Expects
  <1>4. PosOf < Bits /\ PosOf' = PosOf + 1
    BY <1>3, BitsAssumption
  <1>. QED BY <1>1, <1>3, <1>4 DEF pcf, Expects, Memory!Sampled, Memory!Rise, Memory!store

\* The first falling edge of a byte reads it, the others shift it out.
LEMMA MapReadBit ==
  ASSUME BusInv, ReadBit
  PROVE  Memory!Fetch \/ Memory!PutBit
  <1>1. oldscl = 1 /\ oldscl' = 0 /\ state = "READ" /\ state' = "READ"
    BY DEF ReadBit, Falling
  <1>2. bitcount \in 1 .. Bits /\ Bits \in Nat
    BY <1>1, BitsAssumption DEF BusInv, TypeOK, InStep
  <1>3. bitcount' = bitcount - 1 /\ i2cdata' = BitOf(outbuf', bitcount')
    BY <1>2 DEF ReadBit
  <1>4. /\ FrameOf = "transmit" /\ FrameOf' = "transmit" /\ Expects = "pointer" /\ Expects' = "pointer"
        /\ PosOf = Bits - bitcount /\ PosOf' = Bits - 1 - bitcount' /\ ByteOf' = outbuf'
    BY <1>1, <1>2, <1>3 DEF FrameOf, PosOf, ByteOf, Expects
  <1>5. PosOf' = PosOf
    BY <1>2, <1>3, <1>4
  <1>6. CASE bitcount = Bits
    <2>1. /\ IF reg_address \in Registers
             THEN \E t \in Times : cmosram' = AtTime(cmosram, t) ELSE UNCHANGED cmosram
          /\ outbuf' = cmosram'[reg_address]
          /\ reg_address' = (reg_address + 1) % ByteSize /\ file' = file
      BY <1>6 DEF ReadBit, pcf8583_read
    <2>2. PosOf = 0 /\ bitcount' = Bits - 1
      BY <1>2, <1>3, <1>4, <1>6
    <2>3. i2cdata' = Memory!BitOf(ByteOf', Bits - 1)
      BY <1>3, <1>4, <2>2, SameOperators
    <2>4. reg_address' = Memory!After(reg_address)
      BY <2>1, SameOperators
    <2>5. IF reg_address \in Registers
          THEN \E t \in Times : cmosram' = Memory!AtTime(cmosram, t) ELSE UNCHANGED cmosram
      BY <2>1, SameOperators
    <2>. QED BY <1>1, <1>4, <1>5, <2>1, <2>2, <2>3, <2>4, <2>5 DEF Expects, Memory!Fetch, Memory!Fall
  <1>7. CASE bitcount # Bits
    <2>1. outbuf' = outbuf /\ UNCHANGED pcf
      BY <1>7 DEF ReadBit
    <2>2. ByteOf = outbuf
      BY <1>1, <1>2, <1>7 DEF ByteOf
    <2>3. PosOf \in 1 .. Bits - 1 /\ bitcount' = Bits - 1 - PosOf
      BY <1>2, <1>3, <1>4, <1>7
    <2>4. i2cdata' = Memory!BitOf(ByteOf, Bits - 1 - PosOf)
      BY <1>3, <2>1, <2>2, <2>3, SameOperators
    <2>. QED BY <1>1, <1>4, <1>5, <2>1, <2>2, <2>3, <2>4 DEF pcf, Expects, Memory!PutBit, Memory!Fall,
         Memory!line, Memory!store
  <1>. QED BY <1>6, <1>7
\* The last bit of a byte reaches the slave: the pointer, or a byte to store.
LEMMA MapWriteBit ==
  ASSUME BusInv, NEW c \in 0 .. 1, NEW d \in 0 .. 1, oldscl' = c, oldsda' = d, WriteBit
  PROVE  Memory!ReceiveBit
  <1>1. /\ oldscl = 0 /\ oldscl' = 1 /\ oldsda' = oldsda /\ i2cdata' = i2cdata
        /\ state = "WRITE" /\ bitcount \in Nat /\ bitcount < Bits /\ Bits \in Nat
    BY RisingPins, BitsAssumption DEF WriteBit, BusInv, InStep, TypeOK
  <1>. DEFINE b == Shift(inbuf, oldsda)
  <1>2. bitcount' = bitcount + 1 /\ inbuf' = b
    BY <1>1 DEF WriteBit
  <1>3. FrameOf = "receive" /\ PosOf = bitcount /\ ByteOf = inbuf
    BY <1>1 DEF FrameOf, PosOf, ByteOf
  <1>4. Memory!Shift(ByteOf, oldsda) = b
    BY <1>3, SameOperators
  <1>5. CASE bitcount + 1 # Bits
    <2>1. state' = "WRITE" /\ UNCHANGED pcf
      BY <1>1, <1>5 DEF WriteBit
    <2>2. FrameOf' = "receive" /\ PosOf' = bitcount + 1 /\ ByteOf' = b /\ Expects' = Expects
      BY <1>1, <1>2, <2>1 DEF FrameOf, PosOf, ByteOf, Expects, pcf
    <2>. QED BY <1>1, <1>3, <1>4, <1>5, <2>1, <2>2 DEF pcf, Expects, Memory!ReceiveBit, Memory!Rise,
         Memory!store
  <1>6. CASE bitcount + 1 = Bits
    <2>1. state' = "ACK_WRITE" /\ pcf8583_write(b)
      BY <1>1, <1>6 DEF WriteBit
    <2>2. FrameOf' = "receive" /\ PosOf' = Bits /\ ByteOf' = b
      BY <1>2, <2>1 DEF FrameOf, PosOf, ByteOf
    <2>3. PosOf' = bitcount + 1
      BY <1>6, <2>2
    <2>4. Memory!Keep(b)
      <3>1. CASE pcf_state = "ADDR"
        <4>1. Expects = "pointer" /\ Expects' = "data"
          BY <1>1, <2>1, <3>1 DEF Expects, pcf8583_write
        <4>. QED BY <2>1, <3>1, <4>1 DEF pcf8583_write, Expects, Memory!Keep
      <3>2. CASE pcf_state # "ADDR"
        <4>1. Expects = "data" /\ Expects' = "data"
          BY <1>1, <2>1, <3>2 DEF Expects, pcf8583_write, BusInv, TypeOK
        <4>2. /\ b \in Words /\ cmosram' = [cmosram EXCEPT ![reg_address] = b]
              /\ file' = (IF reg_address = Commit THEN cmosram' ELSE file)
              /\ reg_address' = Memory!After(reg_address)
          BY <2>1, <3>2, SameOperators DEF pcf8583_write
        <4>. QED BY <4>1, <4>2 DEF Expects, Memory!Keep
      <3>. QED BY <3>1, <3>2
    <2>. QED BY <1>1, <1>3, <1>4, <1>6, <2>2, <2>3, <2>4 DEF Memory!ReceiveBit, Memory!Rise
  <1>. QED BY <1>5, <1>6

LEMMA MapBus ==
  ASSUME BusInv, NEW c \in 0 .. 1, NEW d \in 0 .. 1, cmosi2cchange(c, d)
  PROVE  Memory!Next
  <1>1. oldscl' = c /\ oldsda' = d
    BY DEF cmosi2cchange
  <1>2. CASE Idle
    <2>1. state = "IDLE" /\ i2cdata = 1 /\ i2cdata' = 1 /\ UNCHANGED <<serdes, pcf>> /\ Edge
      BY <1>2 DEF Idle, BusInv, InStep
    <2>. QED BY <1>1, <2>1, MapIdle DEF Memory!Next
  <1>3. CASE ReadBit
    BY <1>3, MapReadBit DEF Memory!Next
  <1>4. CASE StartCondition \/ StopCondition
    BY <1>4, MapStart, MapStop DEF Memory!Next
  <1>5. CASE Nothing
    BY <1>1, <1>5, MapNothing DEF Memory!Next
  <1>6. CASE FallingEdge
    BY <1>6, MapFalling DEF Memory!Next
  <1>7. CASE AddrBit \/ WriteBit
    BY <1>1, <1>7, MapAddrBit, MapWriteBit DEF Memory!Next
  <1>8. CASE AckReadAddr \/ AckWrite \/ AckRead \/ ReadEnd
    BY <1>1, <1>8, MapAnswer, MapAckRead, MapReadEnd DEF Memory!Next
  <1>. QED BY <1>2, <1>3, <1>4, <1>5, <1>6, <1>7, <1>8 DEF cmosi2cchange

LEMMA AdjustedPlain ==
  ASSUME NEW m \in Ram, NEW settings \in [Settings -> Words], NEW sum \in Byte
  PROVE  \A a \in Plain : Adjusted(m, settings, sum)[a] = m[a]
  BY DEF Adjusted, AtTime, Plain

LEMMA MapInit == Init => Memory!Init
  <1>. SUFFICES ASSUME Init PROVE Memory!Init
    OBVIOUS
  <1>1. TypeOK
    BY BusInit DEF BusInv
  <1>2. file \in Ram /\ cmosram \in Ram
    BY <1>1 DEF TypeOK
  <1>3. \A a \in Plain : cmosram[a] = file[a]
    BY <1>2, AdjustedPlain DEF Init
  <1>4. oldscl = 0 /\ oldsda = 0 /\ i2cdata = 1 /\ state = "IDLE" /\ reg_address = 0
    BY DEF Init
  <1>5. FrameOf = "idle" /\ PosOf = 0 /\ ByteOf = 0 /\ Expects = "pointer"
    BY <1>4 DEF FrameOf, PosOf, ByteOf, Expects
  <1>. QED BY <1>2, <1>3, <1>4, <1>5, SameOperators DEF Expects, Memory!Init

LEMMA MapRestart ==
  ASSUME BusInv, Restart
  PROVE  Memory!Restart
  <1>1. file' = file /\ file \in Ram /\ cmosram' \in Ram
    BY BusRestart DEF Restart, BusInv, TypeOK
  <1>2. \A a \in Plain : cmosram'[a] = file[a]
    BY <1>1, AdjustedPlain DEF Restart
  <1>3. oldscl' = 0 /\ oldsda' = 0 /\ i2cdata' = 1 /\ state' = "IDLE" /\ reg_address' = 0
    BY DEF Restart, reset_serdes
  <1>4. FrameOf' = "idle" /\ PosOf' = 0 /\ ByteOf' = 0 /\ Expects' = "pointer"
    BY <1>3 DEF FrameOf, PosOf, ByteOf, Expects
  <1>. QED BY <1>1, <1>2, <1>3, <1>4, SameOperators DEF Expects, Memory!Restart, Memory!Enter

LEMMA MapStutter == UNCHANGED vars => UNCHANGED Memory!vars
  BY DEF vars, serdes, pcf, Memory!vars, Memory!line, Memory!store, FrameOf, PosOf, ByteOf

\* The serialiser of cmos.c and the PCF8583 behind it are a memory on an I2C
\* bus, for every width of a byte: every step of theirs is one of I2cMemory.
THEOREM ByteMemoryImplemented == Spec => ByteMemory
  <1>1. BusInv /\ [Next]_vars => [Memory!Next]_(Memory!vars)
    <2>. SUFFICES ASSUME BusInv, [Next]_vars PROVE Memory!Next \/ UNCHANGED Memory!vars
      OBVIOUS
    <2>1. CASE Restart
      BY <2>1, MapRestart DEF Memory!Next
    <2>2. CASE \E c, d \in 0 .. 1 : cmosi2cchange(c, d)
      BY <2>2, MapBus
    <2>3. CASE UNCHANGED vars
      BY <2>3, MapStutter
    <2>. QED BY <2>1, <2>2, <2>3 DEF Next
  <1>. QED BY <1>1, MapInit, BusInvariant, PTL DEF Spec, ByteMemory, Memory!Spec
=============================================================================
