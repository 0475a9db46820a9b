----------------------------- MODULE CmosTypes -----------------------------
(***************************************************************************)
(* Bytes and memory of the I2C bus, shared by the promise (I2cMemory) and  *)
(* the emulator's state machine (Cmos).                                    *)
(***************************************************************************)
EXTENDS Naturals

CONSTANTS
    Bits,       \* bits of a byte (8)
    Device,     \* the bus address of the PCF8583 (0x50)
    Registers,  \* the addresses that are registers of the clock (0 .. 15)
    Times,      \* what the clock may show: functions of some registers
    Commit,     \* the address whose store saves the memory (0x3f)
    Settings,   \* addresses a restart adjusts to the machine (0xc0, 0xc1, 0x5d)
    Words       \* bytes guests store, and bytes of the settings

ByteSize == 2 ^ Bits
Byte     == 0 .. ByteSize - 1
Ram      == [Byte -> Byte]
Plain    == Byte \ (Registers \cup {Commit} \cup Settings)

ASSUME BitsAssumption == Bits \in Nat /\ Bits >= 2 /\ ByteSize \in Nat \ {0}
ASSUME AddressAssumption == Registers \subseteq Byte /\ Settings \subseteq Byte /\ Commit \in Byte
ASSUME DataAssumption ==
    /\ Words \subseteq Byte
    /\ \A t \in Times : \E cells \in SUBSET Registers : t \in [cells -> Byte]

\* A byte with one more bit shifted in, in eight bits.
Shift(b, d) == (2 * b + d) % ByteSize
BitOf(b, n) == IF (b \div 2 ^ n) % 2 = 1 THEN 1 ELSE 0

\* The memory with the cells of t replaced: the registers of the clock at some
\* time, or the settings of the machine.
AtTime(m, t) == [a \in Byte |-> IF a \in DOMAIN t THEN t[a] ELSE m[a]]
=============================================================================
