------------------------------ MODULE ArmTypes ------------------------------
(***************************************************************************)
(* Words, status registers and modes of the emulated ARM, shared by the    *)
(* abstract register file (ArmBanks) and the emulator's (ArmModes).        *)
(*                                                                         *)
(* A register is one of three classes: one cell for all modes, a second    *)
(* cell for FIQ, or a cell for each bank. A word is kept as the four       *)
(* fields R15 has in a 26-bit mode: flags (bits 31-28), interrupt masks    *)
(* (27-26), address (25-2) and mode (1-0). In a 32-bit mode the top two    *)
(* are address bits. Addresses differ from the code's by the constant      *)
(* pipeline offset, and carries out of the address field are left out.     *)
(***************************************************************************)
EXTENDS Naturals

CONSTANTS
    Unbanked,       \* R0 to R7
    FiqBanked,      \* R8 to R12
    Banked,         \* R13 and R14
    Link,           \* R14
    Flags,          \* values of the NZCV field
    Pcs,            \* values of the address field
    NoPc,           \* the address field of the zero word
    Vector,         \* Vector[k]: the address of the vector of exception k
    Kinds,          \* exceptions that occur
    Values,         \* words the guest's instructions produce
    Psrs            \* status words the guest's instructions produce

USER       == 0
FIQ        == 1
IRQ        == 2
SUPERVISOR == 3
ABORT      == 7
UNDEFINED  == 11
SYSTEM     == 15

Exceptions == {FIQ, IRQ, SUPERVISOR, ABORT, UNDEFINED}
Nibbles    == Exceptions \cup {USER, SYSTEM}
Modes32    == {16 + n : n \in Nibbles}
Modes      == {USER, FIQ, IRQ, SUPERVISOR} \cup Modes32
Regs       == Unbanked \cup FiqBanked \cup Banked
IntBits    == {"I", "F"}

Word == [nzcv : Flags, ints : SUBSET IntBits, pc : Pcs, m : 0 .. 3]
Psr  == [nzcv : Flags, ints : SUBSET IntBits, mode : Modes]

ZeroWord == [nzcv |-> 0, ints |-> {}, pc |-> NoPc, m |-> 0]
ZeroPsr  == [nzcv |-> 0, ints |-> {}, mode |-> USER]

ASSUME RegsAssumption ==
    /\ Unbanked \cap FiqBanked = {} /\ Unbanked \cap Banked = {} /\ FiqBanked \cap Banked = {}
    /\ Link \in Banked
ASSUME DataAssumption ==
    /\ Flags \subseteq Nat /\ 0 \in Flags /\ NoPc \in Pcs
    /\ Vector \in [Exceptions -> Pcs]
ASSUME GuestAssumption == Kinds \subseteq Exceptions /\ Values \subseteq Word /\ Psrs \subseteq Psr

ARM_MODE_32(mode) == mode >= 16
Nibble(mode) == IF ARM_MODE_32(mode) THEN mode - 16 ELSE mode
ARM_MODE_PRIV(mode) == Nibble(mode) # USER
ARM_MODE_HAS_SPSR(mode) == ARM_MODE_PRIV(mode) /\ Nibble(mode) # SYSTEM

\* The interrupts an exception of kind k masks.
irq_disable(k) == IF k = FIQ THEN {"I", "F"} ELSE {"I"}

\* Banks are named by the mode that owns them. User and System share one.
Banks == Exceptions \cup {USER}
BankOf(mode) == IF Nibble(mode) = SYSTEM THEN USER ELSE Nibble(mode)
=============================================================================
