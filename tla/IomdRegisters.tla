--------------------------- MODULE IomdRegisters ---------------------------
(***************************************************************************)
(* The registers of the IOMD that only hold what the guest writes, on the   *)
(* four variants of the chip (iomd_write, iomd_read).  What a register does *)
(* besides - interrupts, timers, the I2C bus, PS/2 - is in other modules.   *)
(***************************************************************************)
EXTENDS Integers

CONSTANTS Held, Words   \* the registers and the values a behaviour uses

\* How wide the fields of struct iomd are, by register.
Bytes == {"ROMCR0", "ROMCR1", "VREFCR", "IOTCR", "ECTCR", "DMAEXT", "SUSMODE", "CLKCTL",
          "VIDIMUX", "DRAMWID", "SELFREF", "VIDCR"}
Halves == {"MOUSEX", "MOUSEY"}
DmaAddresses == {"VIDCUR", "VIDEND", "VIDSTART"}
Nothing == {"IOLINES", "DRAMCR", "FSIZE", "ATODICR", "SD0CURA", "SD0CR", "CURSCUR", "DMAST", "IRQRQD"}

ASSUME RegistersAssumption ==
    /\ Held \subseteq Bytes \cup Halves \cup DmaAddresses \cup {"VIDINIT"} \cup Nothing
    /\ Words \subseteq Nat

VARIABLES type, store, written
rvars == <<type, store, written>>

Types == {"IOMD", "ARM7500", "ARM7500FE", "IOMD2"}
On7500 == {"SUSMODE", "CLKCTL", "VIDIMUX", "DRAMWID", "SELFREF"}
OnIomd == {"MOUSEX", "MOUSEY", "DMAEXT"}

\* The variants that have a register.
Has(t, r) == /\ r \notin Nothing
             /\ r \in On7500 => t \in {"ARM7500", "ARM7500FE"}
             /\ r \in OnIomd => t = "IOMD"

\* A field keeps the low bits it has room for; of a DMA address the chip
\* ignores the quad word, and but for VIDINIT the top three bits (0x1ffffff0).
Kept(r, v) == IF r \in Bytes THEN v % 256
              ELSE IF r \in Halves THEN v % 65536
              ELSE IF r \in DmaAddresses THEN 16 * ((v % 536870912) \div 16)
              ELSE 16 * (v \div 16)

\* Mutant of iomd_write: what a field has no room for is kept.
iomd_write_KeepsBits(r, v) ==
    /\ store' = IF Has(type, r) THEN [store EXCEPT ![r] = v] ELSE store
    /\ written' = [written EXCEPT ![r] = v]
    /\ UNCHANGED type

iomd_write(r, v) ==
    /\ store' = IF Has(type, r) THEN [store EXCEPT ![r] = Kept(r, v)] ELSE store
    /\ written' = [written EXCEPT ![r] = v]     \* what the guest believes
    /\ UNCHANGED type

\* DMAEXT answers on every chip that is not an ARM7500.
Answers(t, r) == IF r = "DMAEXT" THEN t \notin {"ARM7500", "ARM7500FE"} ELSE Has(t, r)

\* The video DMA control reads with its enable and direction bits set (0x50).
With(v, bit) == IF (v \div bit) % 2 = 1 THEN v ELSE v + bit
Shown(r, v) == IF r = "VIDCR" THEN With(With(v, 16), 64) ELSE v

iomd_read(r) == IF Answers(type, r) THEN Shown(r, store[r]) ELSE 0

RomCr == 64     \* 0x40, sixteen bits and the slowest access
Power(t, r) == IF r \in {"ROMCR0", "ROMCR1"} THEN RomCr
               ELSE IF r = "VREFCR" /\ t \in {"ARM7500", "ARM7500FE"} THEN 1 ELSE 0

RegistersInit ==
    /\ type \in Types
    /\ store = [r \in Held |-> Power(type, r)]
    /\ written = store

RegistersNext == \E r \in Held, v \in Words : iomd_write(r, v)
=============================================================================
