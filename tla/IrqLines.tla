------------------------------ MODULE IrqLines ------------------------------
(***************************************************************************)
(* The interrupt registers of the IOMD and the word armirq through which    *)
(* they reach the processor.  A bit belongs to one of the groups A, B, D,   *)
(* DMA and FIQ; status and mask hold the bits that are 1 over all groups.   *)
(***************************************************************************)
EXTENDS Integers

CONSTANTS Bits, Group       \* the interrupt bits, and the group of each
ASSUME GroupAssumption == Group \in [Bits -> {"A", "B", "D", "DMA", "FIQ"}]

VARIABLES status, mask, armirq

lines == <<status, mask, armirq>>

\* IOMD_IRQA_FORCE_BIT and IOMD_FIQ_FORCE_BIT are never 0.
Forced == Bits \cap {"FORCE", "FIQ_FORCE"}

Of(group) == {b \in Bits : Group[b] = group}

\* The groups of a line of the processor.
Feeding(line) == {b \in Bits : (Group[b] = "FIQ") = (line = "fiq")}
Pending(line) == status \cap mask \cap Feeding(line) # {}

\* What updateirqs makes of armirq, given the registers as they are then.
Updated(s, m, a) ==
    (a \ {"irq", "fiq"}) \cup {l \in {"irq", "fiq"} : s \cap m \cap Feeding(l) # {}}

\* A handler that nothing comes between: new registers, then updateirqs.
Update(s) == status' = s /\ armirq' = Updated(s, mask, armirq) /\ UNCHANGED mask

\* iomd_reset: the forced bits, no masks; armirq is left as it is.
LinesInit == status = Forced /\ mask = {} /\ armirq = {}
=============================================================================
