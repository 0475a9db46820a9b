------------------------------ MODULE ArmBanks ------------------------------
(***************************************************************************)
(* The register file the emulated ARM promises its guest: one cell for     *)
(* each register of each bank, a saved status register for each exception, *)
(* the current status and the address of the next instruction. A mode      *)
(* change moves nothing: it only changes which cells the names R8 to R14   *)
(* mean. ArmModes implements this with one array of live registers.        *)
(*                                                                         *)
(* In a 26-bit mode the status is part of R15, and some instructions write *)
(* R15 like any register. The mode its bits name is then not the mode in   *)
(* force, until an instruction that can change the mode acts on them. An   *)
(* MSR acts on the mode an MRS or an earlier change of mode has noted.     *)
(***************************************************************************)
EXTENDS ArmTypes

VARIABLES
    cell,       \* cell[b][c]: register c of bank b
    mode,       \* the mode in force: whose cells and whose privilege are used
    psr,        \* the current status, with the mode it names
    noted,      \* the mode an MSR without the control field returns to
    spsr,       \* spsr[n]: the saved status of mode nibble n
    pc,         \* the address of the next instruction, a word
    prog32      \* exceptions enter 32-bit modes

vars == <<cell, mode, psr, noted, spsr, pc, prog32>>

\* The bank register c belongs to while the processor is in mode m.
Home(m, c) ==
    IF c \in Banked \/ (c \in FiqBanked /\ Nibble(m) = FIQ) THEN BankOf(m) ELSE USER

\* An address as wide as the modes of its kind allow.
Clip(m, w) == IF ARM_MODE_32(m) THEN w ELSE [ZeroWord EXCEPT !.pc = w.pc]

\* The status a 26-bit R15 holds, and R15 as an operand.
StatusIn(w) == [nzcv |-> w.nzcv, ints |-> w.ints, mode |-> w.m]
R15 == IF ARM_MODE_32(mode) THEN pc
       ELSE [nzcv |-> psr.nzcv, ints |-> psr.ints, pc |-> pc.pc, m |-> psr.mode]

Init(resetPc, on) ==
    /\ cell = [b \in Banks |-> [c \in Regs |-> ZeroWord]]
    /\ mode = SUPERVISOR
    /\ psr = [nzcv |-> 0, ints |-> IntBits, mode |-> SUPERVISOR]
    /\ noted = 16 + SUPERVISOR
    /\ spsr = [n \in Nibbles |-> ZeroPsr]
    /\ pc = [ZeroWord EXCEPT !.pc = resetPc]
    /\ prog32 = on

Write(c, w) ==
    /\ cell' = [cell EXCEPT ![Home(mode, c)][c] = w]
    /\ UNCHANGED <<mode, psr, noted, spsr, pc, prog32>>

WriteUser(c, w) ==
    /\ cell' = [cell EXCEPT ![USER][c] = w]
    /\ UNCHANGED <<mode, psr, noted, spsr, pc, prog32>>

\* The address after a jump to w: its low two bits do not change.
Target(w) == Clip(mode, [w EXCEPT !.m = pc.m])

Jump(w) ==
    /\ pc' = Target(w)
    /\ UNCHANGED <<cell, mode, psr, noted, spsr, prog32>>

Call(w) ==
    /\ cell' = [cell EXCEPT ![Home(mode, Link)][Link] = R15]
    /\ pc' = Target(w)
    /\ UNCHANGED <<mode, psr, noted, spsr, prog32>>

SetFlags(f) ==
    /\ psr' = [psr EXCEPT !.nzcv = f]
    /\ UNCHANGED <<cell, mode, noted, spsr, pc, prog32>>

\* All of R15 is written, like a register without special bits.
Overwrite(w) ==
    /\ psr' = IF ARM_MODE_32(mode) THEN psr ELSE StatusIn(w)
    /\ pc' = Clip(mode, w)
    /\ UNCHANGED <<cell, mode, noted, spsr, prog32>>

\* The bits of R15 beside the address are written.
OverwriteStatus(w) ==
    /\ psr' = IF ARM_MODE_32(mode) THEN psr ELSE StatusIn(w)
    /\ pc' = IF ARM_MODE_32(mode) THEN [pc EXCEPT !.m = w.m] ELSE pc
    /\ UNCHANGED <<cell, mode, noted, spsr, prog32>>

\* The mode the new status names comes into force.
Settle ==
    /\ mode' = psr'.mode
    /\ noted' = IF mode' = mode THEN noted ELSE mode'

\* The status after an instruction that names R15 with its P or S flag: the
\* saved status in 32-bit modes, the fields of w in 26-bit modes, of which
\* User mode keeps the flags only.
Restored(w) ==
    IF ARM_MODE_32(mode)
    THEN IF ARM_MODE_PRIV(mode) THEN spsr[Nibble(mode)] ELSE psr
    ELSE IF ARM_MODE_PRIV(mode) THEN StatusIn(w) ELSE [psr EXCEPT !.nzcv = w.nzcv]

Return(w) ==
    /\ psr' = Restored(w)
    /\ IF ARM_MODE_PRIV(mode) THEN Settle ELSE UNCHANGED <<mode, noted>>
    /\ pc' = Clip(mode', Target(w))
    /\ UNCHANGED <<cell, spsr, prog32>>

Compare(w) ==
    /\ psr' = Restored(w)
    /\ Settle
    /\ pc' = Clip(mode', pc)
    /\ UNCHANGED <<cell, spsr, prog32>>

Note ==
    /\ noted' = psr.mode
    /\ UNCHANGED <<cell, mode, psr, spsr, pc, prog32>>

\* p with the fields fs of q.
Merge(fs, p, q) ==
    [nzcv |-> IF "f" \in fs THEN q.nzcv ELSE p.nzcv,
     ints |-> IF "c" \in fs THEN q.ints ELSE p.ints,
     mode |-> IF "c" \in fs THEN q.mode ELSE p.mode]

\* Without the control field the mode noted comes into force. It is not
\* written to the status unless it is a 32-bit mode.
WriteCpsr(fields, q) ==
    LET fs == IF ARM_MODE_PRIV(mode) THEN fields ELSE fields \ {"c"} IN
    /\ mode' = IF "c" \in fs THEN q.mode ELSE noted
    /\ noted' = mode'
    /\ psr' = [Merge(fs, psr, q) EXCEPT !.mode = IF ARM_MODE_32(mode') THEN mode' ELSE @]
    /\ pc' = Clip(mode', pc)
    /\ UNCHANGED <<cell, spsr, prog32>>

WriteSpsr(fs, q) ==
    /\ ARM_MODE_HAS_SPSR(mode)
    /\ spsr' = [spsr EXCEPT ![Nibble(mode)] = Merge(fs, @, q)]
    /\ UNCHANGED <<cell, mode, psr, noted, pc, prog32>>

\* Mode m comes into force by an exception of kind k; R15 names mode n.
Enter(m, n, k) ==
    /\ mode' = m
    /\ noted' = m
    /\ psr' = [nzcv |-> psr.nzcv, ints |-> psr.ints \cup irq_disable(k), mode |-> n]
    /\ pc' = [ZeroWord EXCEPT !.pc = Vector[k]]

\* Entry through a 32-bit vector saves the whole status.
Enter32(k) ==
    /\ ARM_MODE_32(mode) \/ prog32
    /\ Enter(16 + k, 16 + k, k)
    /\ spsr' = [spsr EXCEPT ![k] = psr]
    /\ cell' = [cell EXCEPT ![Home(16 + k, Link)][Link] = pc]
    /\ UNCHANGED prog32

\* Entry through a 26-bit vector saves the status in R14 with the address.
\* Aborts and undefined instructions enter Supervisor mode. R15 names it after
\* an FIQ or IRQ too.
Enter26(k) ==
    LET m == IF k \in {FIQ, IRQ} THEN k ELSE SUPERVISOR IN
    /\ ~ARM_MODE_32(mode) /\ ~prog32
    /\ Enter(m, SUPERVISOR, k)
    /\ cell' = [cell EXCEPT ![Home(m, Link)][Link] = R15]
    /\ UNCHANGED <<spsr, prog32>>

Configure(on) ==
    /\ prog32' = on
    /\ IF ~on /\ ARM_MODE_32(mode)
       THEN mode' = Nibble(mode) /\ noted' = mode' /\ psr' = [psr EXCEPT !.mode = mode']
       ELSE UNCHANGED <<mode, noted, psr>>
    /\ pc' = Clip(mode', pc)
    /\ UNCHANGED <<cell, spsr>>

Next ==
    \/ \E c \in Regs, w \in Values : Write(c, w) \/ WriteUser(c, w)
    \/ \E w \in Values : Jump(w) \/ Call(w) \/ Return(w) \/ Compare(w)
    \/ \E w \in Values : Overwrite(w) \/ OverwriteStatus(w)
    \/ \E f \in Flags : SetFlags(f)
    \/ Note
    \/ \E fs \in {{"c"}, {"f"}, {"c", "f"}}, q \in Psrs : WriteCpsr(fs, q) \/ WriteSpsr(fs, q)
    \/ \E k \in Kinds : Enter32(k) \/ Enter26(k)
    \/ \E on \in BOOLEAN : Configure(on)

Spec == (\E p \in Pcs, on \in BOOLEAN : Init(p, on)) /\ [][Next]_vars
=============================================================================
