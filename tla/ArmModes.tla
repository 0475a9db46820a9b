------------------------------ MODULE ArmModes ------------------------------
(***************************************************************************)
(* Registers, modes and exceptions of the interpreter (arm.c,              *)
(* arm_common.h). Instructions work on one array of live registers:        *)
(* updatemode copies registers out to the banks of the old mode and in     *)
(* from those of the new one, points usrregs at the User registers, and    *)
(* moves the status between R15 and reg[16] when the width changes. The    *)
(* flags are wherever cpsr says (15 or 16); reg[16] keeps stale fields     *)
(* while the status is in R15. Multiplies, MRS, MRC and base writeback     *)
(* write R15 without updatemode, so that in a 26-bit mode its mode bits    *)
(* may run ahead of arm.mode. ArmBanks is what all this must look like.    *)
(*                                                                         *)
(* An operator whose name has a capitalised suffix is a wrong form of the  *)
(* one it precedes, used only by the mutants of PROJECT.json.              *)
(***************************************************************************)
EXTENDS ArmTypes

CONSTANTS
    ResetPc,        \* the address field of 0x0c000008
    ResetProg32     \* prog32 after cp15_reset: set for the SA110 the build uses

ASSUME ResetAssumption == ResetPc \in Pcs /\ ResetProg32 \in BOOLEAN

VARIABLES
    arm,            \* ARMState with usrregs, cpsr and memmode
    prog32          \* the PROG32 bit of the cp15 control register

vars == <<arm, prog32>>

\* arm.reg[0..14] is reg, arm.reg[15] is r15 and arm.reg[16] is r16. The banks
\* user_reg, fiq_reg, irq_reg, ... are banked[b]. cpsr also stands for pcpsr,
\* mmask and r15_mask, which updatemode sets with it.
ArmType ==
    [reg : [Regs -> Word], r15 : Word, r16 : Psr, mode : Modes,
     banked : [Banks -> [Regs -> Word]], spsr : [Nibbles -> Psr],
     usrregs : [Regs -> {"reg", "user_reg"}], cpsr : {15, 16}, memmode : 0 .. 1]

TypeOK == arm \in ArmType /\ prog32 \in BOOLEAN

-----------------------------------------------------------------------------
\* The two switches of updatemode, by the low four bits of the mode: the
\* registers exchanged with bank b, and those usrregs finds in user_reg.
Exchanged(n, b) ==
    IF n \in {USER, SYSTEM} THEN IF b = USER THEN FiqBanked \cup Banked ELSE {}
    ELSE IF n = FIQ         THEN IF b = FIQ THEN FiqBanked \cup Banked ELSE {}
    ELSE CASE b = USER -> FiqBanked
           [] b = n    -> Banked
           [] OTHER    -> {}

\* Mutant: FIQ mode leaves usrregs on the live R8 to R12.
Hidden_FiqShared(n) == IF n \in {USER, SYSTEM} THEN {} ELSE Banked

Hidden(n) ==
    CASE n \in {USER, SYSTEM} -> {}
      [] n = FIQ              -> FiqBanked \cup Banked
      [] OTHER                -> Banked

\* Mutant: FIQ mode forgets to save its own registers.
StoreBack_NotFiq(a) ==
    [b \in Banks |-> [c \in Regs |->
        IF c \in Exchanged(Nibble(a.mode), b) /\ b # FIQ THEN a.reg[c] ELSE a.banked[b][c]]]

StoreBack(a) ==
    [b \in Banks |-> [c \in Regs |->
        IF c \in Exchanged(Nibble(a.mode), b) THEN a.reg[c] ELSE a.banked[b][c]]]

LoadBanks(reg, banked, n) ==
    [c \in Regs |-> IF c \in Exchanged(n, USER) THEN banked[USER][c]
                    ELSE IF c \in Exchanged(n, n) THEN banked[n][c] ELSE reg[c]]

\* The status moves between R15 and reg[16] when the width changes.
R15After(a, m) ==
    IF ARM_MODE_32(m)
    THEN IF ARM_MODE_32(a.mode) THEN a.r15 ELSE [ZeroWord EXCEPT !.pc = a.r15.pc]
    ELSE IF ARM_MODE_32(a.mode)
         THEN [nzcv |-> a.r16.nzcv, ints |-> a.r16.ints, pc |-> a.r15.pc, m |-> m]
         ELSE a.r15

R16After(a, m) ==
    IF ARM_MODE_32(m) /\ ~ARM_MODE_32(a.mode)
    THEN [nzcv |-> a.r15.nzcv, ints |-> a.r15.ints, mode |-> m]
    ELSE IF ARM_MODE_32(m) THEN a.r16 ELSE [a.r16 EXCEPT !.mode = m]

updatemode(a, m) ==
    LET banked == StoreBack(a) IN
    [a EXCEPT !.banked  = banked,
              !.mode    = m,
              !.reg     = LoadBanks(a.reg, banked, Nibble(m)),
              !.usrregs = [c \in Regs |-> IF c \in Hidden(Nibble(m)) THEN "user_reg" ELSE "reg"],
              !.cpsr    = IF ARM_MODE_32(m) THEN 16 ELSE 15,
              !.r15     = R15After(a, m),
              !.r16     = R16After(a, m),
              !.memmode = IF ARM_MODE_PRIV(m) THEN 1 ELSE 0]

\* "if ((arm.reg[cpsr] & arm.mmask) != arm.mode) updatemode(...)"
ModeBits(a) == IF a.cpsr = 16 THEN a.r16.mode ELSE a.r15.m

Reconsider(a) == IF ModeBits(a) # a.mode THEN updatemode(a, ModeBits(a)) ELSE a

-----------------------------------------------------------------------------
\* Zeroed memory, SVC26 with interrupts masked, and "SUPERVISOR | 0xd0" in
\* reg[16], which has the 32-bit mode bit set: before the first MRS rebuilds
\* reg[16] from R15, an MSR of the flags alone enters 32-bit Supervisor mode.
Init ==
    /\ arm = [reg     |-> [c \in Regs |-> ZeroWord],
              r15     |-> [nzcv |-> 0, ints |-> IntBits, pc |-> ResetPc, m |-> SUPERVISOR],
              r16     |-> [nzcv |-> 0, ints |-> IntBits, mode |-> 16 + SUPERVISOR],
              mode    |-> SUPERVISOR,
              banked  |-> [b \in Banks |-> [c \in Regs |-> ZeroWord]],
              spsr    |-> [n \in Nibbles |-> ZeroPsr],
              usrregs |-> [c \in Regs |-> IF c \in Hidden(SUPERVISOR) THEN "user_reg" ELSE "reg"],
              cpsr    |-> 15,
              memmode |-> 1]
    /\ prog32 = ResetProg32

-----------------------------------------------------------------------------
\* Instructions. A register write is that of any data-processing, load,
\* multiply or coprocessor instruction with a destination below R15. One that
\* sets flags or writes back its base as well is two of these steps.
WriteReg(c, w) ==
    /\ arm' = [arm EXCEPT !.reg[c] = w]
    /\ UNCHANGED prog32

\* A register loaded by an LDM with the S bit and without R15.
LoadUserBank(c, w) ==
    /\ arm' = IF arm.usrregs[c] = "reg" THEN [arm EXCEPT !.reg[c] = w]
                                        ELSE [arm EXCEPT !.banked[USER][c] = w]
    /\ UNCHANGED prog32

\* A branch, a load or a data-processing result without the S bit to R15:
\* the bits outside r15_mask keep their values.
Jumped(w) == [w EXCEPT !.m    = arm.r15.m,
                       !.nzcv = IF ARM_MODE_32(arm.mode) THEN @ ELSE arm.r15.nzcv,
                       !.ints = IF ARM_MODE_32(arm.mode) THEN @ ELSE arm.r15.ints]

WritePc(w) ==
    /\ arm' = [arm EXCEPT !.r15 = Jumped(w)]
    /\ UNCHANGED prog32

\* Multiplies and MRS with R15 as the destination, and the writeback of a base
\* that is R15, store the whole word. No mode and no privilege is looked at.
WriteR15(w) ==
    /\ arm' = [arm EXCEPT !.r15 = w]
    /\ UNCHANGED prog32

\* MRC to R15: the bits outside r15_mask come from the coprocessor.
CoprocessorR15(w) ==
    /\ arm' = [arm EXCEPT !.r15 = IF ARM_MODE_32(arm.mode) THEN [@ EXCEPT !.m = w.m]
                                                           ELSE [w EXCEPT !.pc = arm.r15.pc]]
    /\ UNCHANGED prog32

BranchLink(w) ==
    /\ arm' = [arm EXCEPT !.reg[Link] = arm.r15, !.r15 = Jumped(w)]
    /\ UNCHANGED prog32

\* setadd, setsub, setzn and the others write the flags of reg[cpsr].
SetFlags(f) ==
    /\ arm' = IF arm.cpsr = 16 THEN [arm EXCEPT !.r16.nzcv = f] ELSE [arm EXCEPT !.r15.nzcv = f]
    /\ UNCHANGED prog32

\* "Copy SPSR of current mode to CPSR"
CopySpsr(a) == [a EXCEPT !.r16 = a.spsr[Nibble(a.mode)]]

arm_write_r15(w) ==
    LET written ==
          IF ARM_MODE_32(arm.mode) THEN [w EXCEPT !.m = arm.r15.m]
          ELSE IF ARM_MODE_PRIV(arm.mode) THEN w
          ELSE [w EXCEPT !.ints = arm.r15.ints, !.m = arm.r15.m]
        a == [arm EXCEPT !.r15 = written] IN
    /\ arm' = IF ~ARM_MODE_PRIV(arm.mode) THEN a
              ELSE Reconsider(IF ARM_MODE_32(arm.mode) THEN CopySpsr(a) ELSE a)
    /\ UNCHANGED prog32

arm_compare_rd15(w) ==
    LET psrBits ==
          IF ARM_MODE_PRIV(arm.mode) THEN [w EXCEPT !.pc = arm.r15.pc]
                                     ELSE [arm.r15 EXCEPT !.nzcv = w.nzcv]
        a == IF ~ARM_MODE_32(arm.mode) THEN [arm EXCEPT !.r15 = psrBits]
             ELSE IF ARM_MODE_PRIV(arm.mode) THEN CopySpsr(arm) ELSE arm IN
    /\ arm' = Reconsider(a)
    /\ UNCHANGED prog32

\* MRS from CPSR: in a 26-bit mode reg[16] is rebuilt from R15 first.
ReadCpsr ==
    /\ arm' = IF ARM_MODE_32(arm.mode) THEN arm
              ELSE [arm EXCEPT !.r16 = [nzcv |-> arm.r15.nzcv, ints |-> arm.r15.ints,
                                        mode |-> arm.r15.m]]
    /\ UNCHANGED prog32

\* The fields fs ("f" flags, "c" control) of p replaced by those of q.
Fields(fs, p, q) ==
    [nzcv |-> IF "f" \in fs THEN q.nzcv ELSE p.nzcv,
     ints |-> IF "c" \in fs THEN q.ints ELSE p.ints,
     mode |-> IF "c" \in fs THEN q.mode ELSE p.mode]

\* The R15 of a 26-bit mode with the fields fs of q.
FieldsR15(fs, w, q) ==
    [w EXCEPT !.nzcv = IF "f" \in fs THEN q.nzcv ELSE @,
              !.ints = IF "c" \in fs THEN q.ints ELSE @,
              !.m    = IF "c" \in fs THEN q.mode % 4 ELSE @]

\* Mutant: User mode may write the control field.
arm_write_cpsr_Unprivileged(fields, q) ==
    LET a  == [arm EXCEPT !.r16 = Fields(fields, @, q),
                          !.r15 = IF ARM_MODE_32(arm.mode) THEN @ ELSE FieldsR15(fields, @, q)] IN
    /\ arm' = IF a.r16.mode # arm.mode THEN updatemode(a, a.r16.mode) ELSE a
    /\ UNCHANGED prog32

\* MSR to CPSR. The mode compared is that of reg[16] in every mode.
arm_write_cpsr(fields, q) ==
    LET fs == IF ARM_MODE_PRIV(arm.mode) THEN fields ELSE fields \ {"c"}
        a  == [arm EXCEPT !.r16 = Fields(fs, @, q),
                          !.r15 = IF ARM_MODE_32(arm.mode) THEN @ ELSE FieldsR15(fs, @, q)] IN
    /\ arm' = IF a.r16.mode # arm.mode THEN updatemode(a, a.r16.mode) ELSE a
    /\ UNCHANGED prog32

arm_write_spsr(fields, q) ==
    /\ ARM_MODE_HAS_SPSR(arm.mode)
    /\ arm' = [arm EXCEPT !.spsr[Nibble(arm.mode)] = Fields(fields, @, q)]
    /\ UNCHANGED prog32

-----------------------------------------------------------------------------
\* The three ways exception enters kind k from state a.
Exception32(a, k) ==
    LET b == updatemode([a EXCEPT !.spsr[k] = a.r16], 16 + k) IN
    [b EXCEPT !.reg[Link] = a.r15,
              !.r16.mode  = 16 + k,
              !.r16.ints  = @ \cup irq_disable(k),
              !.r15       = [ZeroWord EXCEPT !.pc = Vector[k]]]

ExceptionTo32(a, k) ==
    LET b == updatemode(a, 16 + k) IN
    [b EXCEPT !.reg[Link] = [ZeroWord EXCEPT !.pc = a.r15.pc],
              !.spsr[k]   = [b.r16 EXCEPT !.mode = a.r15.m],
              !.r16.ints  = @ \cup irq_disable(k),
              !.r15       = [ZeroWord EXCEPT !.pc = Vector[k]]]

Exception26(a, k) ==
    LET b == updatemode([a EXCEPT !.r15.m = 3], IF k >= SUPERVISOR THEN SUPERVISOR ELSE k) IN
    [b EXCEPT !.reg[Link] = a.r15,
              !.r15.pc    = Vector[k],
              !.r15.ints  = @ \cup irq_disable(k)]

exception(a, k) ==
    IF ARM_MODE_32(a.mode) THEN Exception32(a, k)
    ELSE IF prog32 THEN ExceptionTo32(a, k) ELSE Exception26(a, k)

\* SWI and undefined instructions raise their exception while they execute.
Raise(k) ==
    /\ k \in {SUPERVISOR, UNDEFINED}
    /\ arm' = exception(arm, k)
    /\ UNCHANGED prog32

\* After an instruction with armirq set: the masks of R15 are copied to
\* reg[16] in a 26-bit mode, then an abort, an unmasked FIQ or IRQ is taken.
Dispatch(k) ==
    LET a == IF ARM_MODE_32(arm.mode) THEN arm ELSE [arm EXCEPT !.r16.ints = arm.r15.ints]
        masked == (k = FIQ /\ "F" \in a.r16.ints) \/ (k = IRQ /\ "I" \in a.r16.ints) IN
    /\ k \in {ABORT, FIQ, IRQ}
    /\ arm' = IF masked THEN a ELSE exception(a, k)
    /\ UNCHANGED prog32

\* cp15_write to the control register: clearing PROG32 leaves a 32-bit mode.
\* Guests clear it in modes that have a 26-bit form.
Control(on) ==
    /\ on \/ Nibble(arm.mode) \in {USER, FIQ, IRQ, SUPERVISOR}
    /\ prog32' = on
    /\ arm' = IF ~on /\ ARM_MODE_32(arm.mode) THEN updatemode(arm, Nibble(arm.mode)) ELSE arm

Next ==
    \/ \E c \in Regs, w \in Values : WriteReg(c, w) \/ LoadUserBank(c, w)
    \/ \E w \in Values : WritePc(w) \/ BranchLink(w) \/ arm_write_r15(w) \/ arm_compare_rd15(w)
    \/ \E w \in Values : WriteR15(w) \/ CoprocessorR15(w)
    \/ \E f \in Flags : SetFlags(f)
    \/ ReadCpsr
    \/ \E fs \in {{"c"}, {"f"}, {"c", "f"}}, q \in Psrs : arm_write_cpsr(fs, q) \/ arm_write_spsr(fs, q)
    \/ \E k \in Kinds : Raise(k) \/ Dispatch(k)
    \/ \E on \in BOOLEAN : Control(on)

Spec == Init /\ [][Next]_vars

-----------------------------------------------------------------------------
\* What the emulator's registers stand for. A User register is the one usrregs
\* points at; the registers of the current banks are live in reg.
Live(mode, c) == IF c \in Banked \/ (c \in FiqBanked /\ Nibble(mode) = FIQ)
                 THEN BankOf(mode) ELSE USER

CellOf(a) ==
    [b \in Banks |-> [c \in Regs |->
        IF b = USER THEN IF a.usrregs[c] = "reg" THEN a.reg[c] ELSE a.banked[USER][c]
        ELSE IF b = Live(a.mode, c) THEN a.reg[c] ELSE a.banked[b][c]]]

PsrOf(a) == IF a.cpsr = 16 THEN a.r16
            ELSE [nzcv |-> a.r15.nzcv, ints |-> a.r15.ints, mode |-> a.r15.m]

PcOf(a) == IF a.cpsr = 16 THEN a.r15 ELSE [ZeroWord EXCEPT !.pc = a.r15.pc]

Abstract == INSTANCE ArmBanks WITH
    cell <- CellOf(arm), mode <- arm.mode, psr <- PsrOf(arm), noted <- arm.r16.mode,
    spsr <- arm.spsr, pc <- PcOf(arm)

\* The live registers, the banks and usrregs, R15 and reg[16] together behave
\* as a register file in which each bank has its own cells and a mode change
\* moves nothing, for every sequence of instructions and exceptions. That covers
\* the instructions that write the status in R15 behind updatemode's back: their
\* mode bits have no effect before the next TEQP, S-bit write, or MRS and MSR.
RegisterFile == Abstract!Spec

\* The status is where cpsr says, usrregs reaches the User registers, and memory
\* accesses have the privilege of the mode the banks are switched to. In a 32-bit
\* mode the status names that mode; in a 26-bit mode it need not.
StatusIn(a) ==
    /\ a.cpsr = IF ARM_MODE_32(a.mode) THEN 16 ELSE 15
    /\ ARM_MODE_32(a.mode) => a.r16.mode = a.mode
    /\ a.memmode = IF ARM_MODE_PRIV(a.mode) THEN 1 ELSE 0
UserIn(a) == \A c \in Regs : a.usrregs[c] = "reg" <=> Live(a.mode, c) = USER

\* updatemode's copies of the mode stay together through every mode change,
\* exception, and change of width, and whatever is written to R15: cpsr, usrregs
\* and memmode, and in 32-bit modes reg[16].
BanksSwitched == StatusIn(arm) /\ UserIn(arm)

\* The privileged modes the next instruction could put in force.
Privileges(a) == {m \in {a.mode, ModeBits(a), a.r16.mode} : ARM_MODE_PRIV(m)}

\* From User mode a privileged mode is reached, and the interrupt masks change,
\* only by entering an exception at its vector, with its interrupts masked. The
\* exception to this in the code is a 26-bit mode: a multiply, MRS, MRC or
\* writeback to R15 changes the masks at once and names a mode, which a later
\* instruction puts in force. No other instruction adds to what is named.
UserModeConfined ==
    [][ ~ARM_MODE_PRIV(arm.mode) =>
          \/ PsrOf(arm').ints = PsrOf(arm).ints /\ Privileges(arm') \subseteq Privileges(arm)
          \/ \E k \in Kinds :
                /\ PcOf(arm') = [ZeroWord EXCEPT !.pc = Vector[k]]
                /\ PsrOf(arm').ints = PsrOf(arm).ints \cup irq_disable(k)
                /\ arm'.mode \in {k, 16 + k, SUPERVISOR}
          \/ /\ ~ARM_MODE_32(arm.mode) /\ arm'.mode = arm.mode
             /\ \E w \in Values : WriteR15(w) \/ CoprocessorR15(w) ]_vars
=============================================================================
