---- MODULE Transfers ----
(***************************************************************************)
(* The instructions that move registers to and from memory: LDR and STR    *)
(* in all their forms (bytes, user permissions, the halfwords of ARMv4)    *)
(* and LDM and STM, of arm.c and arm_common.c.  What is hard about them is *)
(* the data abort: RISC OS runs with pages that are not there, its abort   *)
(* handler fetches the page and executes the instruction again, and an     *)
(* instruction that has already moved some registers must then come to    *)
(* the same end.  The rules depend on the processor: an ARM610 or ARM710   *)
(* leaves the base written back and the handler takes that back, a         *)
(* StrongARM restores it.                                                  *)
(*                                                                         *)
(* The exception itself (its mode, its link register) is in ArmModes.  A   *)
(* word of memory stands for what one transfer moves, whatever its width;  *)
(* addresses and registers count such words modulo Modulus, as they count  *)
(* bytes modulo 2^32.                                                      *)
(***************************************************************************)
EXTENDS Integers, FiniteSets

CONSTANTS
    Registers,      \* the register numbers there are, 15 (the PC) among them
    Banked,         \* those of which User and Supervisor mode have one each
    Modulus,        \* the number of words that a register can address
    PageWords,      \* the words of a page
    Offsets,        \* the offsets of single transfers, in words
    Instructions,   \* the instructions that are executed
    Layouts,        \* how much of each page is accessible at first
    Machines,       \* the registers, banks and modes at first
    Contents,       \* what is in memory at first
    MaxTaken        \* bound: the pages the abort handler takes away

Words == 0..Modulus-1
Page(a) == a \div PageWords
Pages == {Page(a) : a \in Words}
Levels == {"none", "system", "readonly", "all"}
Modes == {"User", "Supervisor"}
Forms == {"multiple", "word", "half", "user"}

(* form: "user" is LDRT and its kin, "half" the ARMv4 forms.  list: the    *)
(* registers transferred, one of them for a single transfer.  up, pre, w   *)
(* and s are bits 23, 24, 21 and, for LDM and STM, 22 of the opcode.       *)
InstructionType == [load : BOOLEAN, form : Forms, list : SUBSET Registers \ {{}},
                    rn : Registers, offset : Offsets, up : BOOLEAN, pre : BOOLEAN,
                    w : BOOLEAN, s : BOOLEAN]
CpuType == [mode : Modes, spsr : Modes, memmode : BOOLEAN,
            reg : [Registers -> Words], hidden : [Banked -> Words]]
MemoryType == [Words -> Words]

(* A single transfer moves one register; it may not write the PC back.     *)
Sensible(i) ==
    /\ i.form # "multiple" => Cardinality(i.list) = 1 /\ ~i.s
    /\ i.form # "multiple" /\ i.rn = 15 => i.pre /\ ~i.w
    /\ i.form = "user" => ~i.pre

ASSUME RegistersAssumption ==
    /\ Registers \subseteq 0..15 /\ 15 \in Registers
    /\ Banked \subseteq Registers \ {15}
ASSUME MemoryAssumption ==
    /\ Modulus \in Nat \ {0} /\ PageWords \in Nat \ {0}
    /\ Cardinality(Registers) <= Modulus
    /\ Offsets \subseteq 0..Modulus
    /\ MaxTaken \in Nat
ASSUME InputsAssumption ==
    /\ Instructions \subseteq InstructionType
    /\ \A i \in Instructions : Sensible(i)
    /\ Layouts \subseteq [Pages -> Levels]
    /\ Machines \subseteq CpuType
    /\ \A c \in Machines : c.memmode = (c.mode # "User")
    /\ Contents \subseteq MemoryType

VARIABLES
    sa110,      \* abort_base_restored and stm_writeback_at_end, one value for both
    cpu,        \* the registers, the banked ones not in use, and memmode
    mem,        \* memory
    access,     \* who may access each page
    far,        \* the page in the fault address register
    instr,      \* the instruction that is executed
    phase,      \* "running", "aborted" or "done"
    before,     \* cpu and mem when the instruction was first executed
    want,       \* what it would have done if every page had been there
    popping,    \* it undoes an earlier one
    saved,      \* cpu before that earlier one
    taken       \* pages taken away so far

vars == <<sa110, cpu, mem, access, far, instr, phase, before, want, popping, saved, taken>>

----
(* Addresses.  n is at most Modulus: one carry or borrow is enough.        *)
Plus(x, n) == IF x + n >= Modulus THEN x + n - Modulus ELSE x + n
Minus(x, n) == IF x < n THEN x - n + Modulus ELSE x - n
Shifted(x, n, up) == IF up THEN Plus(x, n) ELSE Minus(x, n)

(* How far ahead of the instruction a stored PC is.                        *)
r15_diff(sa) == IF sa THEN 0 ELSE 1

(* arm_ldm_stm_offset for LDM and STM.                                     *)
Offset(i) == IF i.form = "multiple" THEN Cardinality(i.list) ELSE i.offset

WritesBack(i) == IF i.form = "multiple" THEN i.w /\ i.rn # 15 ELSE ~i.pre \/ i.w

(* The base register after write-back.                                     *)
Moved(i, base) == Shifted(base, Offset(i), i.up)

(* Slip: decrement before and after are exchanged.                         *)
Start_DownSwapped(i, base) ==
    CASE i.form # "multiple" -> IF i.pre THEN Moved(i, base) ELSE base
      [] i.form = "multiple" /\ i.up -> IF i.pre THEN Plus(base, 1) ELSE base
      [] i.form = "multiple" /\ ~i.up ->
             IF i.pre THEN Plus(Moved(i, base), 1) ELSE Moved(i, base)

(* The address of the first word: the lowest one of LDM and STM.           *)
Start(i, base) ==
    CASE i.form # "multiple" -> IF i.pre THEN Moved(i, base) ELSE base
      [] i.form = "multiple" /\ i.up -> IF i.pre THEN Plus(base, 1) ELSE base
      [] i.form = "multiple" /\ ~i.up ->
             IF i.pre THEN Moved(i, base) ELSE Plus(Moved(i, base), 1)

(* Registers go to consecutive words in the order of their numbers.        *)
Addresses(c, i) ==
    LET start == Start(i, c.reg[i.rn])
    IN [r \in i.list |-> Plus(start, Cardinality({d \in i.list : d < r}))]

----
(* Slip: memmode is left cleared by an LDRT that aborted.                  *)
Privileged_NotRestored(c, i) == FALSE

(* Permissions.  LDRT and its kin clear memmode for the transfer alone.    *)
Privileged(c, i) == c.memmode /\ i.form # "user"

Allowed(level, privileged, load) ==
    \/ level = "all"
    \/ level = "system" /\ privileged
    \/ level = "readonly" /\ (load \/ privileged)

Faults(c, i, acc) ==
    LET at == Addresses(c, i)
    IN {r \in i.list : ~Allowed(acc[Page(at[r])], Privileged(c, i), i.load)}

(* The transfers made before the first one that aborts.                    *)
Reached(c, i, acc) ==
    LET faults == Faults(c, i, acc)
    IN {r \in i.list : \A f \in faults : r < f}

----
(* usrregs: with the S bit it is the User bank that is transferred.        *)
InHidden(c, i, r) == i.s /\ 15 \notin i.list /\ c.mode # "User" /\ r \in Banked
StoresHidden(c, i, r) == i.s /\ c.mode # "User" /\ r \in Banked

(* An ARM610 writes the base back after the first word, a StrongARM after  *)
(* the last.                                                               *)
BaseStored(c, i, sa, r) ==
    IF ~sa /\ WritesBack(i) /\ \E d \in i.list : d < r
    THEN Moved(i, c.reg[i.rn]) ELSE c.reg[i.rn]

Stored(c, i, sa, r) ==
    CASE r = 15 -> Plus(c.reg[15], r15_diff(sa))
      [] r # 15 /\ StoresHidden(c, i, r) -> c.hidden[r]
      [] r # 15 /\ ~StoresHidden(c, i, r) /\ r = i.rn -> BaseStored(c, i, sa, r)
      [] r # 15 /\ ~StoresHidden(c, i, r) /\ r # i.rn -> c.reg[r]

MemoryAfter(c, i, sa, m, reached) ==
    LET at == Addresses(c, i)
    IN [a \in Words |->
           IF ~i.load /\ \E r \in reached : at[r] = a
           THEN Stored(c, i, sa, CHOOSE r \in reached : at[r] = a)
           ELSE m[a]]

(* What a load puts into register r.                                       *)
Fetched(c, i, m, r) ==
    IF r = 15 THEN Plus(m[Addresses(c, i)[r]], 1) ELSE m[Addresses(c, i)[r]]

(* Slip: every processor leaves the base written back.                     *)
BaseAborted_NeverRestored(c, i, sa) ==
    IF WritesBack(i) THEN Moved(i, c.reg[i.rn]) ELSE c.reg[i.rn]

(* The base after an abort: written back by the processors that do not     *)
(* restore it, and otherwise what it was, even if it had been loaded.      *)
BaseAborted(c, i, sa) ==
    IF ~sa /\ WritesBack(i) THEN Moved(i, c.reg[i.rn]) ELSE c.reg[i.rn]

BaseDone(c, i) == IF WritesBack(i) THEN Moved(i, c.reg[i.rn]) ELSE c.reg[i.rn]

(* Slip: an abort leaves a base that was loaded as it was loaded.          *)
RegistersAfter_BaseLoaded(c, i, sa, m, reached) ==
    [r \in Registers |->
        IF i.load /\ r \in reached /\ ~InHidden(c, i, r) THEN Fetched(c, i, m, r)
        ELSE IF reached # i.list /\ r = i.rn THEN BaseAborted(c, i, sa)
        ELSE IF r = i.rn THEN BaseDone(c, i)
        ELSE c.reg[r]]

RegistersAfter(c, i, sa, m, reached) ==
    [r \in Registers |->
        IF reached # i.list /\ r = i.rn THEN BaseAborted(c, i, sa)
        ELSE IF i.load /\ r \in reached /\ ~InHidden(c, i, r) THEN Fetched(c, i, m, r)
        ELSE IF r = i.rn THEN BaseDone(c, i)
        ELSE c.reg[r]]

HiddenAfter(c, i, m, reached) ==
    [r \in Banked |->
        IF i.load /\ r \in reached /\ InHidden(c, i, r) THEN Fetched(c, i, m, r)
        ELSE c.hidden[r]]

(* arm_write_r15 for an LDM of R15 with the S bit: User mode has no SPSR.  *)
Returns(c, i, reached) ==
    i.load /\ i.s /\ 15 \in reached /\ c.mode # "User" /\ c.spsr = "User"

(* The whole instruction on a machine c with memory m.                     *)
Executed(c, i, sa, m, acc) ==
    LET reached == Reached(c, i, acc)
        reg == RegistersAfter(c, i, sa, m, reached)
        hidden == HiddenAfter(c, i, m, reached)
    IN [mem |-> MemoryAfter(c, i, sa, m, reached),
        cpu |->
            IF Returns(c, i, reached)
            THEN [mode |-> "User", spsr |-> c.spsr, memmode |-> FALSE,
                  reg |-> [r \in Registers |-> IF r \in Banked THEN hidden[r] ELSE reg[r]],
                  hidden |-> [r \in Banked |-> reg[r]]]
            ELSE [mode |-> c.mode, spsr |-> c.spsr, memmode |-> c.memmode,
                  reg |-> reg, hidden |-> hidden]]

(* The transfer that aborts: the first one that may not be made.           *)
Aborting(c, i, acc) ==
    LET faults == Faults(c, i, acc)
    IN {r \in faults : \A f \in faults : r <= f}

EveryPage == [p \in Pages |-> "all"]

----
Init ==
    /\ sa110 \in BOOLEAN
    /\ cpu \in Machines
    /\ mem \in Contents
    /\ access \in Layouts
    /\ far = Page(0)
    /\ instr \in {i \in Instructions : i.form = "half" => sa110}
    /\ phase = "running"
    /\ before = [cpu |-> cpu, mem |-> mem]
    /\ want = Executed(cpu, instr, sa110, mem, EveryPage)
    /\ popping = FALSE
    /\ saved = cpu
    /\ taken = 0

Execute ==
    /\ phase = "running"
    /\ LET after == Executed(cpu, instr, sa110, mem, access)
       IN cpu' = after.cpu /\ mem' = after.mem
    /\ IF Faults(cpu, instr, access) = {}
       THEN phase' = "done" /\ UNCHANGED far
       ELSE /\ phase' = "aborted"
            /\ \E r \in Aborting(cpu, instr, access) :
                  far' = Page(Addresses(cpu, instr)[r])
    /\ UNCHANGED <<sa110, access, instr, before, want, popping, saved, taken>>

(* The operating system's abort handler.  It decodes the instruction, and  *)
(* takes the write-back of a processor that does not restore the base      *)
(* back, wherever the abort was.  It gives access to the page whose word   *)
(* aborted, may take another page away, and returns to the instruction.    *)
Undone(c, i, sa) ==
    IF ~sa /\ WritesBack(i)
    THEN [c EXCEPT !.reg[i.rn] = Shifted(c.reg[i.rn], Offset(i), ~i.up)]
    ELSE c

Enough(level) == Allowed(level, cpu.mode # "User" /\ instr.form # "user", instr.load)

Handle ==
    /\ phase = "aborted"
    /\ \E level \in {l \in Levels : Enough(l)}, gone \in Pages :
        /\ gone # far => taken < MaxTaken /\ access[gone] # "none"
        /\ access' = [access EXCEPT ![gone] = "none", ![far] = level]
        /\ taken' = IF gone = far THEN taken ELSE taken + 1
    /\ cpu' = Undone(cpu, instr, sa110)
    /\ phase' = "running"
    /\ UNCHANGED <<sa110, mem, far, instr, before, want, popping, saved>>

(* A procedure that pushed registers uses them and pops them again.        *)
PopOf(i) == [i EXCEPT !.load = TRUE, !.up = ~i.up, !.pre = ~i.pre]

Poppable(i) ==
    /\ i.form = "multiple" /\ ~i.load /\ WritesBack(i) /\ i.rn \notin i.list
    /\ ~(i.s /\ 15 \in i.list)

Spoiled ==
    [cpu EXCEPT
        !.reg = [r \in Registers |->
                    IF r \in instr.list \ {15} /\ ~InHidden(cpu, instr, r)
                    THEN Plus(cpu.reg[r], 1) ELSE cpu.reg[r]],
        !.hidden = [r \in Banked |->
                    IF r \in instr.list /\ InHidden(cpu, instr, r)
                    THEN Plus(cpu.hidden[r], 1) ELSE cpu.hidden[r]]]

Pop ==
    /\ phase = "done" /\ ~popping /\ Poppable(instr)
    /\ popping' = TRUE
    /\ phase' = "running"
    /\ instr' = PopOf(instr)
    /\ cpu' = Spoiled
    /\ saved' = before.cpu
    /\ before' = [cpu |-> cpu', mem |-> mem]
    /\ want' = Executed(cpu', instr', sa110, mem, EveryPage)
    /\ UNCHANGED <<sa110, mem, access, far, taken>>

Next == Execute \/ Handle \/ Pop

Spec == Init /\ [][Next]_vars

(* The interpreter goes on, and the handler returns: Execute and Handle    *)
(* are the steps that leave these phases, and one of them can be taken in  *)
(* each.                                                                   *)
Moves == phase # "done" /\ phase' \in {"running", "aborted", "done"} \ {phase}

Fairness == WF_phase(Moves)

FairSpec == Spec /\ Fairness

----
TypeOK ==
    /\ sa110 \in BOOLEAN /\ popping \in BOOLEAN
    /\ cpu \in CpuType /\ saved \in CpuType
    /\ mem \in MemoryType
    /\ access \in [Pages -> Levels]
    /\ far \in Pages
    /\ instr \in InstructionType
    /\ phase \in {"running", "aborted", "done"}
    /\ before \in [cpu : CpuType, mem : MemoryType]
    /\ want \in [cpu : CpuType, mem : MemoryType]
    /\ taken \in 0..MaxTaken

(* However often an instruction aborted, on whichever of its words, and    *)
(* whatever pages came and went meanwhile, in the end registers, banks,    *)
(* mode and memory are what they would be had every page been there.       *)
Restartable == phase = "done" => want = [cpu |-> cpu, mem |-> mem]

(* What the abort handler relies on: whichever word aborted, the base is   *)
(* the value before the instruction or the value after it, as the          *)
(* processor has it, no register outside the list has changed, the PC and  *)
(* the mode are those of the instruction.                                  *)
BaseAfterAbort ==
    phase = "aborted" =>
        /\ cpu.reg[instr.rn] =
               IF ~sa110 /\ WritesBack(instr)
               THEN Moved(instr, before.cpu.reg[instr.rn]) ELSE before.cpu.reg[instr.rn]
        /\ \A r \in Registers \ (instr.list \ {15}) :
               r # instr.rn => cpu.reg[r] = before.cpu.reg[r]
        /\ \A a \in Words : mem[a] \in {before.mem[a], want.mem[a]}
        /\ cpu.mode = before.cpu.mode

(* Registers pushed in any of the four directions, from the current or the *)
(* User bank, come back from the load in the opposite direction, and the   *)
(* base is where it was: with base and list by their own rules for stores  *)
(* and loads, and aborts in both.                                          *)
PopsWhatItPushed ==
    phase = "done" /\ popping =>
        /\ \A r \in Registers \ {15} : cpu.reg[r] = saved.reg[r]
        /\ cpu.hidden = saved.hidden
        /\ cpu.mode = saved.mode

(* An instruction is not executed again for ever: every abort is for a     *)
(* page that the handler can provide, so the pages it needs are there in   *)
(* the end.                                                                *)
Completes == phase = "running" ~> phase = "done"
====
