------------------------------- MODULE MCArm -------------------------------
(***************************************************************************)
(* A small instance of ArmModes: one register of each banked class, one    *)
(* vector, and status words of both widths; FIQs with SWIs and MSRs.       *)
(***************************************************************************)
EXTENDS ArmModes, FiniteSets

CONSTANTS r8, r14, start, vec, MaxChanged

MCFiqBanked == {r8}
MCBanked == {r14}
MCPcs == {start, vec}
MCVector == [k \in Exceptions |-> vec]

W(f, is, p, mm) == [nzcv |-> f, ints |-> is, pc |-> p, m |-> mm]
P(f, is, mm) == [nzcv |-> f, ints |-> is, mode |-> mm]

\* Words and status words that name User mode and, without interrupt masks,
\* Supervisor mode. The status words name one of 32 bits and one of 26.
MCValues == {W(0, {"I"}, start, USER), W(0, {"I"}, start, SUPERVISOR)}
MCPsrs   == {P(0, {"I"}, 16 + USER), P(0, {}, SUPERVISOR)}

\* Bound: the banked registers, live registers and flags that differ from what they
\* were at first, the saved status words in use, and the status words that name
\* another mode than that in force.
Bound ==
    Cardinality({n \in DOMAIN arm.spsr : arm.spsr[n] # ZeroPsr})
        + Cardinality({p \in Banks \X Regs : arm.banked[p[1]][p[2]] # ZeroWord})
        + Cardinality({c \in Regs : arm.reg[c] # ZeroWord})
        + arm.r15.nzcv + arm.r16.nzcv
        + Cardinality({m \in {ModeBits(arm), arm.r16.mode} : m # arm.mode}) <= MaxChanged
=============================================================================
