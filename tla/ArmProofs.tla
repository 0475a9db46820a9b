----------------------------- MODULE ArmProofs -----------------------------
(***************************************************************************)
(* Proofs about ArmModes, for any register classes, words and exceptions:  *)
(* its types, the agreement of the copies updatemode keeps, that it        *)
(* implements ArmBanks, and what User mode can reach.                      *)
(***************************************************************************)
EXTENDS ArmModes, TLAPS

USE RegsAssumption, DataAssumption, GuestAssumption, ResetAssumption
USE DEF USER, FIQ, IRQ, SUPERVISOR, ABORT, UNDEFINED, SYSTEM

-----------------------------------------------------------------------------
\* Modes and words

LEMMA ModeFacts ==
  ASSUME NEW m \in Modes
  PROVE  /\ Nibble(m) \in Nibbles /\ BankOf(m) \in Banks /\ m \in Nat
         /\ ARM_MODE_32(m) => m = 16 + Nibble(m)
         /\ ~ARM_MODE_32(m) => m = Nibble(m) /\ m \in 0 .. 3 /\ m \in {USER, FIQ, IRQ, SUPERVISOR}
         /\ ARM_MODE_PRIV(m) <=> Nibble(m) # USER
  BY DEF Modes, Modes32, Nibble, Nibbles, Exceptions, BankOf, Banks, ARM_MODE_32, ARM_MODE_PRIV

LEMMA NibbleFacts ==
  /\ \A n \in Nibbles : /\ 16 + n \in Modes /\ ARM_MODE_32(16 + n) /\ Nibble(16 + n) = n
  /\ \A m \in 0 .. 3 : m \in Modes /\ ~ARM_MODE_32(m) /\ Nibble(m) = m
  /\ \A k \in Exceptions : k \in Nibbles /\ k \in Banks /\ BankOf(16 + k) = k
  BY DEF Modes, Modes32, Nibble, Nibbles, Exceptions, BankOf, Banks, ARM_MODE_32

LEMMA WordFacts ==
  /\ ZeroWord \in Word /\ ZeroPsr \in Psr
  /\ \A p \in Pcs : [ZeroWord EXCEPT !.pc = p] \in Word
  /\ \A k \in Exceptions : Vector[k] \in Pcs /\ irq_disable(k) \subseteq IntBits
  BY DEF ZeroWord, Word, ZeroPsr, Psr, Modes, irq_disable, IntBits

-----------------------------------------------------------------------------
\* updatemode

\* The registers exchanged with bank b in a mode are those that live in b.
LEMMA ExchangedIsLive ==
  ASSUME NEW m \in Modes, NEW b \in Banks, NEW c \in Regs
  PROVE  c \in Exchanged(Nibble(m), b) <=> c \notin Unbanked /\ b = Live(m, c)
  <1>1. Nibble(m) \in Nibbles
    BY ModeFacts
  <1>2. CASE Nibble(m) \in {USER, SYSTEM}
    BY <1>2 DEF Exchanged, Live, BankOf, Regs
  <1>3. CASE Nibble(m) = FIQ
    BY <1>3 DEF Exchanged, Live, BankOf, Regs
  <1>4. CASE Nibble(m) \notin {USER, SYSTEM, FIQ}
    BY <1>4 DEF Exchanged, Live, BankOf, Regs
  <1>. QED BY <1>2, <1>3, <1>4

LEMMA LiveIsBank ==
  ASSUME NEW m \in Modes, NEW c \in Regs
  PROVE  Live(m, c) \in Banks /\ (c \in Unbanked => Live(m, c) = USER)
  BY ModeFacts DEF Live, Banks, Regs

LEMMA HiddenIsBanked ==
  ASSUME NEW m \in Modes, NEW c \in Regs
  PROVE  c \in Hidden(Nibble(m)) <=> Live(m, c) # USER
  BY ModeFacts DEF Hidden, Live, BankOf, Regs, Nibbles, Exceptions

\* The fields of the state updatemode leaves.
LEMMA UpdatedFields ==
  ASSUME NEW a \in ArmType, NEW m \in Modes
  PROVE  /\ updatemode(a, m).mode = m
         /\ updatemode(a, m).spsr = a.spsr
         /\ updatemode(a, m).cpsr = IF ARM_MODE_32(m) THEN 16 ELSE 15
         /\ updatemode(a, m).r15 = R15After(a, m)
         /\ updatemode(a, m).r16 = R16After(a, m)
         /\ updatemode(a, m).memmode = IF ARM_MODE_PRIV(m) THEN 1 ELSE 0
         /\ updatemode(a, m).banked = StoreBack(a)
         /\ updatemode(a, m).reg = LoadBanks(a.reg, StoreBack(a), Nibble(m))
         /\ updatemode(a, m).usrregs =
              [c \in Regs |-> IF c \in Hidden(Nibble(m)) THEN "user_reg" ELSE "reg"]
  BY DEF updatemode, ArmType

LEMMA UpdateType ==
  ASSUME NEW a \in ArmType, NEW m \in Modes
  PROVE  updatemode(a, m) \in ArmType
  <1>1. StoreBack(a) \in [Banks -> [Regs -> Word]]
    BY DEF StoreBack, ArmType
  <1>2. LoadBanks(a.reg, StoreBack(a), Nibble(m)) \in [Regs -> Word]
    <2>1. \A c \in Regs, b \in Banks : StoreBack(a)[b][c] \in Word
      BY <1>1
    <2>2. \A c \in Regs : c \in Exchanged(Nibble(m), Nibble(m)) => Nibble(m) \in Banks
      BY ModeFacts DEF Exchanged, Nibbles, Banks
    <2>. QED BY <2>1, <2>2 DEF LoadBanks, ArmType, Banks
  <1>3. R15After(a, m) \in Word
    <2>1. a.r15 \in Word /\ a.r15.pc \in Pcs /\ a.r16.nzcv \in Flags /\ a.r16.ints \in SUBSET IntBits
      BY DEF ArmType, Word, Psr
    <2>2. [ZeroWord EXCEPT !.pc = a.r15.pc] \in Word
      BY <2>1, WordFacts
    <2>3. ~ARM_MODE_32(m) => m \in 0 .. 3
      BY ModeFacts
    <2>4. ~ARM_MODE_32(m) =>
            [nzcv |-> a.r16.nzcv, ints |-> a.r16.ints, pc |-> a.r15.pc, m |-> m] \in Word
      BY <2>1, <2>3 DEF Word
    <2>. QED BY <2>1, <2>2, <2>4 DEF R15After
  <1>4. R16After(a, m) \in Psr
    BY DEF R16After, ArmType, Word, Psr
  <1>5. [c \in Regs |-> IF c \in Hidden(Nibble(m)) THEN "user_reg" ELSE "reg"]
          \in [Regs -> {"reg", "user_reg"}]
    OBVIOUS
  <1>6. /\ (IF ARM_MODE_32(m) THEN 16 ELSE 15) \in {15, 16}
        /\ (IF ARM_MODE_PRIV(m) THEN 1 ELSE 0) \in 0 .. 1
    OBVIOUS
  <1>. HIDE DEF StoreBack, LoadBanks, R15After, R16After
  <1>. QED BY <1>1, <1>2, <1>3, <1>4, <1>5, <1>6 DEF updatemode, ArmType

LEMMA UpdateStatus ==
  ASSUME NEW a \in ArmType, NEW m \in Modes,
         ARM_MODE_32(m) /\ ARM_MODE_32(a.mode) => a.r16.mode = m
  PROVE  StatusIn(updatemode(a, m)) /\ updatemode(a, m).r16.mode = m
  <1>. DEFINE u == updatemode(a, m)
  <1>1. u.mode = m
    BY UpdatedFields
  <1>2. u.cpsr = IF ARM_MODE_32(m) THEN 16 ELSE 15
    BY UpdatedFields, ZenonT(60)
  <1>3. u.memmode = IF ARM_MODE_PRIV(m) THEN 1 ELSE 0
    BY UpdatedFields
  <1>4. u.r16 = R16After(a, m)
    BY UpdatedFields
  <1>5. R16After(a, m).mode = m
    <2>1. a.r16 \in Psr
      BY DEF ArmType
    <2>2. [a.r16 EXCEPT !.mode = m].mode = m
      BY <2>1 DEF Psr
    <2>. QED BY <2>2 DEF R16After
  <1>. HIDE DEF u
  <1>. QED BY <1>1, <1>2, <1>3, <1>4, <1>5 DEF StatusIn, u

LEMMA UpdateUser ==
  ASSUME NEW a \in ArmType, NEW m \in Modes
  PROVE  UserIn(updatemode(a, m))
  <1>1. /\ updatemode(a, m).mode = m
        /\ updatemode(a, m).usrregs =
             [c \in Regs |-> IF c \in Hidden(Nibble(m)) THEN "user_reg" ELSE "reg"]
    BY UpdatedFields
  <1>2. \A c \in Regs : c \in Hidden(Nibble(m)) <=> Live(m, c) # USER
    BY HiddenIsBanked
  <1>. QED BY <1>1, <1>2 DEF UserIn

\* A mode change moves no register.
LEMMA UpdateCells ==
  ASSUME NEW a \in ArmType, NEW m \in Modes, UserIn(a)
  PROVE  CellOf(updatemode(a, m)) = CellOf(a)
  <1>. DEFINE u == updatemode(a, m)
  <1>1. a.mode \in Modes
    BY DEF ArmType
  <1>2. ASSUME NEW b \in Banks, NEW c \in Regs
        PROVE  u.banked[b][c] = IF c \notin Unbanked /\ b = Live(a.mode, c) THEN a.reg[c]
                                ELSE a.banked[b][c]
    <2>1. u.banked = StoreBack(a)
      BY UpdatedFields
    <2>2. c \in Exchanged(Nibble(a.mode), b) <=> c \notin Unbanked /\ b = Live(a.mode, c)
      BY <1>1, ExchangedIsLive
    <2>. QED BY <2>1, <2>2 DEF StoreBack
  <1>3. ASSUME NEW c \in Regs
        PROVE  u.reg[c] = IF c \in Unbanked THEN a.reg[c] ELSE u.banked[Live(m, c)][c]
    <2>1. Live(m, c) \in Banks /\ USER \in Banks
      BY LiveIsBank DEF Banks
    <2>2. u.reg[c] = IF c \in Exchanged(Nibble(m), USER) THEN u.banked[USER][c]
                     ELSE IF c \in Exchanged(Nibble(m), Nibble(m)) THEN u.banked[Nibble(m)][c]
                     ELSE a.reg[c]
      <3>1. u.reg = LoadBanks(a.reg, StoreBack(a), Nibble(m)) /\ u.banked = StoreBack(a)
        BY UpdatedFields
      <3>. QED BY <3>1 DEF LoadBanks
    <2>3. c \in Exchanged(Nibble(m), USER) <=> c \notin Unbanked /\ USER = Live(m, c)
      BY <2>1, ExchangedIsLive
    <2>4. CASE Nibble(m) \in Banks
      <3>1. c \in Exchanged(Nibble(m), Nibble(m)) <=> c \notin Unbanked /\ Nibble(m) = Live(m, c)
        BY <2>4, ExchangedIsLive
      <3>2. Live(m, c) \in {USER, Nibble(m)}
        BY DEF Live, BankOf
      <3>. QED BY <2>2, <2>3, <3>1, <3>2
    <2>5. CASE Nibble(m) \notin Banks
      <3>1. Nibble(m) = SYSTEM
        BY <2>5, ModeFacts DEF Nibbles, Banks
      <3>2. Exchanged(Nibble(m), Nibble(m)) = {} /\ Live(m, c) = USER
        BY <3>1 DEF Exchanged, Live, BankOf
      <3>. QED BY <2>2, <2>3, <3>2
    <2>. QED BY <2>4, <2>5
  <1>4. ASSUME NEW b \in Banks, NEW c \in Regs
        PROVE  CellOf(u)[b][c] = CellOf(a)[b][c]
    <2>1. /\ a.usrregs[c] = "reg" <=> Live(a.mode, c) = USER
          /\ u.usrregs[c] = "reg" <=> Live(m, c) = USER
      <3>1. UserIn(u) /\ u.mode = m
        BY UpdateUser, UpdatedFields
      <3>. QED BY <3>1 DEF UserIn
    <2>2. /\ Live(m, c) \in Banks /\ Live(a.mode, c) \in Banks /\ USER \in Banks
          /\ c \in Unbanked => Live(m, c) = USER /\ Live(a.mode, c) = USER
      BY <1>1, LiveIsBank DEF Banks
    <2>3. CellOf(u)[b][c] = IF b = Live(m, c) THEN u.reg[c] ELSE u.banked[b][c]
      BY <2>1, UpdatedFields, ZenonT(60) DEF CellOf
    <2>4. CellOf(a)[b][c] = IF b = Live(a.mode, c) THEN a.reg[c] ELSE a.banked[b][c]
      BY <2>1 DEF CellOf
    <2>. QED BY <1>2, <1>3, <2>2, <2>3, <2>4
  <1>. QED BY <1>4 DEF CellOf

-----------------------------------------------------------------------------
\* Types

LEMMA ModeBitsType ==
  ASSUME NEW a \in ArmType
  PROVE  ModeBits(a) \in Modes
  BY NibbleFacts DEF ModeBits, ArmType, Word, Psr

LEMMA ReconsiderType ==
  ASSUME NEW a \in ArmType
  PROVE  Reconsider(a) \in ArmType
  BY ModeBitsType, UpdateType DEF Reconsider

LEMMA CopySpsrType ==
  ASSUME NEW a \in ArmType
  PROVE  CopySpsr(a) \in ArmType
  <1>1. a.mode \in Modes /\ a.spsr \in [Nibbles -> Psr]
    BY DEF ArmType
  <1>2. a.spsr[Nibble(a.mode)] \in Psr
    BY <1>1, ModeFacts
  <1>. QED BY <1>2 DEF CopySpsr, ArmType

LEMMA FieldsType ==
  ASSUME NEW fs, NEW p \in Psr, NEW q \in Psr
  PROVE  Fields(fs, p, q) \in Psr
  BY DEF Fields, Psr

LEMMA FieldsR15Type ==
  ASSUME NEW fs, NEW w \in Word, NEW q \in Psr
  PROVE  FieldsR15(fs, w, q) \in Word
  <1>1. q.mode % 4 \in 0 .. 3
    BY ModeFacts DEF Psr
  <1>. QED BY <1>1 DEF FieldsR15, Word, Psr

LEMMA ExceptionTypes ==
  ASSUME NEW a \in ArmType, NEW k \in Exceptions
  PROVE  /\ Exception32(a, k) \in ArmType
         /\ ExceptionTo32(a, k) \in ArmType
         /\ Exception26(a, k) \in ArmType
  <1>1. /\ k \in Nibbles /\ 16 + k \in Modes /\ Link \in Regs
        /\ [ZeroWord EXCEPT !.pc = Vector[k]] \in Word
        /\ irq_disable(k) \in SUBSET IntBits /\ Vector[k] \in Pcs
    BY NibbleFacts, WordFacts DEF Regs
  <1>2. a.r15 \in Word /\ a.r16 \in Psr /\ a.r15.m \in Modes /\ a.r15.pc \in Pcs
    BY NibbleFacts DEF ArmType, Word
  <1>3. Exception32(a, k) \in ArmType
    <2>. DEFINE s == [a EXCEPT !.spsr[k] = a.r16]
                b == updatemode(s, 16 + k)
    <2>1. s \in ArmType
      BY <1>1, <1>2 DEF ArmType
    <2>2. b \in ArmType
      BY <2>1, <1>1, UpdateType
    <2>. HIDE DEF b
    <2>3. [b EXCEPT !.reg[Link] = a.r15, !.r16.mode = 16 + k,
                    !.r16.ints = @ \cup irq_disable(k),
                    !.r15 = [ZeroWord EXCEPT !.pc = Vector[k]]] \in ArmType
      <3>1. [b.r16 EXCEPT !.mode = 16 + k, !.ints = @ \cup irq_disable(k)] \in Psr
        BY <2>2, <1>1 DEF ArmType, Psr
      <3>. QED BY <2>2, <1>1, <1>2, <3>1 DEF ArmType
    <2>. QED BY <2>3 DEF Exception32, b
  <1>4. ExceptionTo32(a, k) \in ArmType
    <2>. DEFINE b == updatemode(a, 16 + k)
    <2>2. b \in ArmType
      BY <1>1, UpdateType
    <2>3. [ZeroWord EXCEPT !.pc = a.r15.pc] \in Word
      BY <1>2, WordFacts
    <2>. HIDE DEF b
    <2>4. [b.r16 EXCEPT !.mode = a.r15.m] \in Psr
      BY <2>2, <1>2 DEF ArmType, Psr
    <2>5. [b.r16 EXCEPT !.ints = @ \cup irq_disable(k)] \in Psr
      BY <2>2, <1>1 DEF ArmType, Psr
    <2>6. [b EXCEPT !.reg[Link] = [ZeroWord EXCEPT !.pc = a.r15.pc],
                    !.spsr[k] = [b.r16 EXCEPT !.mode = a.r15.m],
                    !.r16.ints = @ \cup irq_disable(k),
                    !.r15 = [ZeroWord EXCEPT !.pc = Vector[k]]] \in ArmType
      BY <2>2, <2>3, <2>4, <2>5, <1>1 DEF ArmType
    <2>. QED BY <2>6 DEF ExceptionTo32, b
  <1>5. Exception26(a, k) \in ArmType
    <2>. DEFINE s == [a EXCEPT !.r15.m = 3]
                n == IF k >= SUPERVISOR THEN SUPERVISOR ELSE k
                b == updatemode(s, n)
    <2>1. s \in ArmType
      <3>1. [a.r15 EXCEPT !.m = 3] \in Word
        BY <1>2 DEF Word
      <3>. QED BY <3>1 DEF ArmType
    <2>2. n \in Modes
      <3>1. n \in 0 .. 3
        BY DEF Exceptions
      <3>. QED BY <3>1, NibbleFacts
    <2>3. b \in ArmType
      BY <2>1, <2>2, UpdateType
    <2>. HIDE DEF b
    <2>4. [b.r15 EXCEPT !.pc = Vector[k], !.ints = @ \cup irq_disable(k)] \in Word
      BY <2>3, <1>1 DEF ArmType, Word
    <2>5. [b EXCEPT !.reg[Link] = a.r15, !.r15.pc = Vector[k],
                    !.r15.ints = @ \cup irq_disable(k)] \in ArmType
      BY <2>3, <2>4, <1>1, <1>2 DEF ArmType
    <2>. QED BY <2>5 DEF Exception26, b, n, s
  <1>. QED BY <1>3, <1>4, <1>5

LEMMA ExceptionType ==
  ASSUME NEW a \in ArmType, NEW k \in Exceptions
  PROVE  exception(a, k) \in ArmType
  BY ExceptionTypes DEF exception


LEMMA TypeInit == Init => TypeOK
  <1>. SUFFICES ASSUME Init PROVE TypeOK
    OBVIOUS
  <1>1. /\ [nzcv |-> 0, ints |-> IntBits, pc |-> ResetPc, m |-> SUPERVISOR] \in Word
        /\ [nzcv |-> 0, ints |-> IntBits, mode |-> 16 + SUPERVISOR] \in Psr
        /\ SUPERVISOR \in Modes
    <2>1. 16 + SUPERVISOR \in Modes /\ SUPERVISOR \in Modes
      BY DEF Modes, Modes32, Nibbles, Exceptions
    <2>. QED BY <2>1 DEF Word, Psr
  <1>. QED BY <1>1, WordFacts DEF Init, TypeOK, ArmType

LEMMA TypeStep ==
  ASSUME TypeOK, Next
  PROVE  TypeOK'
  <1>0. arm \in ArmType /\ prog32 \in BOOLEAN
    BY DEF TypeOK
  <1>a. /\ arm.r15 \in Word /\ arm.r16 \in Psr /\ arm.mode \in Modes
        /\ arm.reg \in [Regs -> Word] /\ arm.banked \in [Banks -> [Regs -> Word]]
        /\ arm.spsr \in [Nibbles -> Psr]
    BY <1>0 DEF ArmType
  <1>b. \A w \in Word : [arm EXCEPT !.r15 = w] \in ArmType
    BY <1>0 DEF ArmType
  <1>c. \A w \in Word : Jumped(w) \in Word
    BY <1>a DEF Jumped, Word
  <1>1. ASSUME NEW c \in Regs, NEW w \in Values, WriteReg(c, w) PROVE TypeOK'
    BY <1>0, <1>1 DEF WriteReg, TypeOK, ArmType
  <1>2. ASSUME NEW c \in Regs, NEW w \in Values, LoadUserBank(c, w) PROVE TypeOK'
    <2>1. [arm EXCEPT !.reg[c] = w] \in ArmType
      BY <1>0 DEF ArmType
    <2>2. [arm EXCEPT !.banked[USER][c] = w] \in ArmType
      <3>1. [arm.banked EXCEPT ![USER][c] = w] \in [Banks -> [Regs -> Word]]
        BY <1>a
      <3>. QED BY <1>0, <3>1 DEF ArmType
    <2>. QED BY <2>1, <2>2, <1>2 DEF LoadUserBank, TypeOK
  <1>3. ASSUME NEW w \in Values, WritePc(w) PROVE TypeOK'
    BY <1>0, <1>b, <1>c, <1>3 DEF WritePc, TypeOK
  <1>4. ASSUME NEW w \in Values, BranchLink(w) PROVE TypeOK'
    <2>1. Jumped(w) \in Word
      BY <1>c
    <2>2. [arm EXCEPT !.reg[Link] = arm.r15, !.r15 = Jumped(w)] \in ArmType
      BY <1>0, <1>a, <2>1 DEF ArmType
    <2>. QED BY <1>0, <2>2, <1>4 DEF BranchLink, TypeOK
  <1>5. ASSUME NEW w \in Values, arm_write_r15(w) PROVE TypeOK'
    <2>. DEFINE written == IF ARM_MODE_32(arm.mode) THEN [w EXCEPT !.m = arm.r15.m]
                           ELSE IF ARM_MODE_PRIV(arm.mode) THEN w
                           ELSE [w EXCEPT !.ints = arm.r15.ints, !.m = arm.r15.m]
                a == [arm EXCEPT !.r15 = written]
    <2>1. written \in Word
      BY <1>a DEF Word
    <2>2. a \in ArmType
      BY <1>b, <2>1
    <2>3. CopySpsr(a) \in ArmType
      BY <2>2, CopySpsrType
    <2>4. Reconsider(a) \in ArmType /\ Reconsider(CopySpsr(a)) \in ArmType
      BY <2>2, <2>3, ReconsiderType
    <2>5. arm' \in {a, Reconsider(a), Reconsider(CopySpsr(a))} /\ prog32' = prog32
      BY <1>5 DEF arm_write_r15
    <2>. QED BY <1>0, <2>2, <2>4, <2>5 DEF TypeOK
  <1>6. ASSUME NEW w \in Values, arm_compare_rd15(w) PROVE TypeOK'
    <2>. DEFINE psrBits == IF ARM_MODE_PRIV(arm.mode) THEN [w EXCEPT !.pc = arm.r15.pc]
                           ELSE [arm.r15 EXCEPT !.nzcv = w.nzcv]
    <2>1. psrBits \in Word
      BY <1>a DEF Word
    <2>2. [arm EXCEPT !.r15 = psrBits] \in ArmType /\ CopySpsr(arm) \in ArmType
      BY <1>0, <1>b, <2>1, CopySpsrType
    <2>3. arm' \in {Reconsider([arm EXCEPT !.r15 = psrBits]), Reconsider(CopySpsr(arm)),
                    Reconsider(arm)} /\ prog32' = prog32
      BY <1>6 DEF arm_compare_rd15
    <2>. QED BY <1>0, <2>2, <2>3, ReconsiderType DEF TypeOK
  <1>7. ASSUME NEW f \in Flags, SetFlags(f) PROVE TypeOK'
    <2>1. [arm.r16 EXCEPT !.nzcv = f] \in Psr /\ [arm.r15 EXCEPT !.nzcv = f] \in Word
      BY <1>a DEF Psr, Word
    <2>2. [arm EXCEPT !.r16.nzcv = f] \in ArmType /\ [arm EXCEPT !.r15.nzcv = f] \in ArmType
      BY <1>0, <2>1 DEF ArmType
    <2>. QED BY <1>0, <2>2, <1>7 DEF SetFlags, TypeOK
  <1>8. CASE ReadCpsr
    <2>1. [nzcv |-> arm.r15.nzcv, ints |-> arm.r15.ints, mode |-> arm.r15.m] \in Psr
      BY <1>a, NibbleFacts DEF Word, Psr
    <2>2. [arm EXCEPT !.r16 = [nzcv |-> arm.r15.nzcv, ints |-> arm.r15.ints,
                               mode |-> arm.r15.m]] \in ArmType
      BY <1>0, <2>1 DEF ArmType
    <2>. QED BY <1>0, <2>2, <1>8 DEF ReadCpsr, TypeOK
  <1>9. ASSUME NEW fields \in {{"c"}, {"f"}, {"c", "f"}}, NEW q \in Psrs,
               arm_write_cpsr(fields, q) PROVE TypeOK'
    <2>. DEFINE fs == IF ARM_MODE_PRIV(arm.mode) THEN fields ELSE fields \ {"c"}
                a  == [arm EXCEPT !.r16 = Fields(fs, @, q),
                                  !.r15 = IF ARM_MODE_32(arm.mode) THEN @ ELSE FieldsR15(fs, @, q)]
    <2>1. Fields(fs, arm.r16, q) \in Psr /\ FieldsR15(fs, arm.r15, q) \in Word
      BY <1>a, FieldsType, FieldsR15Type
    <2>2. a \in ArmType /\ a.r16 \in Psr
      BY <1>0, <1>a, <2>1 DEF ArmType
    <2>3. a.r16.mode \in Modes
      BY <2>2 DEF Psr
    <2>4. updatemode(a, a.r16.mode) \in ArmType
      BY <2>2, <2>3, UpdateType
    <2>5. arm' \in {a, updatemode(a, a.r16.mode)} /\ prog32' = prog32
      BY <1>9 DEF arm_write_cpsr
    <2>. QED BY <1>0, <2>2, <2>4, <2>5 DEF TypeOK
  <1>10. ASSUME NEW fields \in {{"c"}, {"f"}, {"c", "f"}}, NEW q \in Psrs,
                arm_write_spsr(fields, q) PROVE TypeOK'
    <2>1. arm.spsr[Nibble(arm.mode)] \in Psr
      BY <1>a, ModeFacts
    <2>2. Fields(fields, arm.spsr[Nibble(arm.mode)], q) \in Psr
      BY <2>1, FieldsType
    <2>3. [arm EXCEPT !.spsr[Nibble(arm.mode)] = Fields(fields, @, q)] \in ArmType
      BY <1>0, <2>2 DEF ArmType
    <2>. QED BY <1>0, <2>3, <1>10 DEF arm_write_spsr, TypeOK
  <1>11. ASSUME NEW k \in Kinds, Raise(k) PROVE TypeOK'
    BY <1>0, <1>11, ExceptionType DEF Raise, TypeOK
  <1>12. ASSUME NEW k \in Kinds, Dispatch(k) PROVE TypeOK'
    <2>. DEFINE a == IF ARM_MODE_32(arm.mode) THEN arm ELSE [arm EXCEPT !.r16.ints = arm.r15.ints]
    <2>1. [arm.r16 EXCEPT !.ints = arm.r15.ints] \in Psr
      BY <1>a DEF Psr, Word
    <2>2. a \in ArmType
      BY <1>0, <2>1 DEF ArmType
    <2>3. exception(a, k) \in ArmType
      BY <2>2, ExceptionType
    <2>4. arm' \in {a, exception(a, k)} /\ prog32' = prog32
      BY <1>12 DEF Dispatch
    <2>. QED BY <1>0, <2>2, <2>3, <2>4 DEF TypeOK
  <1>13. ASSUME NEW on \in BOOLEAN, Control(on) PROVE TypeOK'
    <2>1. on \/ Nibble(arm.mode) \in Modes
      BY <1>13 DEF Control, Modes
    <2>2. on \/ updatemode(arm, Nibble(arm.mode)) \in ArmType
      BY <1>0, <2>1, UpdateType
    <2>. QED BY <1>0, <2>2, <1>13 DEF Control, TypeOK
  <1>14. ASSUME NEW w \in Values, WriteR15(w) PROVE TypeOK'
    BY <1>0, <1>b, <1>14 DEF WriteR15, TypeOK
  <1>15. ASSUME NEW w \in Values, CoprocessorR15(w) PROVE TypeOK'
    <2>1. [arm.r15 EXCEPT !.m = w.m] \in Word /\ [w EXCEPT !.pc = arm.r15.pc] \in Word
      BY <1>a DEF Word
    <2>. QED BY <1>0, <1>b, <2>1, <1>15 DEF CoprocessorR15, TypeOK
  <1>. QED
    BY <1>1, <1>2, <1>3, <1>4, <1>5, <1>6, <1>7, <1>8, <1>9, <1>10, <1>11, <1>12, <1>13, <1>14, <1>15
    DEF Next

\* The registers keep their types: modes, status words and banks stay in range
\* for any register classes, values and exceptions.
THEOREM TypesHold == Spec => []TypeOK
  <1>1. Init => TypeOK
    BY TypeInit
  <1>2. TypeOK /\ [Next]_vars => TypeOK'
    <2>1. CASE Next
      BY <2>1, TypeStep
    <2>2. CASE UNCHANGED vars
      BY <2>2 DEF vars, TypeOK
    <2>. QED BY <2>1, <2>2
  <1>. QED BY <1>1, <1>2, PTL DEF Spec


-----------------------------------------------------------------------------
\* What a change of mode does to the abstract registers: nothing to the cells
\* and the masks, and the address is cut to the width of the new mode.

Clip(mode, w) == IF ARM_MODE_32(mode) THEN w ELSE [ZeroWord EXCEPT !.pc = w.pc]

\* ArmBanks, seen through the refinement, uses the words and modes of ArmModes.
LEMMA SameWords ==
  /\ Abstract!ZeroWord = ZeroWord /\ Abstract!ZeroPsr = ZeroPsr
  /\ Abstract!Word = Word /\ Abstract!Psr = Psr
  /\ Abstract!Regs = Regs /\ Abstract!Banks = Banks /\ Abstract!Nibbles = Nibbles
  /\ Abstract!IntBits = IntBits
  /\ Abstract!USER = USER /\ Abstract!FIQ = FIQ /\ Abstract!IRQ = IRQ
  /\ Abstract!SUPERVISOR = SUPERVISOR
  /\ \A m : /\ Abstract!ARM_MODE_32(m) = ARM_MODE_32(m)
            /\ Abstract!Nibble(m) = Nibble(m)
            /\ Abstract!ARM_MODE_PRIV(m) = ARM_MODE_PRIV(m)
            /\ Abstract!ARM_MODE_HAS_SPSR(m) = ARM_MODE_HAS_SPSR(m)
            /\ Abstract!irq_disable(m) = irq_disable(m)
  /\ \A m, c : Abstract!Home(m, c) = Live(m, c)
  /\ \A m, w : Abstract!Clip(m, w) = Clip(m, w)
  BY DEF Abstract!ZeroWord, ZeroWord, Abstract!ZeroPsr, ZeroPsr, Abstract!Word, Word,
     Abstract!Psr, Psr, Abstract!Regs, Regs, Abstract!Banks, Banks, Abstract!Nibbles, Nibbles,
     Abstract!IntBits, IntBits, Abstract!USER, Abstract!FIQ, Abstract!IRQ, Abstract!SUPERVISOR,
     Abstract!ABORT, Abstract!UNDEFINED, Abstract!SYSTEM, Abstract!Exceptions, Exceptions,
     Abstract!Modes, Modes, Abstract!Modes32, Modes32,
     Abstract!ARM_MODE_32, ARM_MODE_32, Abstract!Nibble, Nibble,
     Abstract!ARM_MODE_PRIV, ARM_MODE_PRIV, Abstract!ARM_MODE_HAS_SPSR, ARM_MODE_HAS_SPSR,
     Abstract!irq_disable, irq_disable, Abstract!BankOf, BankOf, Abstract!Home, Live,
     Abstract!Clip, Clip

Same(a, b) == /\ a.reg = b.reg /\ a.banked = b.banked /\ a.usrregs = b.usrregs
              /\ a.mode = b.mode

LEMMA CellSame ==
  ASSUME NEW a \in ArmType, NEW b \in ArmType, Same(a, b)
  PROVE  CellOf(a) = CellOf(b) /\ (UserIn(a) => UserIn(b))
  BY DEF Same, CellOf, UserIn

LEMMA CellWrite ==
  ASSUME NEW a \in ArmType, UserIn(a), NEW c \in Regs, NEW w \in Word
  PROVE  CellOf([a EXCEPT !.reg[c] = w]) = [CellOf(a) EXCEPT ![Live(a.mode, c)][c] = w]
  <1>. DEFINE u == [a EXCEPT !.reg[c] = w]
  <1>1. /\ u.mode = a.mode /\ u.banked = a.banked /\ u.usrregs = a.usrregs
        /\ u.reg = [a.reg EXCEPT ![c] = w]
        /\ a.reg \in [Regs -> Word] /\ a.mode \in Modes
    BY DEF ArmType
  <1>2. Live(a.mode, c) \in Banks
    BY <1>1, LiveIsBank
  <1>. HIDE DEF u
  <1>3. ASSUME NEW b \in Banks, NEW d \in Regs
        PROVE  CellOf(u)[b][d] = [CellOf(a) EXCEPT ![Live(a.mode, c)][c] = w][b][d]
    <2>1. CellOf(u)[b][d] = IF b = USER THEN IF a.usrregs[d] = "reg" THEN u.reg[d]
                                             ELSE a.banked[USER][d]
                            ELSE IF b = Live(a.mode, d) THEN u.reg[d] ELSE a.banked[b][d]
      BY <1>1 DEF CellOf
    <2>2. CellOf(a)[b][d] = IF b = USER THEN IF a.usrregs[d] = "reg" THEN a.reg[d]
                                             ELSE a.banked[USER][d]
                            ELSE IF b = Live(a.mode, d) THEN a.reg[d] ELSE a.banked[b][d]
      BY DEF CellOf
    <2>3. u.reg[d] = IF d = c THEN w ELSE a.reg[d]
      BY <1>1
    <2>4. [CellOf(a) EXCEPT ![Live(a.mode, c)][c] = w][b][d] =
            IF b = Live(a.mode, c) /\ d = c THEN w ELSE CellOf(a)[b][d]
      BY <1>2 DEF CellOf
    <2>5. a.usrregs[d] = "reg" <=> Live(a.mode, d) = USER
      BY DEF UserIn
    <2>. QED BY <2>1, <2>2, <2>3, <2>4, <2>5
  <1>4. CellOf(u) = [CellOf(a) EXCEPT ![Live(a.mode, c)][c] = w]
    BY <1>3, ZenonT(30) DEF CellOf
  <1>. QED BY <1>4 DEF u

LEMMA CellWriteUser ==
  ASSUME NEW a \in ArmType, UserIn(a), NEW c \in Regs, NEW w \in Word,
         a.usrregs[c] # "reg"
  PROVE  CellOf([a EXCEPT !.banked[USER][c] = w]) = [CellOf(a) EXCEPT ![USER][c] = w]
  <1>. DEFINE u == [a EXCEPT !.banked[USER][c] = w]
  <1>1. /\ u.mode = a.mode /\ u.reg = a.reg /\ u.usrregs = a.usrregs
        /\ u.banked = [a.banked EXCEPT ![USER][c] = w]
        /\ a.banked \in [Banks -> [Regs -> Word]] /\ USER \in Banks
    BY DEF ArmType, Banks
  <1>. HIDE DEF u
  <1>3. ASSUME NEW b \in Banks, NEW d \in Regs
        PROVE  CellOf(u)[b][d] = [CellOf(a) EXCEPT ![USER][c] = w][b][d]
    <2>1. CellOf(u)[b][d] = IF b = USER THEN IF a.usrregs[d] = "reg" THEN a.reg[d]
                                             ELSE u.banked[USER][d]
                            ELSE IF b = Live(a.mode, d) THEN a.reg[d] ELSE u.banked[b][d]
      BY <1>1 DEF CellOf
    <2>2. CellOf(a)[b][d] = IF b = USER THEN IF a.usrregs[d] = "reg" THEN a.reg[d]
                                             ELSE a.banked[USER][d]
                            ELSE IF b = Live(a.mode, d) THEN a.reg[d] ELSE a.banked[b][d]
      BY DEF CellOf
    <2>3. u.banked[b][d] = IF b = USER /\ d = c THEN w ELSE a.banked[b][d]
      BY <1>1
    <2>4. [CellOf(a) EXCEPT ![USER][c] = w][b][d] =
            IF b = USER /\ d = c THEN w ELSE CellOf(a)[b][d]
      BY <1>1 DEF CellOf
    <2>. QED BY <2>1, <2>2, <2>3, <2>4
  <1>4. CellOf(u) = [CellOf(a) EXCEPT ![USER][c] = w]
    BY <1>3, ZenonT(30) DEF CellOf
  <1>. QED BY <1>4 DEF u

\* The status and the address do not change with the mode, except for the mode
\* that the status names when it moves between R15 and reg[16].
LEMMA Switch ==
  ASSUME NEW a \in ArmType, NEW m \in Modes,
         a.cpsr = IF ARM_MODE_32(a.mode) THEN 16 ELSE 15
  PROVE  /\ PsrOf(updatemode(a, m)) = IF ARM_MODE_32(m) <=> ARM_MODE_32(a.mode) THEN PsrOf(a)
                                      ELSE [PsrOf(a) EXCEPT !.mode = m]
         /\ PcOf(updatemode(a, m)) = Clip(m, PcOf(a))
  <1>. DEFINE u == updatemode(a, m)
  <1>1. u.mode = m /\ u.r15 = R15After(a, m) /\ u.r16 = R16After(a, m)
    BY UpdatedFields, ZenonT(60)
  <1>2. u.cpsr = IF ARM_MODE_32(m) THEN 16 ELSE 15
    BY UpdatedFields
  <1>. HIDE DEF u
  <1>3. a.r15 \in Word /\ a.r16 \in Psr /\ a.mode \in Modes
    BY DEF ArmType
  <1>4. CASE ARM_MODE_32(m) /\ ARM_MODE_32(a.mode)
    BY <1>1, <1>2, <1>4 DEF PsrOf, PcOf, Clip, R15After, R16After, u
  <1>5. CASE ARM_MODE_32(m) /\ ~ARM_MODE_32(a.mode)
    <2>1. PsrOf(u) = [nzcv |-> a.r15.nzcv, ints |-> a.r15.ints, mode |-> m]
      BY <1>1, <1>2, <1>5 DEF PsrOf, R16After
    <2>2. PsrOf(a) = [nzcv |-> a.r15.nzcv, ints |-> a.r15.ints, mode |-> a.r15.m]
      BY <1>5 DEF PsrOf
    <2>3. PcOf(u) = [ZeroWord EXCEPT !.pc = a.r15.pc] /\ PcOf(a) = [ZeroWord EXCEPT !.pc = a.r15.pc]
      BY <1>1, <1>2, <1>5 DEF PcOf, R15After
    <2>. QED BY <1>5, <2>1, <2>2, <2>3 DEF Clip, u
  <1>6. CASE ~ARM_MODE_32(m) /\ ARM_MODE_32(a.mode)
    <2>1. PsrOf(u) = [nzcv |-> a.r16.nzcv, ints |-> a.r16.ints, mode |-> m]
      BY <1>1, <1>2, <1>6 DEF PsrOf, R15After
    <2>2. PsrOf(a) = a.r16 /\ [a.r16 EXCEPT !.mode = m] =
            [nzcv |-> a.r16.nzcv, ints |-> a.r16.ints, mode |-> m]
      BY <1>3, <1>6 DEF PsrOf, Psr
    <2>3. PcOf(u) = [ZeroWord EXCEPT !.pc = a.r15.pc] /\ PcOf(a) = a.r15
      BY <1>1, <1>2, <1>6 DEF PcOf, R15After
    <2>. QED BY <1>6, <2>1, <2>2, <2>3 DEF Clip, u
  <1>7. CASE ~ARM_MODE_32(m) /\ ~ARM_MODE_32(a.mode)
    <2>1. u.r15 = a.r15 /\ u.cpsr = 15 /\ a.cpsr = 15
      BY <1>1, <1>2, <1>7 DEF R15After
    <2>2. PsrOf(u) = PsrOf(a) /\ PcOf(u) = PcOf(a)
      BY <2>1 DEF PsrOf, PcOf
    <2>3. [ZeroWord EXCEPT !.pc = PcOf(a).pc] = PcOf(a)
      BY <1>3, <2>1 DEF PcOf, ZeroWord, Word
    <2>. QED BY <1>7, <2>2, <2>3 DEF Clip, u
  <1>. QED BY <1>4, <1>5, <1>6, <1>7

LEMMA Stay ==
  ASSUME NEW a \in ArmType, a.cpsr = IF ARM_MODE_32(a.mode) THEN 16 ELSE 15
  PROVE  /\ PcOf(a) = Clip(a.mode, PcOf(a))
         /\ PsrOf(a) \in Psr /\ PcOf(a) \in Word /\ PsrOf(a).mode = ModeBits(a)
  <1>1. a.r15 \in Word /\ a.r16 \in Psr /\ a.mode \in Modes
    BY DEF ArmType
  <1>2. PsrOf(a) \in Psr /\ PsrOf(a).mode = ModeBits(a)
    <2>1. 0 .. 3 \subseteq Modes
      BY NibbleFacts
    <2>. QED BY <1>1, <2>1 DEF PsrOf, ModeBits, Word, Psr
  <1>3. PcOf(a) \in Word
    BY <1>1, WordFacts DEF PcOf, Word
  <1>4. PcOf(a) = Clip(a.mode, PcOf(a))
    BY <1>1 DEF PcOf, Clip, ZeroWord
  <1>. QED BY <1>2, <1>3, <1>4

\* Acting on the mode the status names puts it in force and changes no more.
LEMMA ReconsiderFacts ==
  ASSUME NEW a \in ArmType, UserIn(a),
         a.cpsr = IF ARM_MODE_32(a.mode) THEN 16 ELSE 15,
         a.memmode = IF ARM_MODE_PRIV(a.mode) THEN 1 ELSE 0
  PROVE  /\ StatusIn(Reconsider(a)) /\ UserIn(Reconsider(a))
         /\ CellOf(Reconsider(a)) = CellOf(a)
         /\ Reconsider(a).spsr = a.spsr
         /\ Reconsider(a).mode = PsrOf(a).mode
         /\ Reconsider(a).r16.mode = IF PsrOf(a).mode = a.mode THEN a.r16.mode ELSE PsrOf(a).mode
         /\ PsrOf(Reconsider(a)) = PsrOf(a)
         /\ PcOf(Reconsider(a)) = Clip(PsrOf(a).mode, PcOf(a))
  <1>. DEFINE m == ModeBits(a)
  <1>1. m \in Modes /\ PsrOf(a).mode = m /\ PsrOf(a) \in Psr
    BY ModeBitsType, Stay
  <1>2. CASE m = a.mode
    <2>1. Reconsider(a) = a
      BY <1>2 DEF Reconsider
    <2>2. StatusIn(a)
      BY <1>2 DEF StatusIn, ModeBits
    <2>. QED BY <1>1, <1>2, <2>1, <2>2, Stay
  <1>3. CASE m # a.mode
    <2>1. Reconsider(a) = updatemode(a, m)
      BY <1>3 DEF Reconsider
    <2>2. ARM_MODE_32(m) /\ ARM_MODE_32(a.mode) => a.r16.mode = m
      BY DEF ModeBits
    <2>3. [PsrOf(a) EXCEPT !.mode = m] = PsrOf(a)
      BY <1>1 DEF Psr
    <2>. HIDE DEF m
    <2>4. StatusIn(updatemode(a, m)) /\ UserIn(updatemode(a, m)) /\ updatemode(a, m).r16.mode = m
      BY <1>1, <2>2, UpdateStatus, UpdateUser
    <2>5. CellOf(updatemode(a, m)) = CellOf(a) /\ updatemode(a, m).spsr = a.spsr
          /\ updatemode(a, m).mode = m
      BY <1>1, UpdateCells, UpdatedFields
    <2>6. /\ PsrOf(updatemode(a, m)) = PsrOf(a)
          /\ PcOf(updatemode(a, m)) = Clip(m, PcOf(a))
      BY <1>1, <2>3, Switch
    <2>. QED BY <1>1, <1>3, <2>1, <2>4, <2>5, <2>6
  <1>. QED BY <1>2, <1>3


-----------------------------------------------------------------------------
\* Every step keeps BanksSwitched and is a step of ArmBanks.

Inv == TypeOK /\ BanksSwitched

LEMMA InvFacts ==
  ASSUME Inv
  PROVE  /\ arm \in ArmType /\ UserIn(arm) /\ StatusIn(arm) /\ arm.mode \in Modes
         /\ arm.cpsr = IF ARM_MODE_32(arm.mode) THEN 16 ELSE 15
         /\ arm.memmode = IF ARM_MODE_PRIV(arm.mode) THEN 1 ELSE 0
         /\ ARM_MODE_32(arm.mode) => arm.r16.mode = arm.mode
         /\ arm.r15 \in Word /\ arm.r16 \in Psr /\ arm.spsr \in [Nibbles -> Psr]
         /\ PsrOf(arm) \in Psr /\ PcOf(arm) \in Word /\ PsrOf(arm).mode = ModeBits(arm)
         /\ PcOf(arm) = Clip(arm.mode, PcOf(arm)) /\ PcOf(arm).pc = arm.r15.pc
  <1>1. arm \in ArmType /\ UserIn(arm) /\ StatusIn(arm)
    BY DEF Inv, TypeOK, BanksSwitched
  <1>2. /\ arm.cpsr = IF ARM_MODE_32(arm.mode) THEN 16 ELSE 15
        /\ ARM_MODE_32(arm.mode) => arm.r16.mode = arm.mode
        /\ arm.memmode = IF ARM_MODE_PRIV(arm.mode) THEN 1 ELSE 0
    BY <1>1 DEF StatusIn
  <1>3. arm.mode \in Modes /\ arm.r15 \in Word /\ arm.r16 \in Psr /\ arm.spsr \in [Nibbles -> Psr]
    BY <1>1 DEF ArmType
  <1>4. PcOf(arm).pc = arm.r15.pc
    BY DEF PcOf, ZeroWord
  <1>. QED BY <1>1, <1>2, <1>3, <1>4, Stay

\* The steps of ArmBanks that do not write the whole of R15.
Ordinary ==
  \/ \E c \in Regs, w \in Values : Abstract!Write(c, w) \/ Abstract!WriteUser(c, w)
  \/ \E w \in Values : Abstract!Jump(w) \/ Abstract!Call(w) \/ Abstract!Return(w) \/ Abstract!Compare(w)
  \/ \E f \in Flags : Abstract!SetFlags(f)
  \/ Abstract!Note
  \/ \E fs \in {{"c"}, {"f"}, {"c", "f"}}, q \in Psrs :
        Abstract!WriteCpsr(fs, q) \/ Abstract!WriteSpsr(fs, q)
  \/ \E k \in Kinds : Abstract!Enter32(k) \/ Abstract!Enter26(k)
  \/ \E on \in BOOLEAN : Abstract!Configure(on)

LEMMA OrdinaryIsNext == Ordinary => Abstract!Next
  BY SameWords DEF Ordinary, Abstract!Next

\* The goal of each step lemma but that of a write to the whole of R15.
Good == BanksSwitched' /\ (Ordinary \/ UNCHANGED Abstract!vars)

LEMMA StepWriteReg ==
  ASSUME Inv, NEW c \in Regs, NEW w \in Values, WriteReg(c, w)
  PROVE  Good
  <1>1. /\ arm' = [arm EXCEPT !.reg[c] = w] /\ prog32' = prog32
        /\ arm \in ArmType /\ w \in Word
    BY InvFacts DEF WriteReg
  <1>2. /\ arm'.r15 = arm.r15 /\ arm'.r16 = arm.r16 /\ arm'.mode = arm.mode
        /\ arm'.cpsr = arm.cpsr /\ arm'.usrregs = arm.usrregs /\ arm'.spsr = arm.spsr
        /\ arm'.memmode = arm.memmode
    BY <1>1 DEF ArmType
  <1>3. BanksSwitched'
    BY <1>2, InvFacts DEF BanksSwitched, StatusIn, UserIn
  <1>4. CellOf(arm') = [CellOf(arm) EXCEPT ![Live(arm.mode, c)][c] = w]
    BY <1>1, InvFacts, CellWrite
  <1>5. PsrOf(arm') = PsrOf(arm) /\ PcOf(arm') = PcOf(arm)
    BY <1>2 DEF PsrOf, PcOf
  <1>6. Abstract!Write(c, w)
    BY <1>1, <1>2, <1>4, <1>5, SameWords DEF Abstract!Write
  <1>. QED BY <1>3, <1>6, SameWords DEF Good, Ordinary

LEMMA StepLoadUserBank ==
  ASSUME Inv, NEW c \in Regs, NEW w \in Values, LoadUserBank(c, w)
  PROVE  Good
  <1>1. /\ arm' = IF arm.usrregs[c] = "reg" THEN [arm EXCEPT !.reg[c] = w]
                                            ELSE [arm EXCEPT !.banked[USER][c] = w]
        /\ prog32' = prog32 /\ arm \in ArmType /\ w \in Word
    BY InvFacts DEF LoadUserBank
  <1>2. /\ arm'.r15 = arm.r15 /\ arm'.r16 = arm.r16 /\ arm'.mode = arm.mode
        /\ arm'.cpsr = arm.cpsr /\ arm'.usrregs = arm.usrregs /\ arm'.spsr = arm.spsr
        /\ arm'.memmode = arm.memmode
    BY <1>1 DEF ArmType
  <1>3. BanksSwitched'
    BY <1>2, InvFacts DEF BanksSwitched, StatusIn, UserIn
  <1>4. CellOf(arm') = [CellOf(arm) EXCEPT ![USER][c] = w]
    <2>1. CASE arm.usrregs[c] = "reg"
      <3>1. Live(arm.mode, c) = USER
        BY <2>1, InvFacts DEF UserIn
      <3>2. CellOf([arm EXCEPT !.reg[c] = w]) = [CellOf(arm) EXCEPT ![Live(arm.mode, c)][c] = w]
        BY <1>1, InvFacts, CellWrite
      <3>. QED BY <1>1, <2>1, <3>1, <3>2
    <2>2. CASE arm.usrregs[c] # "reg"
      BY <1>1, <2>2, InvFacts, CellWriteUser
    <2>. QED BY <2>1, <2>2
  <1>5. PsrOf(arm') = PsrOf(arm) /\ PcOf(arm') = PcOf(arm)
    BY <1>2 DEF PsrOf, PcOf
  <1>6. Abstract!WriteUser(c, w)
    BY <1>1, <1>2, <1>4, <1>5, SameWords DEF Abstract!WriteUser
  <1>. QED BY <1>3, <1>6, SameWords DEF Good, Ordinary

\* R15 read as an operand is the word ArmBanks says.
LEMMA R15Reads == Inv => Abstract!R15 = arm.r15
  <1>. SUFFICES ASSUME Inv PROVE Abstract!R15 = arm.r15
    OBVIOUS
  <1>1. CASE ARM_MODE_32(arm.mode)
    BY <1>1, InvFacts, SameWords DEF Abstract!R15, PcOf
  <1>2. CASE ~ARM_MODE_32(arm.mode)
    <2>1. Abstract!R15 = [nzcv |-> arm.r15.nzcv, ints |-> arm.r15.ints, pc |-> arm.r15.pc,
                          m |-> arm.r15.m]
      <3>1. PsrOf(arm).nzcv = arm.r15.nzcv /\ PsrOf(arm).ints = arm.r15.ints
            /\ PsrOf(arm).mode = arm.r15.m
        BY <1>2, InvFacts DEF PsrOf
      <3>. QED BY <1>2, <3>1, InvFacts, SameWords DEF Abstract!R15
    <2>. QED BY <2>1, InvFacts DEF Word
  <1>. QED BY <1>1, <1>2

\* A state that differs from arm in R15 alone: the status and the address.
LEMMA NewR15 ==
  ASSUME Inv, NEW w \in Word, NEW b \in ArmType, b.r15 = w, b.r16 = arm.r16,
         b.mode = arm.mode, b.cpsr = arm.cpsr, b.memmode = arm.memmode
  PROVE  /\ StatusIn(b)
         /\ PcOf(b) = Clip(arm.mode, w)
         /\ PsrOf(b) = IF ARM_MODE_32(arm.mode) THEN PsrOf(arm)
                       ELSE [nzcv |-> w.nzcv, ints |-> w.ints, mode |-> w.m]
  <1>1. StatusIn(b)
    BY InvFacts DEF StatusIn
  <1>2. CASE ARM_MODE_32(arm.mode)
    BY <1>1, <1>2, InvFacts DEF PsrOf, PcOf, Clip
  <1>3. CASE ~ARM_MODE_32(arm.mode)
    BY <1>1, <1>3, InvFacts DEF PsrOf, PcOf, Clip
  <1>. QED BY <1>2, <1>3

LEMMA JumpedFacts ==
  ASSUME Inv, NEW w \in Word, NEW b \in ArmType, b.r15 = Jumped(w), b.r16 = arm.r16,
         b.mode = arm.mode, b.cpsr = arm.cpsr, b.memmode = arm.memmode
  PROVE  StatusIn(b) /\ PsrOf(b) = PsrOf(arm) /\ PcOf(b) = Abstract!Target(w)
  <1>1. /\ Jumped(w) \in Word /\ Jumped(w).m = arm.r15.m /\ Jumped(w).pc = w.pc
        /\ ~ARM_MODE_32(arm.mode) => Jumped(w).nzcv = arm.r15.nzcv /\ Jumped(w).ints = arm.r15.ints
        /\ ARM_MODE_32(arm.mode) => Jumped(w) = [w EXCEPT !.m = arm.r15.m]
    BY InvFacts DEF Jumped, Word
  <1>2. /\ StatusIn(b) /\ PcOf(b) = Clip(arm.mode, Jumped(w))
        /\ PsrOf(b) = IF ARM_MODE_32(arm.mode) THEN PsrOf(arm)
                      ELSE [nzcv |-> Jumped(w).nzcv, ints |-> Jumped(w).ints, mode |-> Jumped(w).m]
    BY <1>1, NewR15
  <1>3. PsrOf(b) = PsrOf(arm)
    <2>1. CASE ARM_MODE_32(arm.mode)
      BY <1>2, <2>1
    <2>2. CASE ~ARM_MODE_32(arm.mode)
      BY <1>1, <1>2, <2>2, InvFacts DEF PsrOf
    <2>. QED BY <2>1, <2>2
  <1>4. Clip(arm.mode, Jumped(w)) = Abstract!Target(w)
    <2>1. CASE ARM_MODE_32(arm.mode)
      <3>1. PcOf(arm) = arm.r15
        BY <2>1, InvFacts DEF PcOf
      <3>. QED BY <1>1, <2>1, <3>1, SameWords DEF Abstract!Target, Clip
    <2>2. CASE ~ARM_MODE_32(arm.mode)
      <3>1. [w EXCEPT !.m = PcOf(arm).m].pc = w.pc
        BY DEF Word
      <3>. QED BY <1>1, <2>2, <3>1, SameWords DEF Abstract!Target, Clip
    <2>. QED BY <2>1, <2>2
  <1>. QED BY <1>2, <1>3, <1>4

LEMMA StepWritePc ==
  ASSUME Inv, NEW w \in Values, WritePc(w), TypeOK'
  PROVE  Good
  <1>1. /\ arm' = [arm EXCEPT !.r15 = Jumped(w)] /\ prog32' = prog32
        /\ arm \in ArmType /\ arm' \in ArmType /\ w \in Word
    BY InvFacts DEF WritePc, TypeOK
  <1>2. /\ arm'.r15 = Jumped(w) /\ arm'.r16 = arm.r16 /\ arm'.mode = arm.mode
        /\ arm'.cpsr = arm.cpsr /\ arm'.memmode = arm.memmode /\ arm'.spsr = arm.spsr
        /\ Same(arm, arm')
    BY <1>1 DEF ArmType, Same
  <1>3. StatusIn(arm') /\ PsrOf(arm') = PsrOf(arm) /\ PcOf(arm') = Abstract!Target(w)
    BY <1>1, <1>2, JumpedFacts
  <1>4. UserIn(arm') /\ CellOf(arm') = CellOf(arm)
    BY <1>1, <1>2, InvFacts, CellSame
  <1>5. Abstract!Jump(w)
    BY <1>1, <1>2, <1>3, <1>4 DEF Abstract!Jump
  <1>. QED BY <1>3, <1>4, <1>5 DEF Good, Ordinary, BanksSwitched

LEMMA StepOverwrite ==
  ASSUME Inv, NEW w \in Values, WriteR15(w) \/ CoprocessorR15(w), TypeOK'
  PROVE  BanksSwitched' /\ Abstract!Next
  <1>. DEFINE r == arm'.r15
  <1>1. /\ arm' = [arm EXCEPT !.r15 = r] /\ prog32' = prog32
        /\ arm \in ArmType /\ arm' \in ArmType /\ w \in Word /\ r \in Word
    BY InvFacts DEF WriteR15, CoprocessorR15, TypeOK, ArmType
  <1>2. /\ arm'.r16 = arm.r16 /\ arm'.mode = arm.mode
        /\ arm'.cpsr = arm.cpsr /\ arm'.memmode = arm.memmode /\ arm'.spsr = arm.spsr
        /\ Same(arm, arm')
    <2>. HIDE DEF r
    <2>. QED BY <1>1 DEF ArmType, Same
  <1>3. /\ StatusIn(arm') /\ PcOf(arm') = Clip(arm.mode, r)
        /\ PsrOf(arm') = IF ARM_MODE_32(arm.mode) THEN PsrOf(arm)
                         ELSE [nzcv |-> r.nzcv, ints |-> r.ints, mode |-> r.m]
    BY <1>1, <1>2, NewR15
  <1>4. UserIn(arm') /\ CellOf(arm') = CellOf(arm)
    BY <1>1, <1>2, InvFacts, CellSame
  <1>5. CASE WriteR15(w)
    <2>1. r = w
      BY <1>1, <1>5 DEF WriteR15, ArmType
    <2>2. Abstract!Overwrite(w)
      BY <1>1, <1>2, <1>3, <1>4, <2>1, SameWords DEF Abstract!Overwrite, Abstract!StatusIn
    <2>. QED BY <1>3, <1>4, <2>2 DEF Abstract!Next, BanksSwitched
  <1>6. CASE CoprocessorR15(w)
    <2>1. r = IF ARM_MODE_32(arm.mode) THEN [arm.r15 EXCEPT !.m = w.m] ELSE [w EXCEPT !.pc = arm.r15.pc]
      BY <1>1, <1>6 DEF CoprocessorR15, ArmType
    <2>2. ASSUME ARM_MODE_32(arm.mode) PROVE Abstract!OverwriteStatus(w)
      <3>1. PcOf(arm') = [PcOf(arm) EXCEPT !.m = w.m]
        BY <1>3, <2>1, <2>2, InvFacts DEF PcOf, Clip
      <3>. QED BY <1>1, <1>2, <1>3, <1>4, <2>2, <3>1, SameWords DEF Abstract!OverwriteStatus
    <2>3. ASSUME ~ARM_MODE_32(arm.mode) PROVE Abstract!OverwriteStatus(w)
      <3>1. r.nzcv = w.nzcv /\ r.ints = w.ints /\ r.m = w.m /\ r.pc = arm.r15.pc
        BY <1>1, <2>1, <2>3 DEF Word
      <3>2. PcOf(arm') = PcOf(arm)
        BY <1>3, <2>3, <3>1, InvFacts DEF Clip
      <3>3. PsrOf(arm') = Abstract!StatusIn(w)
        BY <1>3, <2>3, <3>1 DEF Abstract!StatusIn
      <3>. QED BY <1>1, <1>2, <1>4, <2>3, <3>2, <3>3, SameWords DEF Abstract!OverwriteStatus
    <2>4. Abstract!OverwriteStatus(w)
      BY <2>2, <2>3
    <2>. QED BY <1>3, <1>4, <2>4 DEF Abstract!Next, BanksSwitched
  <1>. QED BY <1>5, <1>6

LEMMA StepBranchLink ==
  ASSUME Inv, NEW w \in Values, BranchLink(w), TypeOK'
  PROVE  Good
  <1>. DEFINE b == [arm EXCEPT !.reg[Link] = arm.r15]
  <1>1. /\ arm' = [arm EXCEPT !.reg[Link] = arm.r15, !.r15 = Jumped(w)] /\ prog32' = prog32
        /\ arm \in ArmType /\ arm' \in ArmType /\ w \in Word /\ Link \in Regs
    BY InvFacts DEF BranchLink, TypeOK, Regs
  <1>2. /\ arm'.r15 = Jumped(w) /\ arm'.r16 = arm.r16 /\ arm'.mode = arm.mode
        /\ arm'.cpsr = arm.cpsr /\ arm'.memmode = arm.memmode /\ arm'.spsr = arm.spsr
        /\ arm'.usrregs = arm.usrregs
        /\ Same(b, arm') /\ b \in ArmType
    BY <1>1, InvFacts DEF ArmType, Same
  <1>3. StatusIn(arm') /\ PsrOf(arm') = PsrOf(arm) /\ PcOf(arm') = Abstract!Target(w)
    BY <1>1, <1>2, JumpedFacts
  <1>4. CellOf(b) = [CellOf(arm) EXCEPT ![Live(arm.mode, Link)][Link] = arm.r15]
    BY <1>1, InvFacts, CellWrite
  <1>5. CellOf(arm') = CellOf(b)
    BY <1>1, <1>2, CellSame
  <1>6. UserIn(arm')
    BY <1>2, InvFacts DEF UserIn
  <1>7. Abstract!Call(w)
    BY <1>1, <1>2, <1>3, <1>4, <1>5, SameWords, R15Reads DEF Abstract!Call
  <1>. QED BY <1>3, <1>6, <1>7 DEF Good, Ordinary, BanksSwitched

LEMMA StepSetFlags ==
  ASSUME Inv, NEW f \in Flags, SetFlags(f), TypeOK'
  PROVE  Good
  <1>1. /\ arm' = IF arm.cpsr = 16 THEN [arm EXCEPT !.r16.nzcv = f] ELSE [arm EXCEPT !.r15.nzcv = f]
        /\ prog32' = prog32 /\ arm \in ArmType /\ arm' \in ArmType
    BY InvFacts DEF SetFlags, TypeOK
  <1>2. /\ arm'.mode = arm.mode /\ arm'.cpsr = arm.cpsr /\ arm'.memmode = arm.memmode
        /\ arm'.spsr = arm.spsr /\ Same(arm, arm')
        /\ arm'.r16 = IF arm.cpsr = 16 THEN [arm.r16 EXCEPT !.nzcv = f] ELSE arm.r16
        /\ arm'.r15 = IF arm.cpsr = 16 THEN arm.r15 ELSE [arm.r15 EXCEPT !.nzcv = f]
    BY <1>1 DEF ArmType, Same
  <1>3. StatusIn(arm') /\ arm'.r16.mode = arm.r16.mode
    BY <1>2, InvFacts DEF StatusIn, Psr
  <1>4. UserIn(arm') /\ CellOf(arm') = CellOf(arm)
    BY <1>1, <1>2, InvFacts, CellSame
  <1>5. PsrOf(arm') = [PsrOf(arm) EXCEPT !.nzcv = f]
    BY <1>2, InvFacts DEF PsrOf, Word
  <1>6. PcOf(arm') = PcOf(arm)
    BY <1>2, InvFacts DEF PcOf, Word
  <1>7. Abstract!SetFlags(f)
    BY <1>1, <1>2, <1>3, <1>4, <1>5, <1>6 DEF Abstract!SetFlags
  <1>. QED BY <1>3, <1>4, <1>7 DEF Good, Ordinary, BanksSwitched

LEMMA StepReadCpsr ==
  ASSUME Inv, ReadCpsr, TypeOK'
  PROVE  Good
  <1>. DEFINE r == [nzcv |-> arm.r15.nzcv, ints |-> arm.r15.ints, mode |-> arm.r15.m]
  <1>1. /\ arm' = IF ARM_MODE_32(arm.mode) THEN arm ELSE [arm EXCEPT !.r16 = r]
        /\ prog32' = prog32 /\ arm \in ArmType /\ arm' \in ArmType
    BY InvFacts DEF ReadCpsr, TypeOK
  <1>2. /\ arm'.mode = arm.mode /\ arm'.cpsr = arm.cpsr /\ arm'.memmode = arm.memmode
        /\ arm'.spsr = arm.spsr /\ Same(arm, arm') /\ arm'.r15 = arm.r15
        /\ ARM_MODE_32(arm.mode) => arm'.r16 = arm.r16
        /\ arm'.r16.mode = ModeBits(arm)
    BY <1>1, InvFacts DEF ArmType, Same, ModeBits
  <1>3. StatusIn(arm')
    BY <1>2, InvFacts DEF StatusIn
  <1>4. UserIn(arm') /\ CellOf(arm') = CellOf(arm)
    BY <1>1, <1>2, InvFacts, CellSame
  <1>5. PsrOf(arm') = PsrOf(arm) /\ PcOf(arm') = PcOf(arm)
    BY <1>2, InvFacts DEF PsrOf, PcOf
  <1>6. Abstract!Note
    BY <1>1, <1>2, <1>4, <1>5, InvFacts DEF Abstract!Note
  <1>. QED BY <1>3, <1>4, <1>6 DEF Good, Ordinary, BanksSwitched

LEMMA StepWriteR15 ==
  ASSUME Inv, NEW w \in Values, arm_write_r15(w), TypeOK'
  PROVE  Good
  <1>. DEFINE written == IF ARM_MODE_32(arm.mode) THEN [w EXCEPT !.m = arm.r15.m]
                         ELSE IF ARM_MODE_PRIV(arm.mode) THEN w
                         ELSE [w EXCEPT !.ints = arm.r15.ints, !.m = arm.r15.m]
              a == [arm EXCEPT !.r15 = written]
              n == Nibble(arm.mode)
  <1>1. /\ arm' = IF ~ARM_MODE_PRIV(arm.mode) THEN a
                  ELSE Reconsider(IF ARM_MODE_32(arm.mode) THEN CopySpsr(a) ELSE a)
        /\ prog32' = prog32 /\ arm \in ArmType /\ w \in Word
    BY InvFacts DEF arm_write_r15
  <1>2. /\ written \in Word /\ written.pc = w.pc
        /\ ARM_MODE_32(arm.mode) => written = [w EXCEPT !.m = arm.r15.m]
        /\ ~ARM_MODE_32(arm.mode) /\ ~ARM_MODE_PRIV(arm.mode) =>
             written.nzcv = w.nzcv /\ written.ints = arm.r15.ints /\ written.m = arm.r15.m
        /\ ~ARM_MODE_32(arm.mode) /\ ARM_MODE_PRIV(arm.mode) => written = w
    BY <1>1, InvFacts DEF Word
  <1>. HIDE DEF written
  <1>3. /\ a \in ArmType /\ a.r15 = written /\ a.r16 = arm.r16 /\ a.mode = arm.mode
        /\ a.cpsr = arm.cpsr /\ a.memmode = arm.memmode /\ a.spsr = arm.spsr /\ Same(arm, a)
    BY <1>1, <1>2 DEF ArmType, Same
  <1>. HIDE DEF a
  <1>4. /\ StatusIn(a) /\ PcOf(a) = Clip(arm.mode, written)
        /\ PsrOf(a) = IF ARM_MODE_32(arm.mode) THEN PsrOf(arm)
                      ELSE [nzcv |-> written.nzcv, ints |-> written.ints, mode |-> written.m]
    BY <1>2, <1>3, NewR15
  <1>5. UserIn(a) /\ CellOf(a) = CellOf(arm)
    BY <1>1, <1>3, InvFacts, CellSame
  <1>6. PcOf(a) = Abstract!Target(w)
    <2>1. CASE ARM_MODE_32(arm.mode)
      <3>1. PcOf(arm) = arm.r15
        BY <2>1, InvFacts DEF PcOf
      <3>. QED BY <1>2, <1>4, <2>1, <3>1, SameWords DEF Abstract!Target, Clip
    <2>2. CASE ~ARM_MODE_32(arm.mode)
      <3>1. [w EXCEPT !.m = PcOf(arm).m].pc = w.pc
        BY <1>1 DEF Word
      <3>. QED BY <1>2, <1>4, <2>2, <3>1, SameWords DEF Abstract!Target, Clip
    <2>. QED BY <2>1, <2>2
  <1>7. CASE ~ARM_MODE_PRIV(arm.mode)
    <2>1. PsrOf(a) = Abstract!Restored(w)
      <3>1. CASE ARM_MODE_32(arm.mode)
        BY <1>4, <1>7, <3>1, SameWords DEF Abstract!Restored
      <3>2. CASE ~ARM_MODE_32(arm.mode)
        <4>1. PsrOf(arm) = [nzcv |-> arm.r15.nzcv, ints |-> arm.r15.ints, mode |-> arm.r15.m]
          BY <3>2, InvFacts DEF PsrOf
        <4>2. Abstract!Restored(w) = [PsrOf(arm) EXCEPT !.nzcv = w.nzcv]
          BY <1>7, <3>2, SameWords DEF Abstract!Restored
        <4>. QED BY <1>2, <1>4, <1>7, <3>2, <4>1, <4>2
      <3>. QED BY <3>1, <3>2
    <2>2. PcOf(a) = Clip(arm.mode, Abstract!Target(w))
      BY <1>3, <1>4, <1>6, Stay DEF StatusIn
    <2>3. Abstract!Return(w)
      BY <1>1, <1>3, <1>5, <1>7, <2>1, <2>2, SameWords DEF Abstract!Return
    <2>. QED BY <1>1, <1>4, <1>5, <1>7, <2>3 DEF Good, Ordinary, BanksSwitched
  <1>8. ASSUME ARM_MODE_PRIV(arm.mode), NEW b \in ArmType, arm' = Reconsider(b), UserIn(b),
               b.mode = arm.mode, b.cpsr = arm.cpsr, b.memmode = arm.memmode, b.spsr = arm.spsr,
               CellOf(b) = CellOf(arm), PcOf(b) = PcOf(a), PsrOf(b) = Abstract!Restored(w),
               PsrOf(b).mode = arm.mode => b.r16.mode = arm.r16.mode
        PROVE  Good
    <2>1. /\ StatusIn(arm') /\ UserIn(arm') /\ CellOf(arm') = CellOf(arm) /\ arm'.spsr = arm.spsr
          /\ arm'.mode = PsrOf(b).mode
          /\ arm'.r16.mode = IF PsrOf(b).mode = b.mode THEN b.r16.mode ELSE PsrOf(b).mode
          /\ PsrOf(arm') = PsrOf(b) /\ PcOf(arm') = Clip(PsrOf(b).mode, PcOf(b))
      BY <1>8, InvFacts, ReconsiderFacts
    <2>2. Abstract!Settle
      BY <1>8, <2>1 DEF Abstract!Settle
    <2>3. Abstract!Return(w)
      BY <1>1, <1>6, <1>8, <2>1, <2>2, SameWords DEF Abstract!Return
    <2>. QED BY <1>1, <2>1, <2>3 DEF Good, Ordinary, BanksSwitched
  <1>9. CASE ARM_MODE_PRIV(arm.mode) /\ ARM_MODE_32(arm.mode)
    <2>. DEFINE b == CopySpsr(a)
    <2>1. b \in ArmType /\ b = [a EXCEPT !.r16 = arm.spsr[n]]
      BY <1>3, CopySpsrType DEF CopySpsr
    <2>2. /\ b.r15 = a.r15 /\ b.r16 = arm.spsr[n] /\ b.mode = arm.mode
          /\ b.cpsr = arm.cpsr /\ b.memmode = arm.memmode /\ b.spsr = arm.spsr /\ Same(a, b)
      BY <1>3, <2>1 DEF ArmType, Same
    <2>. HIDE DEF b
    <2>3. UserIn(b) /\ CellOf(b) = CellOf(arm)
      BY <1>3, <1>5, <2>1, <2>2, CellSame
    <2>4. PsrOf(b) = arm.spsr[n] /\ PcOf(b) = PcOf(a)
      BY <1>3, <1>9, <2>2, InvFacts DEF PsrOf, PcOf
    <2>5. Abstract!Restored(w) = arm.spsr[n]
      BY <1>9, InvFacts, SameWords DEF Abstract!Restored
    <2>6. arm' = Reconsider(b)
      BY <1>1, <1>9 DEF b
    <2>7. PsrOf(b).mode = arm.mode => b.r16.mode = arm.r16.mode
      BY <1>9, <2>2, <2>4, InvFacts
    <2>. QED BY <1>8, <1>9, <2>1, <2>2, <2>3, <2>4, <2>5, <2>6, <2>7
  <1>10. CASE ARM_MODE_PRIV(arm.mode) /\ ~ARM_MODE_32(arm.mode)
    <2>1. PsrOf(a) = Abstract!Restored(w)
      BY <1>2, <1>4, <1>10, InvFacts, SameWords DEF Abstract!Restored, Abstract!StatusIn
    <2>2. arm' = Reconsider(a)
      BY <1>1, <1>10
    <2>. QED BY <1>3, <1>5, <1>8, <1>10, <2>1, <2>2
  <1>. QED BY <1>7, <1>9, <1>10

LEMMA StepCompare ==
  ASSUME Inv, NEW w \in Values, arm_compare_rd15(w), TypeOK'
  PROVE  Good
  <1>. DEFINE psrBits == IF ARM_MODE_PRIV(arm.mode) THEN [w EXCEPT !.pc = arm.r15.pc]
                         ELSE [arm.r15 EXCEPT !.nzcv = w.nzcv]
              n == Nibble(arm.mode)
              a == IF ~ARM_MODE_32(arm.mode) THEN [arm EXCEPT !.r15 = psrBits]
                   ELSE IF ARM_MODE_PRIV(arm.mode) THEN CopySpsr(arm) ELSE arm
  <1>1. arm' = Reconsider(a) /\ prog32' = prog32 /\ arm \in ArmType /\ w \in Word
    BY InvFacts DEF arm_compare_rd15
  <1>2. /\ psrBits \in Word /\ psrBits.pc = arm.r15.pc /\ psrBits.nzcv = w.nzcv
        /\ ARM_MODE_PRIV(arm.mode) => psrBits.ints = w.ints /\ psrBits.m = w.m
        /\ ~ARM_MODE_PRIV(arm.mode) => psrBits.ints = arm.r15.ints /\ psrBits.m = arm.r15.m
    BY <1>1, InvFacts DEF Word
  <1>. HIDE DEF psrBits
  <1>3. CopySpsr(arm) \in ArmType /\ CopySpsr(arm) = [arm EXCEPT !.r16 = arm.spsr[n]]
    BY <1>1, CopySpsrType DEF CopySpsr
  <1>4. /\ a \in ArmType /\ a.mode = arm.mode /\ a.cpsr = arm.cpsr /\ a.memmode = arm.memmode
        /\ a.spsr = arm.spsr /\ Same(arm, a)
        /\ a.r15 = IF ARM_MODE_32(arm.mode) THEN arm.r15 ELSE psrBits
        /\ a.r16 = IF ARM_MODE_32(arm.mode) /\ ARM_MODE_PRIV(arm.mode) THEN arm.spsr[n] ELSE arm.r16
    BY <1>1, <1>2, <1>3 DEF ArmType, Same
  <1>. HIDE DEF a
  <1>5. UserIn(a) /\ CellOf(a) = CellOf(arm)
    BY <1>1, <1>4, InvFacts, CellSame
  <1>6. PcOf(a) = PcOf(arm)
    BY <1>2, <1>4, InvFacts DEF PcOf
  <1>7. PsrOf(a) = Abstract!Restored(w)
    <2>1. CASE ARM_MODE_32(arm.mode)
      BY <1>4, <2>1, InvFacts, SameWords DEF PsrOf, Abstract!Restored
    <2>2. CASE ~ARM_MODE_32(arm.mode) /\ ARM_MODE_PRIV(arm.mode)
      BY <1>2, <1>4, <2>2, InvFacts, SameWords DEF PsrOf, Abstract!Restored, Abstract!StatusIn
    <2>3. CASE ~ARM_MODE_32(arm.mode) /\ ~ARM_MODE_PRIV(arm.mode)
      <3>1. PsrOf(a) = [nzcv |-> w.nzcv, ints |-> arm.r15.ints, mode |-> arm.r15.m]
        BY <1>2, <1>4, <2>3, InvFacts DEF PsrOf
      <3>2. PsrOf(arm) = [nzcv |-> arm.r15.nzcv, ints |-> arm.r15.ints, mode |-> arm.r15.m]
        BY <2>3, InvFacts DEF PsrOf
      <3>3. Abstract!Restored(w) = [PsrOf(arm) EXCEPT !.nzcv = w.nzcv]
        BY <2>3, InvFacts, SameWords DEF Abstract!Restored
      <3>. QED BY <3>1, <3>2, <3>3
    <2>. QED BY <2>1, <2>2, <2>3
  <1>8. PsrOf(a).mode = arm.mode => a.r16.mode = arm.r16.mode
    <2>1. CASE ARM_MODE_32(arm.mode)
      BY <1>4, <2>1, InvFacts DEF PsrOf
    <2>2. CASE ~ARM_MODE_32(arm.mode)
      BY <1>4, <2>2
    <2>. QED BY <2>1, <2>2
  <1>9. /\ StatusIn(arm') /\ UserIn(arm') /\ CellOf(arm') = CellOf(arm) /\ arm'.spsr = arm.spsr
        /\ arm'.mode = PsrOf(a).mode
        /\ arm'.r16.mode = IF PsrOf(a).mode = a.mode THEN a.r16.mode ELSE PsrOf(a).mode
        /\ PsrOf(arm') = PsrOf(a) /\ PcOf(arm') = Clip(PsrOf(a).mode, PcOf(arm))
    BY <1>1, <1>4, <1>5, <1>6, InvFacts, ReconsiderFacts
  <1>10. Abstract!Settle
    BY <1>4, <1>8, <1>9 DEF Abstract!Settle
  <1>11. Abstract!Compare(w)
    BY <1>1, <1>7, <1>9, <1>10, SameWords DEF Abstract!Compare
  <1>. QED BY <1>1, <1>9, <1>11 DEF Good, Ordinary, BanksSwitched

LEMMA StepWriteCpsr ==
  ASSUME Inv, NEW fields \in {{"c"}, {"f"}, {"c", "f"}}, NEW q \in Psrs,
         arm_write_cpsr(fields, q), TypeOK'
  PROVE  Good
  <1>. DEFINE fs == IF ARM_MODE_PRIV(arm.mode) THEN fields ELSE fields \ {"c"}
              a  == [arm EXCEPT !.r16 = Fields(fs, @, q),
                                !.r15 = IF ARM_MODE_32(arm.mode) THEN @ ELSE FieldsR15(fs, @, q)]
              t  == IF "c" \in fs THEN q.mode ELSE arm.r16.mode
              merged == Abstract!Merge(fs, PsrOf(arm), q)
  <1>1. /\ arm' = IF a.r16.mode # arm.mode THEN updatemode(a, a.r16.mode) ELSE a
        /\ prog32' = prog32 /\ arm \in ArmType /\ q \in Psr
    BY InvFacts DEF arm_write_cpsr
  <1>2. Abstract!WriteCpsr(fields, q) <=>
          /\ arm'.mode = t /\ arm'.r16.mode = arm'.mode
          /\ PsrOf(arm') = [merged EXCEPT !.mode = IF ARM_MODE_32(arm'.mode) THEN arm'.mode ELSE @]
          /\ PcOf(arm') = Clip(arm'.mode, PcOf(arm))
          /\ CellOf(arm') = CellOf(arm) /\ arm'.spsr = arm.spsr /\ prog32' = prog32
    BY InvFacts, SameWords DEF Abstract!WriteCpsr
  <1>. HIDE DEF fs
  <1>3. /\ Fields(fs, arm.r16, q) \in Psr
        /\ Fields(fs, arm.r16, q).nzcv = IF "f" \in fs THEN q.nzcv ELSE arm.r16.nzcv
        /\ Fields(fs, arm.r16, q).ints = IF "c" \in fs THEN q.ints ELSE arm.r16.ints
        /\ Fields(fs, arm.r16, q).mode = t
    BY <1>1, InvFacts, FieldsType DEF Fields
  <1>4. /\ FieldsR15(fs, arm.r15, q) \in Word
        /\ FieldsR15(fs, arm.r15, q).pc = arm.r15.pc
        /\ FieldsR15(fs, arm.r15, q).nzcv = IF "f" \in fs THEN q.nzcv ELSE arm.r15.nzcv
        /\ FieldsR15(fs, arm.r15, q).ints = IF "c" \in fs THEN q.ints ELSE arm.r15.ints
        /\ FieldsR15(fs, arm.r15, q).m    = IF "c" \in fs THEN q.mode % 4 ELSE arm.r15.m
    <2>1. arm.r15 \in Word
      BY InvFacts
    <2>2. FieldsR15(fs, arm.r15, q) \in Word
      BY <1>1, <2>1, FieldsR15Type
    <2>. QED BY <2>1, <2>2 DEF FieldsR15, Word
  <1>5. t \in Modes /\ (~ARM_MODE_32(t) => t % 4 = t)
    <2>1. t \in Modes
      BY <1>1, InvFacts DEF Psr
    <2>2. ~ARM_MODE_32(t) => t \in 0 .. 3
      BY <2>1, ModeFacts
    <2>. QED BY <2>1, <2>2
  <1>6. /\ a \in ArmType /\ a.mode = arm.mode /\ a.cpsr = arm.cpsr /\ a.memmode = arm.memmode
        /\ a.spsr = arm.spsr /\ Same(arm, a) /\ a.r16 = Fields(fs, arm.r16, q)
        /\ a.r15 = IF ARM_MODE_32(arm.mode) THEN arm.r15 ELSE FieldsR15(fs, arm.r15, q)
    BY <1>1, <1>3, <1>4 DEF ArmType, Same
  <1>. HIDE DEF a
  <1>7. UserIn(a) /\ CellOf(a) = CellOf(arm)
    BY <1>1, <1>6, InvFacts, CellSame
  <1>8. PcOf(a) = PcOf(arm)
    BY <1>4, <1>6, InvFacts DEF PcOf
  <1>9. PsrOf(a) = IF ARM_MODE_32(arm.mode) THEN Fields(fs, arm.r16, q)
                   ELSE [nzcv |-> FieldsR15(fs, arm.r15, q).nzcv, ints |-> FieldsR15(fs, arm.r15, q).ints,
                         mode |-> FieldsR15(fs, arm.r15, q).m]
    BY <1>6, InvFacts DEF PsrOf
  <1>10. merged \in Psr /\ merged.mode = IF "c" \in fs THEN q.mode ELSE PsrOf(arm).mode
    BY <1>1, InvFacts DEF Abstract!Merge, Psr
  <1>11. CASE ARM_MODE_32(arm.mode)
    <2>1. PsrOf(arm) = arm.r16
      BY <1>11, InvFacts DEF PsrOf
    <2>2. PsrOf(a) = merged /\ merged.mode = t
      BY <1>9, <1>10, <1>11, <2>1 DEF Abstract!Merge, Fields
    <2>3. [merged EXCEPT !.mode = t] = merged /\ [merged EXCEPT !.mode = @] = merged
      <3>. HIDE DEF merged, t
      <3>. QED BY <1>10, <2>2 DEF Psr
    <2>4. CASE t = arm.mode
      <3>1. arm' = a
        BY <1>1, <1>3, <1>6, <2>4
      <3>2. StatusIn(a) /\ PcOf(a) = Clip(t, PcOf(arm))
        <4>. HIDE DEF t
        <4>. QED BY <1>3, <1>6, <1>8, <2>4, InvFacts DEF StatusIn
      <3>3. Abstract!WriteCpsr(fields, q)
        <4>. HIDE DEF t, merged
        <4>. QED BY <1>1, <1>2, <1>3, <1>6, <1>7, <2>2, <2>3, <2>4, <3>1, <3>2
      <3>. QED BY <1>1, <1>7, <3>1, <3>2, <3>3 DEF Good, Ordinary, BanksSwitched
    <2>5. CASE t # arm.mode
      <3>1. arm' = updatemode(a, t)
        BY <1>1, <1>3, <1>6, <2>5
      <3>. HIDE DEF t, merged
      <3>2. StatusIn(arm') /\ UserIn(arm') /\ arm'.r16.mode = t /\ arm'.mode = t
        BY <1>3, <1>5, <1>6, <3>1, UpdateStatus, UpdateUser, UpdatedFields, ZenonT(60)
      <3>3. CellOf(arm') = CellOf(arm) /\ arm'.spsr = arm.spsr
        BY <1>5, <1>6, <1>7, <3>1, UpdateCells, UpdatedFields
      <3>4. PsrOf(arm') = merged /\ PcOf(arm') = Clip(t, PcOf(arm))
        BY <1>5, <1>6, <1>8, <2>2, <2>3, <3>1, InvFacts, Switch
      <3>5. Abstract!WriteCpsr(fields, q)
        BY <1>1, <1>2, <2>3, <3>2, <3>3, <3>4
      <3>. QED BY <1>1, <3>2, <3>5 DEF Good, Ordinary, BanksSwitched
    <2>. QED BY <2>4, <2>5
  <1>12. CASE ~ARM_MODE_32(arm.mode)
    <2>1. PsrOf(arm) = [nzcv |-> arm.r15.nzcv, ints |-> arm.r15.ints, mode |-> arm.r15.m]
      BY <1>12, InvFacts DEF PsrOf
    <2>2. /\ [PsrOf(a) EXCEPT !.mode = t] = [merged EXCEPT !.mode = t]
          /\ ~ARM_MODE_32(t) => PsrOf(a) = merged
      <3>1. "c" \in fs => t = q.mode
        OBVIOUS
      <3>. HIDE DEF t
      <3>2. merged = [nzcv |-> IF "f" \in fs THEN q.nzcv ELSE arm.r15.nzcv,
                      ints |-> IF "c" \in fs THEN q.ints ELSE arm.r15.ints,
                      mode |-> IF "c" \in fs THEN q.mode ELSE arm.r15.m]
        BY <2>1 DEF Abstract!Merge
      <3>3. PsrOf(a) = [nzcv |-> IF "f" \in fs THEN q.nzcv ELSE arm.r15.nzcv,
                        ints |-> IF "c" \in fs THEN q.ints ELSE arm.r15.ints,
                        mode |-> IF "c" \in fs THEN q.mode % 4 ELSE arm.r15.m]
        BY <1>4, <1>9, <1>12
      <3>. HIDE DEF merged
      <3>. QED BY <1>5, <3>1, <3>2, <3>3
    <2>3. [merged EXCEPT !.mode = @] = merged
      <3>. HIDE DEF merged
      <3>. QED BY <1>10 DEF Psr
    <2>4. CASE t = arm.mode
      <3>1. arm' = a
        BY <1>1, <1>3, <1>6, <2>4
      <3>2. StatusIn(a) /\ PcOf(a) = Clip(t, PcOf(arm))
        <4>. HIDE DEF t
        <4>. QED BY <1>3, <1>6, <1>8, <2>4, InvFacts DEF StatusIn
      <3>3. Abstract!WriteCpsr(fields, q)
        <4>. HIDE DEF t, merged
        <4>. QED BY <1>1, <1>2, <1>3, <1>6, <1>7, <1>12, <2>2, <2>3, <2>4, <3>1, <3>2
      <3>. QED BY <1>1, <1>7, <3>1, <3>2, <3>3 DEF Good, Ordinary, BanksSwitched
    <2>5. CASE t # arm.mode
      <3>1. arm' = updatemode(a, t)
        BY <1>1, <1>3, <1>6, <2>5
      <3>. HIDE DEF t, merged
      <3>2. StatusIn(arm') /\ UserIn(arm') /\ arm'.r16.mode = t /\ arm'.mode = t
        BY <1>3, <1>5, <1>6, <3>1, UpdateStatus, UpdateUser, UpdatedFields, ZenonT(60)
      <3>3. CellOf(arm') = CellOf(arm) /\ arm'.spsr = arm.spsr
        BY <1>5, <1>6, <1>7, <3>1, UpdateCells, UpdatedFields
      <3>4. PsrOf(arm') = IF ARM_MODE_32(t) THEN [PsrOf(a) EXCEPT !.mode = t] ELSE PsrOf(a)
        BY <1>5, <1>6, <1>12, <3>1, InvFacts, Switch
      <3>5. PcOf(arm') = Clip(t, PcOf(arm))
        BY <1>5, <1>6, <1>8, <3>1, InvFacts, Switch
      <3>6. Abstract!WriteCpsr(fields, q)
        BY <1>1, <1>2, <2>2, <2>3, <3>2, <3>3, <3>4, <3>5
      <3>. QED BY <1>1, <3>2, <3>6 DEF Good, Ordinary, BanksSwitched
    <2>. QED BY <2>4, <2>5
  <1>. QED BY <1>11, <1>12

LEMMA StepWriteSpsr ==
  ASSUME Inv, NEW fields \in {{"c"}, {"f"}, {"c", "f"}}, NEW q \in Psrs,
         arm_write_spsr(fields, q), TypeOK'
  PROVE  Good
  <1>. DEFINE n == Nibble(arm.mode)
  <1>1. /\ arm' = [arm EXCEPT !.spsr[n] = Fields(fields, @, q)] /\ prog32' = prog32
        /\ ARM_MODE_HAS_SPSR(arm.mode) /\ arm \in ArmType /\ arm' \in ArmType
    BY InvFacts DEF arm_write_spsr, TypeOK
  <1>2. /\ arm'.r15 = arm.r15 /\ arm'.r16 = arm.r16 /\ arm'.mode = arm.mode
        /\ arm'.cpsr = arm.cpsr /\ arm'.memmode = arm.memmode /\ Same(arm, arm')
        /\ arm'.spsr = [arm.spsr EXCEPT ![n] = Fields(fields, @, q)]
    BY <1>1 DEF ArmType, Same
  <1>3. StatusIn(arm')
    BY <1>2, InvFacts DEF StatusIn
  <1>4. UserIn(arm') /\ CellOf(arm') = CellOf(arm)
    BY <1>1, <1>2, InvFacts, CellSame
  <1>5. PsrOf(arm') = PsrOf(arm) /\ PcOf(arm') = PcOf(arm)
    BY <1>2 DEF PsrOf, PcOf
  <1>6. Abstract!Merge(fields, arm.spsr[n], q) = Fields(fields, arm.spsr[n], q)
    BY DEF Abstract!Merge, Fields
  <1>7. Abstract!WriteSpsr(fields, q)
    BY <1>1, <1>2, <1>4, <1>5, <1>6, SameWords DEF Abstract!WriteSpsr
  <1>. QED BY <1>3, <1>4, <1>7, <1>1 DEF Good, Ordinary, BanksSwitched

LEMMA PsrFields ==
  ASSUME NEW e, NEW n, NEW i, NEW m,
         \/ e.cpsr = 16 /\ e.r16 \in Psr /\ e.r16.nzcv = n /\ e.r16.ints = i /\ e.r16.mode = m
         \/ e.cpsr = 15 /\ e.r15.nzcv = n /\ e.r15.ints = i /\ e.r15.m = m
  PROVE  /\ PsrOf(e) = [nzcv |-> n, ints |-> i, mode |-> m]
         /\ PsrOf(e).nzcv = n /\ PsrOf(e).ints = i
  BY DEF PsrOf, Psr

\* e is a entered through the 32-bit vector of k: what Enter32 says.
Enters32(a, e, k) ==
  /\ StatusIn(e) /\ UserIn(e) /\ e.mode = 16 + k /\ e.r16.mode = 16 + k
  /\ CellOf(e) = [CellOf(a) EXCEPT ![Live(16 + k, Link)][Link] = PcOf(a)]
  /\ PsrOf(e) = [nzcv |-> PsrOf(a).nzcv, ints |-> PsrOf(a).ints \cup irq_disable(k),
                 mode |-> 16 + k]
  /\ PcOf(e) = [ZeroWord EXCEPT !.pc = Vector[k]]
  /\ e.spsr = [a.spsr EXCEPT ![k] = PsrOf(a)]

LEMMA EnterFrom32 ==
  ASSUME NEW a \in ArmType, NEW k \in Exceptions, StatusIn(a), UserIn(a), ARM_MODE_32(a.mode)
  PROVE  Enters32(a, Exception32(a, k), k)
  <1>. DEFINE v == [ZeroWord EXCEPT !.pc = Vector[k]]
              s == [a EXCEPT !.spsr[k] = a.r16]
              b == updatemode(s, 16 + k)
              c == [b EXCEPT !.reg[Link] = a.r15]
              e == [b EXCEPT !.reg[Link] = a.r15, !.r16.mode = 16 + k,
                             !.r16.ints = @ \cup irq_disable(k), !.r15 = v]
  <1>1. /\ k \in Nibbles /\ 16 + k \in Modes /\ ARM_MODE_32(16 + k) /\ Link \in Regs
        /\ v \in Word /\ irq_disable(k) \in SUBSET IntBits
    BY NibbleFacts, WordFacts DEF Regs
  <1>2. /\ a.r15 \in Word /\ a.r16 \in Psr /\ a.spsr \in [Nibbles -> Psr]
        /\ a.cpsr = 16 /\ a.r16.mode = a.mode
    BY DEF ArmType, StatusIn
  <1>3. s \in ArmType /\ Same(a, s) /\ s.r15 = a.r15 /\ s.r16 = a.r16
        /\ s.spsr = [a.spsr EXCEPT ![k] = a.r16]
    BY <1>1, <1>2 DEF ArmType, Same
  <1>. HIDE DEF s
  <1>4. UserIn(s) /\ CellOf(s) = CellOf(a)
    BY <1>3, CellSame
  <1>5. b \in ArmType /\ UserIn(b) /\ CellOf(b) = CellOf(a)
    BY <1>1, <1>3, <1>4, UpdateType, UpdateUser, UpdateCells
  <1>6. b.mode = 16 + k
    BY <1>1, <1>3, UpdatedFields
  <1>7. b.cpsr = 16
    <2>1. b.cpsr = IF ARM_MODE_32(16 + k) THEN 16 ELSE 15
      BY <1>1, <1>3, UpdatedFields
    <2>. QED BY <1>1, <2>1
  <1>8. b.memmode = IF ARM_MODE_PRIV(16 + k) THEN 1 ELSE 0
    BY <1>1, <1>3, UpdatedFields
  <1>9. b.spsr = s.spsr
    BY <1>1, <1>3, UpdatedFields
  <1>10. b.r16 = a.r16
    <2>1. b.r16 = R16After(s, 16 + k)
      BY <1>1, <1>3, UpdatedFields
    <2>2. ARM_MODE_32(s.mode)
      BY <1>3 DEF Same
    <2>. QED BY <1>1, <1>3, <2>1, <2>2 DEF R16After
  <1>. HIDE DEF b
  <1>11. e = Exception32(a, k)
    BY DEF Exception32, b, s
  <1>12. c \in ArmType
    BY <1>1, <1>2, <1>5 DEF ArmType
  <1>13. CellOf(c) = [CellOf(a) EXCEPT ![Live(16 + k, Link)][Link] = a.r15]
    <2>1. CellOf(c) = [CellOf(b) EXCEPT ![Live(b.mode, Link)][Link] = a.r15]
      BY <1>1, <1>2, <1>5, CellWrite
    <2>. QED BY <1>5, <1>6, <2>1
  <1>14. /\ e.mode = 16 + k /\ e.cpsr = 16 /\ e.memmode = b.memmode /\ e.spsr = b.spsr
         /\ e.r15 = v /\ e.usrregs = b.usrregs /\ e.banked = b.banked
         /\ e.reg = [b.reg EXCEPT ![Link] = a.r15]
         /\ e.r16 = [b.r16 EXCEPT !.mode = 16 + k, !.ints = @ \cup irq_disable(k)]
    BY <1>5, <1>6, <1>7 DEF ArmType
  <1>15. e \in ArmType
    BY <1>11, ExceptionTypes
  <1>16. Same(c, e)
    BY <1>5, <1>6, <1>14 DEF ArmType, Same
  <1>. HIDE DEF c, e
  <1>17. CellOf(e) = CellOf(c)
    BY <1>12, <1>15, <1>16, CellSame
  <1>18. UserIn(e)
    BY <1>5, <1>6, <1>14 DEF UserIn
  <1>19. /\ e.r16.mode = 16 + k /\ e.r16.nzcv = a.r16.nzcv
         /\ e.r16.ints = a.r16.ints \cup irq_disable(k)
    BY <1>2, <1>10, <1>14 DEF Psr
  <1>. HIDE DEF v
  <1>21. StatusIn(e)
    BY <1>1, <1>8, <1>14, <1>19 DEF StatusIn
  <1>22. PsrOf(a) = a.r16 /\ PcOf(a) = a.r15
    BY <1>2 DEF PsrOf, PcOf, Psr
  <1>23. PsrOf(e) = [nzcv |-> PsrOf(a).nzcv, ints |-> PsrOf(a).ints \cup irq_disable(k),
                      mode |-> 16 + k]
    <2>1. PsrOf(e) = [nzcv |-> a.r16.nzcv, ints |-> a.r16.ints \cup irq_disable(k), mode |-> 16 + k]
      <3>1. e.r16 \in Psr /\ e.cpsr = 16
        BY <1>14, <1>15 DEF ArmType
      <3>. QED BY <1>19, <3>1, PsrFields
    <2>. QED BY <1>22, <2>1
  <1>24. PcOf(e) = v
    BY <1>14 DEF PcOf
  <1>25. e.spsr = [a.spsr EXCEPT ![k] = PsrOf(a)]
    BY <1>3, <1>9, <1>14, <1>22
  <1>. QED BY <1>11, <1>13, <1>14, <1>17, <1>18, <1>19, <1>21, <1>22, <1>23, <1>24,
     <1>25 DEF v, Enters32


LEMMA EnterTo32 ==
  ASSUME NEW a \in ArmType, NEW k \in Exceptions, StatusIn(a), UserIn(a), ~ARM_MODE_32(a.mode)
  PROVE  Enters32(a, ExceptionTo32(a, k), k)
  <1>. DEFINE v == [ZeroWord EXCEPT !.pc = Vector[k]]
              l == [ZeroWord EXCEPT !.pc = a.r15.pc]
              b == updatemode(a, 16 + k)
              c == [b EXCEPT !.reg[Link] = l]
              e == [b EXCEPT !.reg[Link] = l, !.spsr[k] = [b.r16 EXCEPT !.mode = a.r15.m],
                             !.r16.ints = @ \cup irq_disable(k), !.r15 = v]
  <1>1. /\ k \in Nibbles /\ 16 + k \in Modes /\ ARM_MODE_32(16 + k) /\ Link \in Regs
        /\ v \in Word /\ irq_disable(k) \in SUBSET IntBits
    BY NibbleFacts, WordFacts DEF Regs
  <1>2. /\ a.r15 \in Word /\ a.r16 \in Psr /\ a.spsr \in [Nibbles -> Psr]
        /\ a.cpsr = 15
    BY DEF ArmType, StatusIn
  <1>3. l \in Word
    BY <1>2, WordFacts DEF Word
  <1>4. b \in ArmType /\ UserIn(b) /\ CellOf(b) = CellOf(a)
    BY <1>1, UpdateType, UpdateUser, UpdateCells
  <1>5. b.mode = 16 + k
    BY <1>1, UpdatedFields
  <1>6. b.cpsr = 16
    <2>1. b.cpsr = IF ARM_MODE_32(16 + k) THEN 16 ELSE 15
      BY <1>1, UpdatedFields
    <2>. QED BY <1>1, <2>1
  <1>7. b.memmode = IF ARM_MODE_PRIV(16 + k) THEN 1 ELSE 0
    BY <1>1, UpdatedFields
  <1>8. b.spsr = a.spsr
    BY <1>1, UpdatedFields
  <1>9. b.r16 = [nzcv |-> a.r15.nzcv, ints |-> a.r15.ints, mode |-> 16 + k]
    <2>1. b.r16 = R16After(a, 16 + k)
      BY <1>1, UpdatedFields
    <2>. QED BY <1>1, <2>1 DEF R16After
  <1>. HIDE DEF b
  <1>10. e = ExceptionTo32(a, k)
    BY DEF ExceptionTo32, b
  <1>. HIDE DEF l
  <1>11. c \in ArmType
    BY <1>1, <1>3, <1>4 DEF ArmType
  <1>12. CellOf(c) = [CellOf(a) EXCEPT ![Live(16 + k, Link)][Link] = l]
    <2>1. CellOf(c) = [CellOf(b) EXCEPT ![Live(b.mode, Link)][Link] = l]
      BY <1>1, <1>3, <1>4, CellWrite
    <2>. QED BY <1>4, <1>5, <2>1
  <1>13. PsrOf(a) = [nzcv |-> a.r15.nzcv, ints |-> a.r15.ints, mode |-> a.r15.m] /\ PcOf(a) = l
    BY <1>2 DEF PsrOf, PcOf, l
  <1>14. [b.r16 EXCEPT !.mode = a.r15.m] = PsrOf(a)
    BY <1>2, <1>9, <1>13
  <1>15. /\ e.mode = 16 + k /\ e.cpsr = 16 /\ e.memmode = b.memmode
         /\ e.spsr = [a.spsr EXCEPT ![k] = PsrOf(a)]
         /\ e.r15 = v /\ e.usrregs = b.usrregs /\ e.banked = b.banked
         /\ e.reg = [b.reg EXCEPT ![Link] = l]
         /\ e.r16 = [b.r16 EXCEPT !.ints = @ \cup irq_disable(k)]
    BY <1>4, <1>5, <1>6, <1>8, <1>14 DEF ArmType
  <1>16. e \in ArmType
    BY <1>10, ExceptionTypes
  <1>17. Same(c, e)
    BY <1>4, <1>5, <1>15 DEF ArmType, Same
  <1>. HIDE DEF c, e
  <1>18. CellOf(e) = CellOf(c)
    BY <1>11, <1>16, <1>17, CellSame
  <1>19. UserIn(e)
    BY <1>4, <1>5, <1>15 DEF UserIn
  <1>20. /\ e.r16.nzcv = a.r15.nzcv /\ e.r16.mode = 16 + k
         /\ e.r16.ints = a.r15.ints \cup irq_disable(k)
    BY <1>9, <1>15
  <1>. HIDE DEF v
  <1>22. StatusIn(e)
    BY <1>1, <1>7, <1>15, <1>20 DEF StatusIn
  <1>23. PsrOf(e) = [nzcv |-> PsrOf(a).nzcv, ints |-> PsrOf(a).ints \cup irq_disable(k),
                      mode |-> 16 + k]
    <2>1. e.cpsr = 16 /\ e.r16 \in Psr
      BY <1>15, <1>16 DEF ArmType
    <2>2. PsrOf(e) = [nzcv |-> a.r15.nzcv, ints |-> a.r15.ints \cup irq_disable(k), mode |-> 16 + k]
      BY <1>20, <2>1, PsrFields
    <2>3. PsrOf(a).nzcv = a.r15.nzcv /\ PsrOf(a).ints = a.r15.ints
      BY <1>13
    <2>. QED BY <2>2, <2>3
  <1>24. PcOf(e) = v
    BY <1>15 DEF PcOf
  <1>. QED BY <1>10, <1>12, <1>13, <1>15, <1>18, <1>19, <1>20, <1>22, <1>23, <1>24 DEF v, Enters32

LEMMA Enter26 ==
  ASSUME NEW a \in ArmType, NEW k \in Exceptions, StatusIn(a), UserIn(a), ~ARM_MODE_32(a.mode)
  PROVE  LET e == Exception26(a, k)
             n == IF k >= SUPERVISOR THEN SUPERVISOR ELSE k IN
         /\ StatusIn(e) /\ UserIn(e) /\ e.mode = n /\ e.r16.mode = n
         /\ CellOf(e) = [CellOf(a) EXCEPT ![Live(n, Link)][Link] = a.r15]
         /\ PsrOf(e) = [nzcv |-> PsrOf(a).nzcv, ints |-> PsrOf(a).ints \cup irq_disable(k),
                      mode |-> SUPERVISOR]
         /\ PcOf(e) = [ZeroWord EXCEPT !.pc = Vector[k]]
         /\ e.spsr = a.spsr
  <1>. DEFINE n == IF k >= SUPERVISOR THEN SUPERVISOR ELSE k
              s == [a EXCEPT !.r15.m = 3]
              b == updatemode(s, n)
              c == [b EXCEPT !.reg[Link] = a.r15]
              e == [b EXCEPT !.reg[Link] = a.r15, !.r15.pc = Vector[k],
                             !.r15.ints = @ \cup irq_disable(k)]
  <1>1. /\ k \in Nibbles /\ n \in Modes /\ ~ARM_MODE_32(n) /\ Link \in Regs
        /\ Vector[k] \in Pcs /\ irq_disable(k) \in SUBSET IntBits
    <2>1. n \in 0 .. 3
      BY DEF Exceptions
    <2>. QED BY <2>1, NibbleFacts, WordFacts DEF Regs
  <1>2. a.r15 \in Word /\ a.r16 \in Psr /\ a.cpsr = 15
    BY DEF ArmType, StatusIn
  <1>. HIDE DEF n
  <1>3. [a.r15 EXCEPT !.m = 3] \in Word
    BY <1>2 DEF Word
  <1>4. s \in ArmType /\ Same(a, s) /\ s.r15 = [a.r15 EXCEPT !.m = 3] /\ s.r16 = a.r16
        /\ s.spsr = a.spsr
    BY <1>2, <1>3 DEF ArmType, Same
  <1>. HIDE DEF s
  <1>5. UserIn(s) /\ CellOf(s) = CellOf(a)
    BY <1>4, CellSame
  <1>6. b \in ArmType /\ UserIn(b) /\ CellOf(b) = CellOf(a)
    BY <1>1, <1>4, <1>5, UpdateType, UpdateUser, UpdateCells
  <1>7. b.mode = n /\ b.spsr = a.spsr
    <2>1. b.mode = n
      BY <1>1, <1>4, UpdatedFields, ZenonT(60)
    <2>2. b.spsr = s.spsr
      BY <1>1, <1>4, UpdatedFields
    <2>. QED BY <1>4, <2>1, <2>2
  <1>8. b.cpsr = 15
    <2>1. b.cpsr = IF ARM_MODE_32(n) THEN 16 ELSE 15
      BY <1>1, <1>4, UpdatedFields, ZenonT(60)
    <2>. QED BY <1>1, <2>1
  <1>9. b.memmode = IF ARM_MODE_PRIV(n) THEN 1 ELSE 0
    BY <1>1, <1>4, UpdatedFields, ZenonT(60)
  <1>10. b.r15 = [a.r15 EXCEPT !.m = 3]
    <2>1. b.r15 = R15After(s, n)
      BY <1>1, <1>4, UpdatedFields, ZenonT(60)
    <2>. QED BY <1>1, <1>4, <2>1 DEF R15After, Same
  <1>11. b.r16.mode = n
    <2>1. b.r16 = R16After(s, n)
      BY <1>1, <1>4, UpdatedFields, ZenonT(60)
    <2>2. b.r16 = [a.r16 EXCEPT !.mode = n]
      BY <1>1, <1>4, <2>1 DEF R16After
    <2>. QED BY <1>2, <2>2 DEF Psr
  <1>. HIDE DEF b
  <1>12. e = Exception26(a, k)
    BY DEF Exception26, b, s, n
  <1>13. c \in ArmType
    BY <1>1, <1>2, <1>6 DEF ArmType
  <1>14. CellOf(c) = [CellOf(a) EXCEPT ![Live(n, Link)][Link] = a.r15]
    <2>1. CellOf(c) = [CellOf(b) EXCEPT ![Live(b.mode, Link)][Link] = a.r15]
      BY <1>1, <1>2, <1>6, CellWrite
    <2>. QED BY <1>6, <1>7, <2>1
  <1>15. /\ e.mode = n /\ e.cpsr = 15 /\ e.memmode = b.memmode /\ e.spsr = a.spsr
         /\ e.r16 = b.r16 /\ e.usrregs = b.usrregs /\ e.banked = b.banked
         /\ e.reg = [b.reg EXCEPT ![Link] = a.r15]
         /\ e.r15 = [b.r15 EXCEPT !.pc = Vector[k], !.ints = @ \cup irq_disable(k)]
    BY <1>6, <1>7, <1>8 DEF ArmType
  <1>16. e \in ArmType
    BY <1>12, ExceptionTypes
  <1>17. Same(c, e)
    BY <1>6, <1>7, <1>15 DEF ArmType, Same
  <1>. HIDE DEF c, e
  <1>18. CellOf(e) = CellOf(c)
    BY <1>13, <1>16, <1>17, CellSame
  <1>19. UserIn(e)
    BY <1>6, <1>7, <1>15 DEF UserIn
  <1>20. /\ e.r15.m = 3 /\ e.r15.nzcv = a.r15.nzcv /\ e.r15.pc = Vector[k]
         /\ e.r15.ints = a.r15.ints \cup irq_disable(k)
    BY <1>2, <1>10, <1>15 DEF Word
  <1>21. StatusIn(e)
    BY <1>1, <1>9, <1>11, <1>15 DEF StatusIn
  <1>22. PsrOf(e) = [nzcv |-> PsrOf(a).nzcv, ints |-> PsrOf(a).ints \cup irq_disable(k),
                      mode |-> SUPERVISOR]
    <2>1. PsrOf(e) = [nzcv |-> a.r15.nzcv, ints |-> a.r15.ints \cup irq_disable(k),
                      mode |-> SUPERVISOR]
      <3>1. e.cpsr = 15
        BY <1>15
      <3>. QED BY <1>20, <3>1, PsrFields
    <2>2. PsrOf(a).nzcv = a.r15.nzcv /\ PsrOf(a).ints = a.r15.ints
      BY <1>2 DEF PsrOf
    <2>. QED BY <2>1, <2>2
  <1>23. PcOf(e) = [ZeroWord EXCEPT !.pc = Vector[k]]
    BY <1>15, <1>20 DEF PcOf
  <1>. QED BY <1>11, <1>12, <1>14, <1>15, <1>18, <1>19, <1>21, <1>22, <1>23 DEF n

\* An exception taken from a state that stands for the same registers as arm.
LEMMA Taken ==
  ASSUME Inv, NEW k \in Kinds, NEW a \in ArmType, StatusIn(a), UserIn(a), CellOf(a) = CellOf(arm),
         PsrOf(a) = PsrOf(arm), PcOf(a) = PcOf(arm), a.spsr = arm.spsr, a.r15 = arm.r15,
         a.mode = arm.mode, arm' = exception(a, k), prog32' = prog32
  PROVE  Good
  <1>1. k \in Exceptions /\ Abstract!R15 = arm.r15
    BY GuestAssumption, R15Reads
  <1>2. ASSUME ARM_MODE_32(arm.mode) \/ prog32, Enters32(a, arm', k)
        PROVE  Good
    <2>1. Abstract!Enter(16 + k, 16 + k, k)
      BY <1>2, SameWords DEF Abstract!Enter, Enters32
    <2>2. Abstract!Enter32(k)
      BY <1>1, <1>2, <2>1, SameWords DEF Abstract!Enter32, Enters32
    <2>. QED BY <1>2, <2>2 DEF Good, Ordinary, BanksSwitched, Enters32
  <1>3. CASE ARM_MODE_32(arm.mode)
    <2>1. arm' = Exception32(a, k)
      BY <1>3 DEF exception
    <2>2. Enters32(a, arm', k)
      BY <1>1, <1>3, <2>1, EnterFrom32
    <2>. QED BY <1>2, <1>3, <2>2
  <1>4. CASE ~ARM_MODE_32(arm.mode) /\ prog32
    <2>1. arm' = ExceptionTo32(a, k)
      BY <1>4 DEF exception
    <2>2. Enters32(a, arm', k)
      BY <1>1, <1>4, <2>1, EnterTo32
    <2>. QED BY <1>2, <1>4, <2>2
  <1>5. CASE ~ARM_MODE_32(arm.mode) /\ ~prog32
    <2>. DEFINE n == IF k >= SUPERVISOR THEN SUPERVISOR ELSE k
    <2>1. arm' = Exception26(a, k)
      BY <1>5 DEF exception
    <2>2. /\ StatusIn(arm') /\ UserIn(arm') /\ arm'.mode = n /\ arm'.r16.mode = n
          /\ CellOf(arm') = [CellOf(a) EXCEPT ![Live(n, Link)][Link] = a.r15]
          /\ PsrOf(arm') = [nzcv |-> PsrOf(a).nzcv,
                            ints |-> PsrOf(a).ints \cup irq_disable(k), mode |-> SUPERVISOR]
          /\ PcOf(arm') = [ZeroWord EXCEPT !.pc = Vector[k]]
          /\ arm'.spsr = a.spsr
      BY <1>1, <1>5, <2>1, Enter26
    <2>3. n = IF k \in {FIQ, IRQ} THEN k ELSE SUPERVISOR
      BY <1>1 DEF Exceptions
    <2>. HIDE DEF n
    <2>4. Abstract!Enter(n, SUPERVISOR, k)
      BY <2>2, SameWords DEF Abstract!Enter
    <2>5. Abstract!Enter26(k)
      BY <1>1, <1>5, <2>2, <2>3, <2>4, SameWords DEF Abstract!Enter26
    <2>. QED BY <2>2, <2>5 DEF Good, Ordinary, BanksSwitched
  <1>. QED BY <1>3, <1>4, <1>5

LEMMA StepRaise ==
  ASSUME Inv, NEW k \in Kinds, Raise(k)
  PROVE  Good
  <1>1. arm' = exception(arm, k) /\ prog32' = prog32
    BY DEF Raise
  <1>. QED BY <1>1, InvFacts, Taken

LEMMA StepDispatch ==
  ASSUME Inv, NEW k \in Kinds, Dispatch(k)
  PROVE  Good
  <1>. DEFINE a == IF ARM_MODE_32(arm.mode) THEN arm ELSE [arm EXCEPT !.r16.ints = arm.r15.ints]
              masked == (k = FIQ /\ "F" \in a.r16.ints) \/ (k = IRQ /\ "I" \in a.r16.ints)
  <1>1. /\ arm' = IF masked THEN a ELSE exception(a, k)
        /\ prog32' = prog32
    BY DEF Dispatch
  <1>. HIDE DEF masked
  <1>2. /\ a \in ArmType /\ a.r15 = arm.r15 /\ a.mode = arm.mode /\ a.spsr = arm.spsr
        /\ a.cpsr = arm.cpsr /\ a.memmode = arm.memmode /\ a.usrregs = arm.usrregs
        /\ a.r16.mode = arm.r16.mode
        /\ ARM_MODE_32(arm.mode) => a.r16 = arm.r16
        /\ Same(arm, a)
    <2>1. [arm.r16 EXCEPT !.ints = arm.r15.ints] \in Psr
      BY InvFacts DEF Psr, Word
    <2>. QED BY <2>1, InvFacts DEF ArmType, Same, Psr
  <1>. HIDE DEF a
  <1>3. StatusIn(a)
    BY <1>2, InvFacts DEF StatusIn
  <1>4. UserIn(a) /\ CellOf(a) = CellOf(arm)
    BY <1>2, InvFacts, CellSame
  <1>5. PsrOf(a) = PsrOf(arm) /\ PcOf(a) = PcOf(arm)
    BY <1>2, InvFacts DEF PsrOf, PcOf
  <1>6. CASE masked
    BY <1>1, <1>2, <1>3, <1>4, <1>5, <1>6 DEF Good, BanksSwitched, Abstract!vars
  <1>7. CASE ~masked
    <2>1. arm' = exception(a, k)
      BY <1>1, <1>7
    <2>. QED BY <1>1, <1>2, <1>3, <1>4, <1>5, <2>1, Taken
  <1>. QED BY <1>6, <1>7

LEMMA StepControl ==
  ASSUME Inv, NEW on \in BOOLEAN, Control(on)
  PROVE  Good
  <1>1. CASE on \/ ~ARM_MODE_32(arm.mode)
    <2>1. arm' = arm /\ prog32' = on
      BY <1>1 DEF Control
    <2>2. Abstract!Configure(on)
      BY <1>1, <2>1, InvFacts, SameWords DEF Abstract!Configure
    <2>. QED BY <2>1, <2>2, InvFacts DEF Good, Ordinary, BanksSwitched
  <1>2. CASE ~on /\ ARM_MODE_32(arm.mode)
    <2>. DEFINE m == Nibble(arm.mode)
    <2>1. /\ arm' = updatemode(arm, m) /\ prog32' = on
          /\ m \in {USER, FIQ, IRQ, SUPERVISOR}
      BY <1>2 DEF Control
    <2>2. m \in Modes /\ ~ARM_MODE_32(m)
      BY <2>1, NibbleFacts DEF Modes, ARM_MODE_32, USER, FIQ, IRQ, SUPERVISOR
    <2>. HIDE DEF m
    <2>3. StatusIn(arm') /\ UserIn(arm') /\ arm'.r16.mode = m
      BY <1>2, <2>1, <2>2, InvFacts, UpdateStatus, UpdateUser
    <2>4. CellOf(arm') = CellOf(arm) /\ arm'.spsr = arm.spsr /\ arm'.mode = m
      BY <2>1, <2>2, InvFacts, UpdateCells, UpdatedFields
    <2>5. PsrOf(arm') = [PsrOf(arm) EXCEPT !.mode = m] /\ PcOf(arm') = Clip(m, PcOf(arm))
      BY <1>2, <2>1, <2>2, InvFacts, Switch
    <2>6. Abstract!Configure(on)
      BY <1>2, <2>1, <2>3, <2>4, <2>5, SameWords DEF Abstract!Configure, m
    <2>. QED BY <2>3, <2>6 DEF Good, Ordinary, BanksSwitched
  <1>. QED BY <1>1, <1>2

LEMMA StepInv ==
  ASSUME Inv, Next
  PROVE  /\ TypeOK' /\ BanksSwitched'
         /\ \/ (\E w \in Values : WriteR15(w) \/ CoprocessorR15(w)) /\ Abstract!Next
            \/ Good
  <1>1. TypeOK'
    BY TypeStep DEF Inv
  <1>2. ASSUME NEW c \in Regs, NEW w \in Values, WriteReg(c, w) \/ LoadUserBank(c, w) PROVE Good
    BY <1>2, StepWriteReg, StepLoadUserBank
  <1>3. ASSUME NEW w \in Values, WritePc(w) \/ BranchLink(w) PROVE Good
    BY <1>1, <1>3, StepWritePc, StepBranchLink
  <1>4. ASSUME NEW w \in Values, arm_write_r15(w) \/ arm_compare_rd15(w) PROVE Good
    BY <1>1, <1>4, StepWriteR15, StepCompare
  <1>5. ASSUME NEW f \in Flags, SetFlags(f) PROVE Good
    BY <1>1, <1>5, StepSetFlags
  <1>6. ASSUME ReadCpsr PROVE Good
    BY <1>1, <1>6, StepReadCpsr
  <1>7. ASSUME NEW fs \in {{"c"}, {"f"}, {"c", "f"}}, NEW q \in Psrs,
               arm_write_cpsr(fs, q) \/ arm_write_spsr(fs, q)
        PROVE Good
    BY <1>1, <1>7, StepWriteCpsr, StepWriteSpsr
  <1>8. ASSUME NEW k \in Kinds, Raise(k) \/ Dispatch(k) PROVE Good
    BY <1>8, StepRaise, StepDispatch
  <1>9. ASSUME NEW on \in BOOLEAN, Control(on) PROVE Good
    BY <1>9, StepControl
  <1>10. ASSUME NEW w \in Values, WriteR15(w) \/ CoprocessorR15(w)
         PROVE  BanksSwitched' /\ Abstract!Next
    BY <1>1, <1>10, StepOverwrite
  <1>11. CASE \E w \in Values : WriteR15(w) \/ CoprocessorR15(w)
    BY <1>1, <1>10, <1>11
  <1>12. CASE ~\E w \in Values : WriteR15(w) \/ CoprocessorR15(w)
    BY <1>1, <1>2, <1>3, <1>4, <1>5, <1>6, <1>7, <1>8, <1>9, <1>12 DEF Next, Good
  <1>. QED BY <1>11, <1>12

LEMMA InitIsReset ==
  ASSUME Init
  PROVE  BanksSwitched /\ Abstract!Init(ResetPc, ResetProg32)
  <1>1. /\ arm.mode = SUPERVISOR /\ arm.cpsr = 15 /\ arm.memmode = 1
        /\ arm.r15 = [nzcv |-> 0, ints |-> IntBits, pc |-> ResetPc, m |-> SUPERVISOR]
        /\ arm.r16 = [nzcv |-> 0, ints |-> IntBits, mode |-> 16 + SUPERVISOR]
        /\ arm.reg = [c \in Regs |-> ZeroWord]
        /\ arm.banked = [b \in Banks |-> [c \in Regs |-> ZeroWord]]
        /\ arm.spsr = [n \in Nibbles |-> ZeroPsr]
        /\ arm.usrregs = [c \in Regs |-> IF c \in Hidden(SUPERVISOR) THEN "user_reg" ELSE "reg"]
        /\ prog32 = ResetProg32
    BY DEF Init
  <1>2. /\ SUPERVISOR \in Modes /\ ~ARM_MODE_32(SUPERVISOR) /\ ARM_MODE_PRIV(SUPERVISOR)
        /\ USER \in Banks
    BY DEF Modes, Banks, ARM_MODE_32, ARM_MODE_PRIV, Nibble, SUPERVISOR, USER
  <1>3. StatusIn(arm)
    BY <1>1, <1>2 DEF StatusIn
  <1>4. UserIn(arm)
    <2>1. Nibble(SUPERVISOR) = SUPERVISOR
      BY DEF Nibble, ARM_MODE_32, SUPERVISOR
    <2>. QED BY <1>1, <1>2, <2>1, HiddenIsBanked DEF UserIn
  <1>5. CellOf(arm) = [b \in Banks |-> [c \in Regs |-> ZeroWord]]
    BY <1>1, <1>2 DEF CellOf
  <1>6. PsrOf(arm) = [nzcv |-> 0, ints |-> IntBits, mode |-> SUPERVISOR]
    BY <1>1 DEF PsrOf
  <1>7. PcOf(arm) = [ZeroWord EXCEPT !.pc = ResetPc]
    BY <1>1 DEF PcOf
  <1>8. Abstract!Init(ResetPc, ResetProg32)
    BY <1>1, <1>5, <1>6, <1>7, SameWords DEF Abstract!Init
  <1>. QED BY <1>3, <1>4, <1>8 DEF BanksSwitched

\* Through every instruction, exception, return and change of width, in any
\* order and whatever R15 is made to hold, what updatemode keeps with the mode
\* agrees with it and usrregs reaches the User registers.
THEOREM BanksStaySwitched == Spec => []BanksSwitched
  <1>1. Init => Inv
    BY TypeInit, InitIsReset DEF Inv
  <1>2. Inv /\ [Next]_vars => Inv'
    <2>1. CASE Inv /\ Next
      BY <2>1, StepInv, OrdinaryIsNext DEF Inv, Good
    <2>2. CASE Inv /\ UNCHANGED vars
      BY <2>2 DEF Inv, vars, TypeOK, BanksSwitched
    <2>. QED BY <2>1, <2>2
  <1>3. Inv => BanksSwitched
    BY DEF Inv
  <1>. QED BY <1>1, <1>2, <1>3, PTL DEF Spec

\* The emulator's live registers, banks, usrregs, R15 and reg[16] implement a
\* register file in which every bank has its own cells and a change of mode
\* moves nothing, for any registers, words and exceptions.
THEOREM RegisterFileImplemented == Spec => RegisterFile
  <1>1. Init => Inv /\ \E p \in Pcs, on \in BOOLEAN : Abstract!Init(p, on)
    BY TypeInit, InitIsReset, ResetAssumption DEF Inv
  <1>2. Inv /\ [Next]_vars => Inv' /\ [Abstract!Next]_(Abstract!vars)
    <2>1. CASE Inv /\ Next
      BY <2>1, StepInv, OrdinaryIsNext DEF Inv, Good
    <2>2. CASE Inv /\ UNCHANGED vars
      BY <2>2 DEF Inv, vars, TypeOK, BanksSwitched, Abstract!vars
    <2>. QED BY <2>1, <2>2
  <1>. QED BY <1>1, <1>2, PTL DEF Spec, RegisterFile, Abstract!Spec

\* What UserModeConfined says of a step.
Kept == PsrOf(arm').ints = PsrOf(arm).ints /\ Privileges(arm') \subseteq Privileges(arm)

Trapped ==
  \E k \in Kinds :
     /\ PcOf(arm') = [ZeroWord EXCEPT !.pc = Vector[k]]
     /\ PsrOf(arm').ints = PsrOf(arm).ints \cup irq_disable(k)
     /\ arm'.mode \in {k, 16 + k, SUPERVISOR}

Overwritten ==
  /\ ~ARM_MODE_32(arm.mode) /\ arm'.mode = arm.mode
  /\ \E w \in Values : WriteR15(w) \/ CoprocessorR15(w)

Confined == ~ARM_MODE_PRIV(arm.mode) => Kept \/ Trapped \/ Overwritten

\* The modes the next instruction could put in force, of ArmBanks.
LEMMA KeptModes ==
  ASSUME Inv, BanksSwitched', TypeOK', PsrOf(arm').ints = PsrOf(arm).ints,
         \A m \in {arm'.mode, PsrOf(arm').mode, arm'.r16.mode} :
            m \in {arm.mode, PsrOf(arm).mode, arm.r16.mode} \/ ~ARM_MODE_PRIV(m)
  PROVE  Kept
  <1>1. PsrOf(arm).mode = ModeBits(arm)
    BY InvFacts
  <1>2. PsrOf(arm').mode = ModeBits(arm')
    BY DEF PsrOf, ModeBits
  <1>. QED BY <1>1, <1>2 DEF Kept, Privileges

\* What those steps do in User mode.
LEMMA OrdinaryConfines ==
  ASSUME Inv, BanksSwitched', TypeOK', Ordinary, ~ARM_MODE_PRIV(arm.mode)
  PROVE  Kept \/ Trapped
  <1>. DEFINE p == PsrOf(arm)
              q == PsrOf(arm')
  <1>1. p \in Psr
    BY InvFacts
  <1>2. ASSUME q.ints = p.ints, q.mode = p.mode, arm'.mode \in {arm.mode, p.mode, arm.r16.mode},
               arm'.r16.mode \in {arm.mode, p.mode, arm.r16.mode}
        PROVE  Kept
    BY <1>2, KeptModes
  <1>3. ASSUME NEW k \in Kinds, Abstract!Enter32(k) \/ Abstract!Enter26(k)
        PROVE  Trapped
    BY <1>3, SameWords DEF Abstract!Enter32, Abstract!Enter26, Abstract!Enter, Trapped
  <1>4. ASSUME NEW w \in Values, Abstract!Return(w) \/ Abstract!Compare(w)
        PROVE  Kept
    <2>1. q = Abstract!Restored(w)
      BY <1>4 DEF Abstract!Return, Abstract!Compare
    <2>2. q = p \/ q = [p EXCEPT !.nzcv = w.nzcv]
      BY <2>1, SameWords DEF Abstract!Restored
    <2>3. arm'.mode \in {arm.mode, q.mode} /\ arm'.r16.mode \in {arm.r16.mode, q.mode}
      BY <1>4, SameWords DEF Abstract!Return, Abstract!Compare, Abstract!Settle
    <2>. HIDE DEF p, q
    <2>4. q.ints = p.ints /\ q.mode = p.mode
      BY <1>1, <2>2 DEF Psr
    <2>. QED BY <1>2, <2>3, <2>4
  <1>5. ASSUME NEW f \in Flags, Abstract!SetFlags(f)
        PROVE  Kept
    <2>1. q = [p EXCEPT !.nzcv = f] /\ arm'.mode = arm.mode /\ arm'.r16.mode = arm.r16.mode
      BY <1>5 DEF Abstract!SetFlags
    <2>. HIDE DEF p, q
    <2>2. q.ints = p.ints /\ q.mode = p.mode
      BY <1>1, <2>1 DEF Psr
    <2>. QED BY <1>2, <2>1, <2>2
  <1>6. ASSUME NEW fs \in {{"c"}, {"f"}, {"c", "f"}}, NEW r \in Psrs, Abstract!WriteCpsr(fs, r)
        PROVE  Kept
    <2>. DEFINE m == Abstract!Merge(fs \ {"c"}, p, r)
    <2>1. /\ q = [m EXCEPT !.mode = IF ARM_MODE_32(arm'.mode) THEN arm'.mode ELSE @]
          /\ arm'.mode = arm.r16.mode /\ arm'.r16.mode = arm'.mode
      BY <1>6, SameWords DEF Abstract!WriteCpsr
    <2>2. m \in [nzcv : {m.nzcv}, ints : {p.ints}, mode : {p.mode}]
      BY DEF Abstract!Merge
    <2>. HIDE DEF m
    <2>3. q.ints = p.ints /\ q.mode \in {p.mode, arm'.mode}
      BY <2>1, <2>2
    <2>. QED BY <2>1, <2>3, KeptModes
  <1>7. ASSUME NEW on \in BOOLEAN, Abstract!Configure(on)
        PROVE  Kept
    <2>1. \/ q = p /\ arm'.mode = arm.mode /\ arm'.r16.mode = arm.r16.mode
          \/ /\ arm'.mode = Nibble(arm.mode) /\ arm'.r16.mode = arm'.mode
             /\ q = [p EXCEPT !.mode = arm'.mode]
      BY <1>7, SameWords DEF Abstract!Configure
    <2>2. ~ARM_MODE_PRIV(Nibble(arm.mode))
      BY InvFacts, ModeFacts DEF ARM_MODE_PRIV, Nibble, ARM_MODE_32, USER
    <2>3. CASE q = p /\ arm'.mode = arm.mode /\ arm'.r16.mode = arm.r16.mode
      BY <1>2, <2>3
    <2>4. CASE /\ arm'.mode = Nibble(arm.mode) /\ arm'.r16.mode = arm'.mode
               /\ q = [p EXCEPT !.mode = arm'.mode]
      <3>1. q.ints = p.ints /\ q.mode = arm'.mode
        <4>. HIDE DEF p, q
        <4>. QED BY <1>1, <2>4 DEF Psr
      <3>. QED BY <2>2, <2>4, <3>1, KeptModes
    <2>. QED BY <2>1, <2>3, <2>4
  <1>8. ASSUME Abstract!Note
        PROVE  Kept
    BY <1>2, <1>8 DEF Abstract!Note
  <1>9. ASSUME q = p, arm'.mode = arm.mode, arm'.r16.mode = arm.r16.mode
        PROVE  Kept
    BY <1>2, <1>9
  <1>10. \/ q = p /\ arm'.mode = arm.mode /\ arm'.r16.mode = arm.r16.mode
         \/ \E w \in Values : Abstract!Return(w) \/ Abstract!Compare(w)
         \/ \E f \in Flags : Abstract!SetFlags(f)
         \/ Abstract!Note
         \/ \E fs \in {{"c"}, {"f"}, {"c", "f"}}, r \in Psrs : Abstract!WriteCpsr(fs, r)
         \/ \E k \in Kinds : Abstract!Enter32(k) \/ Abstract!Enter26(k)
         \/ \E on \in BOOLEAN : Abstract!Configure(on)
    BY DEF Ordinary, Abstract!Write, Abstract!WriteUser, Abstract!Jump, Abstract!Call,
       Abstract!WriteSpsr
  <1>. QED BY <1>3, <1>4, <1>5, <1>6, <1>7, <1>8, <1>9, <1>10

\* A write to the whole of R15 leaves the mode in force as it is. In a 32-bit
\* mode it leaves the status, too.
LEMMA OverwriteConfines ==
  ASSUME Inv, BanksSwitched', TypeOK', NEW w \in Values, WriteR15(w) \/ CoprocessorR15(w)
  PROVE  Kept \/ Overwritten
  <1>1. /\ arm' = [arm EXCEPT !.r15 = arm'.r15] /\ arm \in ArmType
    BY InvFacts DEF WriteR15, CoprocessorR15, ArmType
  <1>2. arm'.mode = arm.mode /\ arm'.cpsr = arm.cpsr /\ arm'.r16 = arm.r16
    BY <1>1 DEF ArmType
  <1>3. CASE ARM_MODE_32(arm.mode)
    <2>1. PsrOf(arm') = PsrOf(arm)
      BY <1>2, <1>3, InvFacts DEF PsrOf
    <2>. QED BY <1>2, <2>1, KeptModes
  <1>4. CASE ~ARM_MODE_32(arm.mode)
    BY <1>2, <1>4 DEF Overwritten
  <1>. QED BY <1>3, <1>4

\* From User mode, whatever it executes, the interrupt masks change and a
\* privileged mode is named or put in force only by an exception or, in a 26-bit
\* mode, by a write to the whole of R15, which does not act on what it names.
THEOREM UserModeIsConfined == Spec => UserModeConfined
  <1>1. Init => Inv
    BY TypeInit, InitIsReset DEF Inv
  <1>2. ASSUME Inv, [Next]_vars
        PROVE  Inv' /\ (Confined \/ UNCHANGED vars)
    <2>1. CASE UNCHANGED vars
      BY <1>2, <2>1 DEF Inv, vars, TypeOK, BanksSwitched
    <2>2. CASE Next
      <3>1. /\ TypeOK' /\ BanksSwitched'
            /\ (\E w \in Values : WriteR15(w) \/ CoprocessorR15(w)) \/ Good
        BY <1>2, <2>2, StepInv
      <3>2. CASE \E w \in Values : WriteR15(w) \/ CoprocessorR15(w)
        BY <1>2, <3>1, <3>2, OverwriteConfines DEF Inv, Confined
      <3>3. CASE Ordinary
        BY <1>2, <3>1, <3>3, OrdinaryConfines DEF Inv, Confined
      <3>4. CASE UNCHANGED Abstract!vars
        BY <1>2, <3>1, <3>4, KeptModes DEF Inv, Confined, Abstract!vars
      <3>. QED BY <3>1, <3>2, <3>3, <3>4 DEF Good
    <2>. QED BY <1>2, <2>1, <2>2
  <1>3. Inv /\ [Next]_vars => Inv' /\ [Confined]_vars
    BY <1>2
  <1>4. [][Confined]_vars => UserModeConfined
    BY PTL DEF UserModeConfined, Confined, Kept, Trapped, Overwritten
  <1>. QED BY <1>1, <1>3, <1>4, PTL DEF Spec
=============================================================================
