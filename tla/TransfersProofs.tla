---- MODULE TransfersProofs ----
(***************************************************************************)
(* Loads and stores that abort are repeated without a trace, for any       *)
(* registers, addresses, pages and instructions.  The argument: while an   *)
(* instruction is under way, what it has changed is only what it will      *)
(* write anyway, and the base from which it computes its addresses is the  *)
(* old one whenever it starts again (Resumable).                           *)
(***************************************************************************)
EXTENDS Transfers, FiniteSetTheorems, TLAPS

(* Arithmetic on addresses.                                                *)
LEMMA ShiftedType ==
    ASSUME NEW x \in Words, NEW n \in 0..Modulus
    PROVE  /\ Plus(x, n) \in Words /\ Minus(x, n) \in Words
           /\ \A up \in BOOLEAN : Shifted(x, n, up) \in Words
BY MemoryAssumption DEF Plus, Minus, Shifted, Words

LEMMA ShiftedBack ==
    ASSUME NEW x \in Words, NEW n \in 0..Modulus, NEW up \in BOOLEAN
    PROVE  Shifted(Shifted(x, n, up), n, ~up) = x
BY MemoryAssumption DEF Plus, Minus, Shifted, Words

LEMMA ListFinite ==
    ASSUME NEW list \in SUBSET Registers
    PROVE  IsFiniteSet(list)
<1>1. list \in SUBSET Nat /\ 15 \in Nat /\ \A r \in list : r <= 15
  BY RegistersAssumption
<1> QED BY <1>1, FS_BoundedSetOfNaturals

(* No instruction moves more words than there are.                         *)
LEMMA ListSize ==
    ASSUME NEW list \in SUBSET Registers
    PROVE  Cardinality(list) \in 0..Modulus
<1>1. Registers \in SUBSET Nat /\ 15 \in Nat /\ \A r \in Registers : r <= 15
  BY RegistersAssumption
<1>2. IsFiniteSet(Registers)
  BY <1>1, FS_BoundedSetOfNaturals
<1>3. IsFiniteSet(list) /\ Cardinality(list) <= Cardinality(Registers)
  BY <1>2, FS_Subset
<1>4. Cardinality(list) \in Nat /\ Cardinality(Registers) \in Nat
  BY <1>2, <1>3, FS_CardinalityType
<1> QED BY <1>3, <1>4, MemoryAssumption

LEMMA OffsetType ==
    ASSUME NEW i \in InstructionType
    PROVE  Offset(i) \in 0..Modulus
<1>1. i.list \in SUBSET Registers /\ i.offset \in Offsets
  BY DEF InstructionType
<1>2. Cardinality(i.list) \in 0..Modulus
  BY <1>1, ListSize
<1> QED BY <1>1, <1>2, MemoryAssumption DEF Offset

LEMMA MovedType ==
    ASSUME NEW i \in InstructionType, NEW base \in Words
    PROVE  Moved(i, base) \in Words /\ Start(i, base) \in Words
<1>1. i.up \in BOOLEAN /\ i.form \in Forms /\ i.pre \in BOOLEAN
  BY DEF InstructionType
<1>2. Moved(i, base) \in Words
  BY <1>1, OffsetType, ShiftedType DEF Moved
<1>3. Plus(base, 1) \in Words /\ Plus(Moved(i, base), 1) \in Words
  BY <1>2, ShiftedType, MemoryAssumption
<1>4. Start(i, base) \in Words
  BY <1>1, <1>2, <1>3 DEF Start
<1> QED BY <1>2, <1>4

LEMMA AddressesType ==
    ASSUME NEW i \in InstructionType, NEW c \in CpuType
    PROVE  Addresses(c, i) \in [i.list -> Words]
<1>1. i.list \in SUBSET Registers /\ i.rn \in Registers
  BY DEF InstructionType
<1>2. c.reg[i.rn] \in Words
  BY <1>1 DEF CpuType
<1>3. Start(i, c.reg[i.rn]) \in Words
  BY <1>2, MovedType
<1>4. \A r \in i.list : Cardinality({d \in i.list : d < r}) \in 0..Modulus
  BY <1>1, ListSize
<1>5. \A r \in i.list :
        Plus(Start(i, c.reg[i.rn]), Cardinality({d \in i.list : d < r})) \in Words
  BY <1>3, <1>4, ShiftedType
<1> QED BY <1>5 DEF Addresses

(* No two registers of an instruction share a word.                        *)
LEMMA AddressesDiffer ==
    ASSUME NEW i \in InstructionType, NEW c \in CpuType,
           NEW r \in i.list, NEW s \in i.list, r # s
    PROVE  Addresses(c, i)[r] # Addresses(c, i)[s]
<1> DEFINE Below(x) == {d \in i.list : d < x}
           start == Start(i, c.reg[i.rn])
<1>1. i.list \in SUBSET Registers /\ i.rn \in Registers /\ r \in Nat /\ s \in Nat
      /\ i.list \in SUBSET Nat
  <2>1. i.list \in SUBSET Registers /\ i.rn \in Registers
    BY DEF InstructionType
  <2>2. Registers \in SUBSET Nat
    BY RegistersAssumption
  <2> QED BY <2>1, <2>2
<1>2. start \in Words
  BY <1>1, MovedType DEF CpuType
<1>3. \A x \in i.list : Cardinality(Below(x)) \in 0..(Modulus - 1)
  <2> SUFFICES ASSUME NEW x \in i.list PROVE Cardinality(Below(x)) \in 0..(Modulus - 1)
    OBVIOUS
  <2>1. IsFiniteSet(i.list) /\ Cardinality(i.list) \in 0..Modulus
    BY <1>1, ListSize, ListFinite
  <2>2. Below(x) \in SUBSET (i.list \ {x})
    BY <1>1
  <2>3. IsFiniteSet(i.list \ {x}) /\ Cardinality(i.list \ {x}) = Cardinality(i.list) - 1
    BY <2>1, FS_RemoveElement
  <2>4. IsFiniteSet(Below(x)) /\ Cardinality(Below(x)) <= Cardinality(i.list \ {x})
    BY <2>2, <2>3, FS_Subset
  <2>5. Cardinality(Below(x)) \in Nat
    BY <2>4, FS_CardinalityType
  <2> HIDE DEF Below
  <2> QED BY <2>1, <2>3, <2>4, <2>5, MemoryAssumption
<1>4. ASSUME NEW x \in i.list, NEW y \in i.list, x < y
      PROVE  Cardinality(Below(x)) < Cardinality(Below(y))
  <2>1. IsFiniteSet(Below(y))
    BY <1>1, ListFinite
  <2>2. x \in Below(y) /\ Below(x) \in SUBSET (Below(y) \ {x})
    BY <1>1, <1>4
  <2>3. IsFiniteSet(Below(y) \ {x}) /\ Cardinality(Below(y) \ {x}) = Cardinality(Below(y)) - 1
    BY <2>1, <2>2, FS_RemoveElement
  <2>4. Cardinality(Below(x)) <= Cardinality(Below(y) \ {x})
    BY <2>2, <2>3, FS_Subset
  <2>5. Cardinality(Below(x)) \in Int /\ Cardinality(Below(y)) \in Int
    BY <1>3
  <2> HIDE DEF Below
  <2> QED BY <2>3, <2>4, <2>5
<1> HIDE DEF Below
<1>5. Cardinality(Below(r)) # Cardinality(Below(s))
  <2>1. CASE r < s
    BY <2>1, <1>3, <1>4
  <2>2. CASE s < r
    BY <2>2, <1>3, <1>4
  <2> QED BY <2>1, <2>2, <1>1
<1>6. \A x \in i.list : Addresses(c, i)[x] = Plus(start, Cardinality(Below(x)))
  BY DEF Addresses, Below
<1> HIDE DEF start
<1>7. Plus(start, Cardinality(Below(r))) # Plus(start, Cardinality(Below(s)))
  BY <1>2, <1>3, <1>5, MemoryAssumption DEF Plus, Words
<1> QED BY <1>6, <1>7

(* The parts of an instruction.                                            *)
LEMMA StoredType ==
    ASSUME NEW i \in InstructionType, NEW c \in CpuType, NEW sa \in BOOLEAN, NEW r \in i.list
    PROVE  Stored(c, i, sa, r) \in Words
<1>1. r \in Registers /\ i.rn \in Registers /\ 15 \in Registers
  BY RegistersAssumption DEF InstructionType
<1>2. c.reg \in [Registers -> Words] /\ c.hidden \in [Banked -> Words]
  BY DEF CpuType
<1>3. c.reg[r] \in Words /\ c.reg[i.rn] \in Words /\ c.reg[15] \in Words
  BY <1>1, <1>2
<1>4. StoresHidden(c, i, r) => c.hidden[r] \in Words
  BY <1>2 DEF StoresHidden
<1>5. Plus(c.reg[15], r15_diff(sa)) \in Words
  BY <1>3, ShiftedType, MemoryAssumption DEF r15_diff
<1>6. BaseStored(c, i, sa, r) \in Words
  BY <1>3, MovedType DEF BaseStored
<1>7. StoresHidden(c, i, r) \in BOOLEAN
  BY DEF StoresHidden, InstructionType
<1> QED BY <1>3, <1>4, <1>5, <1>6, <1>7 DEF Stored

LEMMA FetchedType ==
    ASSUME NEW i \in InstructionType, NEW c \in CpuType, NEW m \in MemoryType, NEW r \in i.list
    PROVE  Fetched(c, i, m, r) \in Words
<1>1. m[Addresses(c, i)[r]] \in Words
  BY AddressesType DEF MemoryType
<1>2. Plus(m[Addresses(c, i)[r]], 1) \in Words
  BY <1>1, ShiftedType, MemoryAssumption
<1> QED BY <1>1, <1>2 DEF Fetched

LEMMA AfterType ==
    ASSUME NEW i \in InstructionType, NEW c \in CpuType, NEW sa \in BOOLEAN,
           NEW m \in MemoryType, NEW reached \in SUBSET i.list
    PROVE  /\ MemoryAfter(c, i, sa, m, reached) \in MemoryType
           /\ RegistersAfter(c, i, sa, m, reached) \in [Registers -> Words]
           /\ HiddenAfter(c, i, m, reached) \in [Banked -> Words]
<1>1. /\ c.reg \in [Registers -> Words] /\ c.hidden \in [Banked -> Words]
      /\ m \in [Words -> Words] /\ i.rn \in Registers
  BY DEF CpuType, MemoryType, InstructionType
<1>2. MemoryAfter(c, i, sa, m, reached) \in MemoryType
  <2> DEFINE at == Addresses(c, i)
  <2>1. ASSUME NEW a \in Words, \E r \in reached : at[r] = a
        PROVE  Stored(c, i, sa, CHOOSE r \in reached : at[r] = a) \in Words
    <3>1. (CHOOSE r \in reached : at[r] = a) \in i.list
      BY <2>1
    <3> QED BY <3>1, StoredType
  <2> QED BY <2>1, <1>1 DEF MemoryAfter, MemoryType
<1>3. c.reg[i.rn] \in Words /\ Moved(i, c.reg[i.rn]) \in Words
  BY <1>1, MovedType
<1>4. BaseAborted(c, i, sa) \in Words /\ BaseDone(c, i) \in Words
  BY <1>3 DEF BaseAborted, BaseDone
<1>5. \A r \in reached : Fetched(c, i, m, r) \in Words
  BY FetchedType
<1>6. RegistersAfter(c, i, sa, m, reached) \in [Registers -> Words]
  BY <1>1, <1>4, <1>5 DEF RegistersAfter
<1>7. HiddenAfter(c, i, m, reached) \in [Banked -> Words]
  BY <1>1, <1>5 DEF HiddenAfter
<1> QED BY <1>2, <1>6, <1>7

LEMMA ExecutedType ==
    ASSUME NEW i \in InstructionType, NEW c \in CpuType, NEW sa \in BOOLEAN,
           NEW m \in MemoryType, NEW acc
    PROVE  Executed(c, i, sa, m, acc) \in [cpu : CpuType, mem : MemoryType]
<1> DEFINE reached == Reached(c, i, acc)
           reg == RegistersAfter(c, i, sa, m, reached)
           hidden == HiddenAfter(c, i, m, reached)
           memory == MemoryAfter(c, i, sa, m, reached)
<1>1. reached \in SUBSET i.list
  BY DEF Reached
<1>2. reg \in [Registers -> Words] /\ hidden \in [Banked -> Words] /\ memory \in MemoryType
  BY <1>1, AfterType
<1>3. /\ [r \in Registers |-> IF r \in Banked THEN hidden[r] ELSE reg[r]] \in [Registers -> Words]
      /\ [r \in Banked |-> reg[r]] \in [Banked -> Words]
  BY <1>2, RegistersAssumption
<1>4. c.mode \in Modes /\ c.spsr \in Modes /\ c.memmode \in BOOLEAN
  BY DEF CpuType
<1>5. Executed(c, i, sa, m, acc).cpu \in CpuType
  <2> HIDE DEF reg, hidden
  <2>1. [mode |-> "User", spsr |-> c.spsr, memmode |-> FALSE,
         reg |-> [r \in Registers |-> IF r \in Banked THEN hidden[r] ELSE reg[r]],
         hidden |-> [r \in Banked |-> reg[r]]] \in CpuType
    BY <1>3, <1>4 DEF CpuType, Modes
  <2>2. [mode |-> c.mode, spsr |-> c.spsr, memmode |-> c.memmode,
         reg |-> reg, hidden |-> hidden] \in CpuType
    BY <1>2, <1>4 DEF CpuType
  <2> QED BY <2>1, <2>2 DEF Executed, reg, hidden
<1>6. Executed(c, i, sa, m, acc) =
        [mem |-> memory, cpu |-> Executed(c, i, sa, m, acc).cpu]
  BY DEF Executed
<1> QED BY <1>2, <1>5, <1>6

----
(* The machine c with memory m can start instruction i again, which began  *)
(* on b with memory bm: only what i will write is different.               *)
Resumable(c, m, b, bm, i) ==
    /\ c.mode = b.mode /\ c.spsr = b.spsr /\ c.memmode = b.memmode
    /\ c.reg[i.rn] = b.reg[i.rn] /\ c.reg[15] = b.reg[15]
    /\ \A r \in Registers :
          ~(i.load /\ r \in i.list /\ ~InHidden(b, i, r)) => c.reg[r] = b.reg[r]
    /\ \A r \in Banked :
          ~(i.load /\ r \in i.list /\ InHidden(b, i, r)) => c.hidden[r] = b.hidden[r]
    /\ i.load => m = bm
    /\ \A a \in Words : (\A r \in i.list : Addresses(b, i)[r] # a) => m[a] = bm[a]

(* With every page accessible nothing aborts.                              *)
LEMMA EveryPageReached ==
    ASSUME NEW i \in InstructionType, NEW c \in CpuType
    PROVE  Reached(c, i, EveryPage) = i.list
<1>1. \A r \in i.list : Page(Addresses(c, i)[r]) \in Pages
  BY AddressesType DEF Pages
<1>2. Faults(c, i, EveryPage) = {}
  BY <1>1 DEF Faults, EveryPage, Allowed
<1> QED BY <1>2 DEF Reached

(* Without an abort the instruction does what it does with every page.     *)
LEMMA NoFault ==
    ASSUME NEW i \in InstructionType, NEW c \in CpuType, NEW sa, NEW m, NEW acc,
           Faults(c, i, acc) = {}
    PROVE  Executed(c, i, sa, m, acc) = Executed(c, i, sa, m, EveryPage)
<1>1. Reached(c, i, acc) = Reached(c, i, EveryPage)
  BY EveryPageReached DEF Reached
<1> QED BY <1>1 DEF Executed

(* What is stored the second time is what was stored the first.            *)
LEMMA StoredAgain ==
    ASSUME NEW i \in InstructionType, NEW sa \in BOOLEAN,
           NEW c \in CpuType, NEW m \in MemoryType,
           NEW b \in CpuType, NEW bm \in MemoryType,
           Resumable(c, m, b, bm, i), ~i.load, NEW r \in i.list
    PROVE  Stored(c, i, sa, r) = Stored(b, i, sa, r)
<1>1. i.rn \in Registers /\ r \in Registers
  BY DEF InstructionType
<1>2. c.reg[r] = b.reg[r] /\ c.reg[15] = b.reg[15] /\ c.reg[i.rn] = b.reg[i.rn]
  BY <1>1 DEF Resumable
<1>3. StoresHidden(c, i, r) = StoresHidden(b, i, r)
  BY DEF StoresHidden, Resumable
<1>4. StoresHidden(b, i, r) => c.hidden[r] = b.hidden[r]
  BY DEF Resumable, StoresHidden
<1>5. BaseStored(c, i, sa, r) = BaseStored(b, i, sa, r)
  BY <1>2 DEF BaseStored
<1> QED BY <1>2, <1>3, <1>4, <1>5, Zenon DEF Stored

(* Executed again, the instruction comes to the same end.                  *)
LEMMA Repeated ==
    ASSUME NEW i \in InstructionType, NEW sa \in BOOLEAN,
           NEW c \in CpuType, NEW m \in MemoryType,
           NEW b \in CpuType, NEW bm \in MemoryType,
           Resumable(c, m, b, bm, i)
    PROVE  Executed(c, i, sa, m, EveryPage) = Executed(b, i, sa, bm, EveryPage)
<1> DEFINE list == i.list
<1>1. Reached(c, i, EveryPage) = list /\ Reached(b, i, EveryPage) = list
  BY EveryPageReached
<1>2. Addresses(c, i) = Addresses(b, i)
  BY DEF Addresses, Resumable
<1>3. \A r \in Registers : InHidden(c, i, r) = InHidden(b, i, r)
                           /\ StoresHidden(c, i, r) = StoresHidden(b, i, r)
  BY DEF InHidden, StoresHidden, Resumable
<1>4. i.rn \in Registers /\ 15 \in Registers /\ list \in SUBSET Registers
  BY RegistersAssumption DEF InstructionType
<1>5. ASSUME ~i.load, NEW r \in list
      PROVE  Stored(c, i, sa, r) = Stored(b, i, sa, r)
  BY <1>5, StoredAgain
<1>6. MemoryAfter(c, i, sa, m, list) = MemoryAfter(b, i, sa, bm, list)
  <2> DEFINE at == Addresses(b, i)
  <2>1. ASSUME NEW a \in Words
        PROVE  (IF ~i.load /\ \E r \in list : at[r] = a
                THEN Stored(c, i, sa, CHOOSE r \in list : at[r] = a) ELSE m[a])
             = (IF ~i.load /\ \E r \in list : at[r] = a
                THEN Stored(b, i, sa, CHOOSE r \in list : at[r] = a) ELSE bm[a])
    <3>1. CASE i.load
      BY <3>1 DEF Resumable
    <3>2. CASE ~i.load /\ \E r \in list : at[r] = a
      <4>1. (CHOOSE r \in list : at[r] = a) \in list
        BY <3>2
      <4> QED BY <3>2, <4>1, <1>5
    <3>3. CASE ~i.load /\ ~\E r \in list : at[r] = a
      BY <3>3 DEF Resumable
    <3> QED BY <3>1, <3>2, <3>3
  <2> HIDE DEF at
  <2>2. [a \in Words |-> IF ~i.load /\ \E r \in list : at[r] = a
                THEN Stored(c, i, sa, CHOOSE r \in list : at[r] = a) ELSE m[a]]
      = [a \in Words |-> IF ~i.load /\ \E r \in list : at[r] = a
                THEN Stored(b, i, sa, CHOOSE r \in list : at[r] = a) ELSE bm[a]]
    BY <2>1
  <2> QED BY <2>2, <1>2, Zenon DEF MemoryAfter, at
<1>7. \A r \in list : i.load => Fetched(c, i, m, r) = Fetched(b, i, bm, r)
  BY <1>2 DEF Fetched, Resumable
<1>8. BaseDone(c, i) = BaseDone(b, i)
  BY DEF BaseDone, Resumable
<1>9. RegistersAfter(c, i, sa, m, list) = RegistersAfter(b, i, sa, bm, list)
  <2>1. ASSUME NEW r \in Registers
        PROVE  (IF i.load /\ r \in list /\ ~InHidden(c, i, r) THEN Fetched(c, i, m, r)
                ELSE IF r = i.rn THEN BaseDone(c, i) ELSE c.reg[r])
             = (IF i.load /\ r \in list /\ ~InHidden(b, i, r) THEN Fetched(b, i, bm, r)
                ELSE IF r = i.rn THEN BaseDone(b, i) ELSE b.reg[r])
    BY <1>3, <1>7, <1>8 DEF Resumable
  <2>2. [r \in Registers |->
                IF i.load /\ r \in list /\ ~InHidden(c, i, r) THEN Fetched(c, i, m, r)
                ELSE IF r = i.rn THEN BaseDone(c, i) ELSE c.reg[r]]
      = [r \in Registers |->
                IF i.load /\ r \in list /\ ~InHidden(b, i, r) THEN Fetched(b, i, bm, r)
                ELSE IF r = i.rn THEN BaseDone(b, i) ELSE b.reg[r]]
    BY <2>1
  <2> QED BY <2>2 DEF RegistersAfter
<1>10. HiddenAfter(c, i, m, list) = HiddenAfter(b, i, bm, list)
  <2>1. \A r \in Banked : r \in Registers
    BY RegistersAssumption
  <2>2. ASSUME NEW r \in Banked
        PROVE  (IF i.load /\ r \in list /\ InHidden(c, i, r) THEN Fetched(c, i, m, r) ELSE c.hidden[r])
             = (IF i.load /\ r \in list /\ InHidden(b, i, r) THEN Fetched(b, i, bm, r) ELSE b.hidden[r])
    BY <2>1, <1>3, <1>7 DEF Resumable
  <2> QED BY <2>2 DEF HiddenAfter
<1>11. Returns(c, i, list) = Returns(b, i, list)
  BY DEF Returns, Resumable
<1>12. c.mode = b.mode /\ c.spsr = b.spsr /\ c.memmode = b.memmode
  BY DEF Resumable
<1> HIDE DEF list
<1> QED BY <1>1, <1>6, <1>9, <1>10, <1>11, <1>12, Zenon DEF Executed

(* After an abort, once the base is put right, the instruction can start   *)
(* again.                                                                  *)
LEMMA Aborted ==
    ASSUME NEW i \in InstructionType, NEW sa \in BOOLEAN,
           NEW c \in CpuType, NEW m \in MemoryType,
           NEW b \in CpuType, NEW bm \in MemoryType, NEW acc,
           Resumable(c, m, b, bm, i), Faults(c, i, acc) # {}
    PROVE  LET e == Executed(c, i, sa, m, acc)
           IN  /\ Undone(e.cpu, i, sa) \in CpuType
               /\ Resumable(Undone(e.cpu, i, sa), e.mem, b, bm, i)
<1> DEFINE e == Executed(c, i, sa, m, acc)
           reached == Reached(c, i, acc)
           u == Undone(e.cpu, i, sa)
<1>1. i.rn \in Registers /\ i.list \in SUBSET Registers /\ i.up \in BOOLEAN
  BY DEF InstructionType
<1>2. PICK f \in Faults(c, i, acc) : TRUE
  OBVIOUS
<1>3. f \in i.list /\ f \in 0..15
  BY <1>1, RegistersAssumption DEF Faults
<1>4. reached \in SUBSET i.list /\ f \notin reached /\ 15 \notin reached
  BY <1>2, <1>3, RegistersAssumption DEF Reached
<1>5. reached # i.list
  BY <1>3, <1>4
<1>6. ~Returns(c, i, reached)
  BY <1>4 DEF Returns
<1>7. e = [mem |-> MemoryAfter(c, i, sa, m, reached),
           cpu |-> [mode |-> c.mode, spsr |-> c.spsr, memmode |-> c.memmode,
                    reg |-> RegistersAfter(c, i, sa, m, reached),
                    hidden |-> HiddenAfter(c, i, m, reached)]]
  BY <1>6 DEF Executed
<1>8. e.cpu \in CpuType /\ e.mem \in MemoryType
  BY ExecutedType
<1>9. /\ e.cpu.reg = RegistersAfter(c, i, sa, m, reached)
      /\ e.cpu.hidden = HiddenAfter(c, i, m, reached)
      /\ e.mem = MemoryAfter(c, i, sa, m, reached)
      /\ e.cpu.mode = c.mode /\ e.cpu.spsr = c.spsr /\ e.cpu.memmode = c.memmode
  BY <1>7
<1> HIDE DEF e, reached
<1>10. e.cpu.reg[i.rn] = BaseAborted(c, i, sa)
  BY <1>1, <1>5, <1>9 DEF RegistersAfter
<1>11. c.reg[i.rn] \in Words /\ Offset(i) \in 0..Modulus
  BY <1>1, OffsetType DEF CpuType
<1>12. /\ u \in CpuType
       /\ u.mode = c.mode /\ u.spsr = c.spsr /\ u.memmode = c.memmode
       /\ u.hidden = e.cpu.hidden
       /\ u.reg[i.rn] = c.reg[i.rn]
       /\ \A r \in Registers : r # i.rn => u.reg[r] = e.cpu.reg[r]
  <2>1. CASE ~sa /\ WritesBack(i)
    <3> DEFINE base == Shifted(e.cpu.reg[i.rn], Offset(i), ~i.up)
    <3>1. base = c.reg[i.rn]
      BY <2>1, <1>1, <1>10, <1>11, ShiftedBack DEF BaseAborted, Moved
    <3>2. u = [e.cpu EXCEPT !.reg[i.rn] = base]
      BY <2>1 DEF Undone
    <3> HIDE DEF base
    <3> QED BY <3>1, <3>2, <1>1, <1>8, <1>9, <1>11 DEF CpuType
  <2>2. CASE ~(~sa /\ WritesBack(i))
    BY <2>2, <1>8, <1>9, <1>10 DEF Undone, BaseAborted
  <2> QED BY <2>1, <2>2
<1> HIDE DEF u
<1>13. c.reg[i.rn] = b.reg[i.rn] /\ c.mode = b.mode
  BY DEF Resumable
<1>14. \A r \in Registers : InHidden(c, i, r) = InHidden(b, i, r)
  BY <1>13 DEF InHidden
<1>20. u.reg[15] = b.reg[15]
  <2>1. 15 \in Registers
    BY RegistersAssumption
  <2>2. 15 # i.rn => RegistersAfter(c, i, sa, m, reached)[15] = c.reg[15]
    BY <2>1, <1>4 DEF RegistersAfter
  <2> QED BY <2>1, <2>2, <1>9, <1>12 DEF Resumable
<1>15. \A r \in Registers :
          ~(i.load /\ r \in i.list /\ ~InHidden(b, i, r)) => u.reg[r] = b.reg[r]
  <2>1. ASSUME NEW r \in Registers, ~(i.load /\ r \in i.list /\ ~InHidden(b, i, r)), r # i.rn
        PROVE  u.reg[r] = b.reg[r]
    <3>1. u.reg[r] = RegistersAfter(c, i, sa, m, reached)[r]
      BY <2>1, <1>12, <1>9
    <3>2. RegistersAfter(c, i, sa, m, reached)[r] = c.reg[r]
      BY <2>1, <1>4, <1>14 DEF RegistersAfter
    <3> QED BY <2>1, <3>1, <3>2 DEF Resumable
  <2> QED BY <2>1, <1>12, <1>13
<1>16. \A r \in Banked :
          ~(i.load /\ r \in i.list /\ InHidden(b, i, r)) => u.hidden[r] = b.hidden[r]
  <2>1. \A r \in Banked : r \in Registers
    BY RegistersAssumption
  <2> QED BY <2>1, <1>4, <1>9, <1>12, <1>14 DEF HiddenAfter, Resumable
<1>17. i.load => e.mem = bm
  <2>1. i.load => MemoryAfter(c, i, sa, m, reached) = [a \in Words |-> m[a]]
    BY DEF MemoryAfter
  <2> QED BY <2>1, <1>9 DEF Resumable, MemoryType
<1>18. \A a \in Words : (\A r \in i.list : Addresses(b, i)[r] # a) => e.mem[a] = bm[a]
  <2>1. Addresses(c, i) = Addresses(b, i)
    BY <1>13 DEF Addresses
  <2>2. ASSUME NEW a \in Words, \A r \in i.list : Addresses(b, i)[r] # a
        PROVE  e.mem[a] = m[a]
    BY <2>1, <2>2, <1>4, <1>9 DEF MemoryAfter
  <2> QED BY <2>2 DEF Resumable
<1>19. Resumable(u, e.mem, b, bm, i)
  BY <1>12, <1>13, <1>15, <1>16, <1>17, <1>18, <1>20 DEF Resumable
<1> QED BY <1>12, <1>19 DEF u, e

(* Memory holds what it held at first or what it will hold in the end.     *)
LEMMA MemoryOldOrNew ==
    ASSUME NEW i \in InstructionType, NEW sa \in BOOLEAN,
           NEW c \in CpuType, NEW m \in MemoryType,
           NEW b \in CpuType, NEW bm \in MemoryType, NEW acc,
           Resumable(c, m, b, bm, i), NEW a \in Words,
           m[a] \in {bm[a], Executed(b, i, sa, bm, EveryPage).mem[a]}
    PROVE  Executed(c, i, sa, m, acc).mem[a]
               \in {bm[a], Executed(b, i, sa, bm, EveryPage).mem[a]}
<1> DEFINE reached == Reached(c, i, acc)
           at == Addresses(b, i)
<1>1. reached \in SUBSET i.list
  BY DEF Reached
<1>2. Addresses(c, i) = at
  BY DEF Addresses, Resumable
<1>3. Executed(c, i, sa, m, acc).mem = MemoryAfter(c, i, sa, m, reached)
  BY DEF Executed
<1>4. Executed(b, i, sa, bm, EveryPage).mem = MemoryAfter(b, i, sa, bm, i.list)
  BY EveryPageReached DEF Executed
<1> HIDE DEF reached
<1>5. CASE ~i.load /\ \E r \in reached : at[r] = a
  <2>1. PICK r \in reached : at[r] = a
    BY <1>5
  <2>2. \A s \in i.list : at[s] = a => s = r
    BY <2>1, <1>1, AddressesDiffer
  <2> HIDE DEF at
  <2>3. (CHOOSE s \in reached : at[s] = a) = r /\ (CHOOSE s \in i.list : at[s] = a) = r
    BY <2>1, <2>2, <1>1
  <2>4. MemoryAfter(c, i, sa, m, reached)[a] = Stored(c, i, sa, r)
    BY <1>5, <1>2, <2>3 DEF MemoryAfter
  <2>5. MemoryAfter(b, i, sa, bm, i.list)[a] = Stored(b, i, sa, r)
    BY <1>5, <1>1, <2>1, <2>3 DEF MemoryAfter, at
  <2>6. Stored(c, i, sa, r) = Stored(b, i, sa, r)
    BY <1>1, <1>5, StoredAgain
  <2> QED BY <1>3, <1>4, <2>4, <2>5, <2>6
<1>6. CASE ~(~i.load /\ \E r \in reached : at[r] = a)
  <2>1. MemoryAfter(c, i, sa, m, reached)[a] = m[a]
    BY <1>2, <1>6 DEF MemoryAfter
  <2> QED BY <1>3, <2>1
<1> QED BY <1>5, <1>6

(* Where an abort leaves the registers.                                    *)
LEMMA BaseLeft ==
    ASSUME NEW i \in InstructionType, NEW sa \in BOOLEAN,
           NEW c \in CpuType, NEW m \in MemoryType,
           NEW b \in CpuType, NEW bm \in MemoryType, NEW acc,
           Resumable(c, m, b, bm, i), Faults(c, i, acc) # {}
    PROVE  LET e == Executed(c, i, sa, m, acc)
           IN  /\ e.cpu.reg[i.rn] = BaseAborted(b, i, sa)
               /\ \A r \in Registers \ (i.list \ {15}) : r # i.rn => e.cpu.reg[r] = b.reg[r]
               /\ e.cpu.mode = b.mode
<1> DEFINE e == Executed(c, i, sa, m, acc)
           reached == Reached(c, i, acc)
<1>1. i.rn \in Registers /\ i.list \in SUBSET Registers
  BY DEF InstructionType
<1>2. PICK f \in Faults(c, i, acc) : TRUE
  OBVIOUS
<1>3. f \in i.list /\ f \in 0..15
  BY <1>1, RegistersAssumption DEF Faults
<1>4. reached \in SUBSET i.list /\ f \notin reached /\ 15 \notin reached
  BY <1>2, <1>3, RegistersAssumption DEF Reached
<1>5. reached # i.list
  BY <1>3, <1>4
<1>6. ~Returns(c, i, reached)
  BY <1>4 DEF Returns
<1>7. e.cpu.reg = RegistersAfter(c, i, sa, m, reached) /\ e.cpu.mode = c.mode
  BY <1>6 DEF Executed
<1> HIDE DEF e, reached
<1>8. e.cpu.reg[i.rn] = BaseAborted(c, i, sa)
  BY <1>1, <1>5, <1>7 DEF RegistersAfter
<1>9. BaseAborted(c, i, sa) = BaseAborted(b, i, sa)
  BY DEF BaseAborted, Resumable
<1>10. ASSUME NEW r \in Registers \ (i.list \ {15}), r # i.rn
       PROVE  e.cpu.reg[r] = b.reg[r]
  <2>1. r \notin reached
    BY <1>4
  <2>2. e.cpu.reg[r] = c.reg[r]
    BY <1>7, <1>10, <2>1 DEF RegistersAfter
  <2>3. c.reg[r] = b.reg[r]
    BY <1>10 DEF Resumable
  <2> QED BY <2>2, <2>3
<1> QED BY <1>7, <1>8, <1>9, <1>10 DEF e, Resumable

----
(* The inductive invariant.                                                *)
Underway ==
    /\ want = Executed(before.cpu, instr, sa110, before.mem, EveryPage)
    /\ \A a \in Words : mem[a] \in {before.mem[a], want.mem[a]}
    /\ phase = "running" => Resumable(cpu, mem, before.cpu, before.mem, instr)
    /\ phase = "aborted" =>
          /\ Undone(cpu, instr, sa110) \in CpuType
          /\ Resumable(Undone(cpu, instr, sa110), mem, before.cpu, before.mem, instr)

TransferInv == TypeOK /\ Underway /\ Restartable /\ BaseAfterAbort

LEMMA ResumableAtFirst ==
    ASSUME NEW i, NEW c, NEW m
    PROVE  Resumable(c, m, c, m, i)
BY DEF Resumable

LEMMA InitInv == Init => TransferInv
<1> SUFFICES ASSUME Init PROVE TransferInv
  OBVIOUS
<1>1. /\ cpu \in CpuType /\ mem \in MemoryType /\ instr \in InstructionType
      /\ access \in [Pages -> Levels] /\ sa110 \in BOOLEAN
  BY InputsAssumption DEF Init
<1>2. before = [cpu |-> cpu, mem |-> mem] /\ want = Executed(cpu, instr, sa110, mem, EveryPage)
      /\ phase = "running" /\ popping = FALSE /\ saved = cpu /\ taken = 0 /\ far = Page(0)
  BY DEF Init
<1>3. far \in Pages
  BY <1>2, MemoryAssumption DEF Pages, Words
<1>4. want \in [cpu : CpuType, mem : MemoryType]
  BY <1>1, <1>2, ExecutedType
<1>5. TypeOK
  <2>1. popping \in BOOLEAN
    BY Zenon DEF Init
  <2>3. taken \in 0..MaxTaken
    BY <1>2, MemoryAssumption
  <2>2. before \in [cpu : CpuType, mem : MemoryType] /\ saved \in CpuType
        /\ phase \in {"running", "aborted", "done"}
    BY <1>1, <1>2
  <2> QED BY <1>1, <1>3, <1>4, <2>1, <2>2, <2>3 DEF TypeOK
<1>6. Underway
  BY <1>2, ResumableAtFirst DEF Underway
<1>7. Restartable /\ BaseAfterAbort
  BY <1>2 DEF Restartable, BaseAfterAbort
<1> QED BY <1>5, <1>6, <1>7 DEF TransferInv

LEMMA ExecuteInv == ASSUME TransferInv, Execute PROVE TransferInv'
<1> DEFINE e == Executed(cpu, instr, sa110, mem, access)
           b == before.cpu
           bm == before.mem
<1>1. /\ sa110 \in BOOLEAN /\ cpu \in CpuType /\ mem \in MemoryType
      /\ instr \in InstructionType /\ b \in CpuType /\ bm \in MemoryType
      /\ Resumable(cpu, mem, b, bm, instr)
  BY DEF TransferInv, TypeOK, Underway, Execute
<1>2. /\ cpu' = e.cpu /\ mem' = e.mem
      /\ UNCHANGED <<sa110, access, instr, before, want, popping, saved, taken>>
      /\ IF Faults(cpu, instr, access) = {}
         THEN phase' = "done" /\ UNCHANGED far
         ELSE /\ phase' = "aborted"
              /\ \E r \in Aborting(cpu, instr, access) :
                    far' = Page(Addresses(cpu, instr)[r])
  BY DEF Execute
<1>3. e \in [cpu : CpuType, mem : MemoryType]
  BY <1>1, ExecutedType
<1>4. far' \in Pages
  <2>1. \A r \in Aborting(cpu, instr, access) : r \in instr.list
    BY DEF Aborting, Faults
  <2>2. \A r \in instr.list : Page(Addresses(cpu, instr)[r]) \in Pages
    BY <1>1, AddressesType DEF Pages
  <2>3. far \in Pages
    BY DEF TransferInv, TypeOK
  <2> QED BY <1>2, <2>1, <2>2, <2>3
<1> HIDE DEF e
<1>5. TypeOK'
  BY <1>2, <1>3, <1>4 DEF TransferInv, TypeOK
<1>8. \A a \in Words : e.mem[a] \in {bm[a], want.mem[a]}
  <2>1. want = Executed(b, instr, sa110, bm, EveryPage)
    BY DEF TransferInv, Underway
  <2>2. \A a \in Words : mem[a] \in {bm[a], want.mem[a]}
    BY DEF TransferInv, Underway
  <2> QED BY <1>1, <2>1, <2>2, MemoryOldOrNew DEF e
<1>6. CASE Faults(cpu, instr, access) = {}
  <2>1. e = Executed(b, instr, sa110, bm, EveryPage)
    BY <1>1, <1>6, NoFault, Repeated DEF e
  <2>2. want = e
    BY <2>1 DEF TransferInv, Underway
  <2>3. e = [cpu |-> e.cpu, mem |-> e.mem]
    BY <1>3
  <2>4. Restartable' /\ BaseAfterAbort'
    BY <1>2, <1>6, <2>2, <2>3 DEF Restartable, BaseAfterAbort
  <2>5. Underway'
    BY <1>2, <1>6, <1>8 DEF TransferInv, Underway
  <2> QED BY <1>5, <2>4, <2>5 DEF TransferInv
<1>7. CASE Faults(cpu, instr, access) # {}
  <2>1. /\ Undone(e.cpu, instr, sa110) \in CpuType
        /\ Resumable(Undone(e.cpu, instr, sa110), e.mem, b, bm, instr)
    BY <1>1, <1>7, Aborted DEF e
  <2>2. Underway'
    BY <1>2, <1>7, <1>8, <2>1 DEF TransferInv, Underway
  <2>3. Restartable'
    BY <1>2, <1>7 DEF Restartable
  <2>4. /\ e.cpu.reg[instr.rn] = BaseAborted(b, instr, sa110)
        /\ \A r \in Registers \ (instr.list \ {15}) :
              r # instr.rn => e.cpu.reg[r] = b.reg[r]
        /\ e.cpu.mode = b.mode
    BY <1>1, <1>7, BaseLeft DEF e
  <2>5. BaseAfterAbort'
    BY <1>2, <1>8, <2>4 DEF BaseAfterAbort, BaseAborted
  <2> QED BY <1>5, <2>2, <2>3, <2>5 DEF TransferInv
<1> QED BY <1>6, <1>7

LEMMA HandleInv == ASSUME TransferInv, Handle PROVE TransferInv'
<1>1. /\ phase = "aborted" /\ phase' = "running"
      /\ cpu' = Undone(cpu, instr, sa110)
      /\ UNCHANGED <<sa110, mem, far, instr, before, want, popping, saved>>
  BY DEF Handle
<1>2. cpu' \in CpuType /\ Resumable(cpu', mem, before.cpu, before.mem, instr)
  BY <1>1 DEF TransferInv, Underway
<1>3. access' \in [Pages -> Levels] /\ taken' \in 0..MaxTaken
  BY MemoryAssumption DEF Handle, TransferInv, TypeOK, Levels
<1>4. TypeOK'
  BY <1>1, <1>2, <1>3 DEF TransferInv, TypeOK
<1>5. Underway'
  BY <1>1, <1>2 DEF TransferInv, Underway
<1>6. Restartable' /\ BaseAfterAbort'
  BY <1>1 DEF Restartable, BaseAfterAbort
<1> QED BY <1>4, <1>5, <1>6 DEF TransferInv

LEMMA PopInv == ASSUME TransferInv, Pop PROVE TransferInv'
<1>1. /\ sa110 \in BOOLEAN /\ cpu \in CpuType /\ mem \in MemoryType
      /\ instr \in InstructionType
  BY DEF TransferInv, TypeOK
<1>2. /\ phase' = "running" /\ popping' = TRUE
      /\ instr' = PopOf(instr) /\ cpu' = Spoiled
      /\ saved' = before.cpu
      /\ before' = [cpu |-> cpu', mem |-> mem]
      /\ want' = Executed(cpu', instr', sa110, mem, EveryPage)
      /\ UNCHANGED <<sa110, mem, access, far, taken>>
  BY DEF Pop
<1>3. instr' \in InstructionType
  BY <1>1, <1>2 DEF PopOf, InstructionType
<1>4. cpu' \in CpuType
  <2>1. \A x \in Words : Plus(x, 1) \in Words
    BY ShiftedType, MemoryAssumption
  <2>2. cpu.reg \in [Registers -> Words] /\ cpu.hidden \in [Banked -> Words]
    BY <1>1 DEF CpuType
  <2>3. /\ [r \in Registers |->
               IF r \in instr.list \ {15} /\ ~InHidden(cpu, instr, r)
               THEN Plus(cpu.reg[r], 1) ELSE cpu.reg[r]] \in [Registers -> Words]
        /\ [r \in Banked |->
               IF r \in instr.list /\ InHidden(cpu, instr, r)
               THEN Plus(cpu.hidden[r], 1) ELSE cpu.hidden[r]] \in [Banked -> Words]
    BY <2>1, <2>2
  <2> QED BY <1>1, <1>2, <2>3 DEF Spoiled, CpuType
<1>5. want' \in [cpu : CpuType, mem : MemoryType]
  BY <1>1, <1>2, <1>3, <1>4, ExecutedType
<1>6. TypeOK'
  BY <1>1, <1>2, <1>3, <1>4, <1>5 DEF TransferInv, TypeOK
<1>7. Resumable(cpu', mem', cpu', mem', instr')
  BY ResumableAtFirst
<1>8. Underway'
  BY <1>2, <1>7 DEF Underway
<1>9. Restartable' /\ BaseAfterAbort'
  BY <1>2 DEF Restartable, BaseAfterAbort
<1> QED BY <1>6, <1>8, <1>9 DEF TransferInv

LEMMA StepInv == TransferInv /\ [Next]_vars => TransferInv'
<1> SUFFICES ASSUME TransferInv, [Next]_vars PROVE TransferInv'
  OBVIOUS
<1>1. CASE Execute
  BY <1>1, ExecuteInv
<1>2. CASE Handle
  BY <1>2, HandleInv
<1>3. CASE Pop
  BY <1>3, PopInv
<1>4. CASE UNCHANGED vars
  BY <1>4 DEF vars, TransferInv, TypeOK, Underway, Restartable, BaseAfterAbort
<1> QED BY <1>1, <1>2, <1>3, <1>4 DEF Next

LEMMA InvHolds == Spec => []TransferInv
BY InitInv, StepInv, PTL DEF Spec

(* Registers, banks, memory and pages keep their types: no address leaves  *)
(* the memory, however it wraps around.                                    *)
THEOREM TypesHold == Spec => []TypeOK
<1>1. TransferInv => TypeOK
  BY DEF TransferInv
<1> QED BY <1>1, InvHolds, PTL

(* An instruction that aborted any number of times ends as if every page   *)
(* had been there, for either kind of processor and any abort handler that *)
(* undoes the write-back of those that leave it.                           *)
THEOREM TransfersRestart == Spec => []Restartable
<1>1. TransferInv => Restartable
  BY DEF TransferInv
<1> QED BY <1>1, InvHolds, PTL

(* Wherever an instruction aborted, the base is exactly what the abort     *)
(* handler of this processor expects, and memory is not torn.              *)
THEOREM BasePredictable == Spec => []BaseAfterAbort
<1>1. TransferInv => BaseAfterAbort
  BY DEF TransferInv
<1> QED BY <1>1, InvHolds, PTL

----
(* The pop of a push: it reads the words that the push wrote, and puts     *)
(* every register and the base back.                                       *)
LEMMA PopShape ==
    ASSUME NEW i \in InstructionType
    PROVE  /\ PopOf(i) \in InstructionType
           /\ PopOf(i).load = TRUE /\ PopOf(i).form = i.form /\ PopOf(i).list = i.list
           /\ PopOf(i).rn = i.rn /\ PopOf(i).w = i.w /\ PopOf(i).s = i.s
           /\ (PopOf(i).up <=> ~i.up) /\ (PopOf(i).pre <=> ~i.pre)
BY DEF PopOf, InstructionType

LEMMA SameWords ==
    ASSUME NEW i \in InstructionType, i.form = "multiple", NEW base \in Words
    PROVE  /\ Start(PopOf(i), Moved(i, base)) = Start(i, base)
           /\ Moved(PopOf(i), Moved(i, base)) = base
<1> DEFINE j == PopOf(i)
           n == Offset(i)
<1>1. /\ j.form = "multiple" /\ j.list = i.list /\ i.up \in BOOLEAN /\ i.pre \in BOOLEAN
      /\ (j.up <=> ~i.up) /\ (j.pre <=> ~i.pre) /\ j.up \in BOOLEAN /\ j.pre \in BOOLEAN
  BY PopShape DEF InstructionType
<1> HIDE DEF j
<1>2. Offset(j) = n
  BY <1>1 DEF Offset
<1>3. n \in 0..Modulus
  BY OffsetType
<1>4. Shifted(Shifted(base, n, i.up), n, ~i.up) = base
  BY <1>1, <1>3, ShiftedBack
<1>5. Moved(j, Moved(i, base)) = base
  <2>1. j.up = ~i.up
    BY <1>1
  <2> QED BY <1>2, <1>4, <2>1 DEF Moved
<1>6. Start(j, Moved(i, base)) = Start(i, base)
  <2>1. CASE i.up /\ i.pre
    BY <1>1, <1>5, <2>1 DEF Start
  <2>2. CASE i.up /\ ~i.pre
    BY <1>1, <1>5, <2>2 DEF Start
  <2>3. CASE ~i.up /\ i.pre
    BY <1>1, <1>5, <2>3 DEF Start
  <2>4. CASE ~i.up /\ ~i.pre
    BY <1>1, <1>5, <2>4 DEF Start
  <2> QED BY <1>1, <2>1, <2>2, <2>3, <2>4
<1> QED BY <1>5, <1>6 DEF j

(* What a push leaves behind.                                              *)
LEMMA Pushed ==
    ASSUME NEW i \in InstructionType, NEW b \in CpuType, NEW sa \in BOOLEAN, NEW bm \in MemoryType,
           Poppable(i), NEW c, NEW m, Executed(b, i, sa, bm, EveryPage) = [cpu |-> c, mem |-> m]
    PROVE  /\ c.mode = b.mode /\ c.reg[i.rn] = Moved(i, b.reg[i.rn])
           /\ \A r \in Registers \ {i.rn} : c.reg[r] = b.reg[r]
           /\ \A r \in Banked : c.hidden[r] = b.hidden[r]
           /\ \A r \in i.list : m[Addresses(b, i)[r]] = Stored(b, i, sa, r)
<1> DEFINE list == i.list
           e == Executed(b, i, sa, bm, EveryPage)
           at == Addresses(b, i)
<1>1. /\ ~i.load /\ WritesBack(i) /\ i.rn \notin list /\ i.rn \in Registers /\ list \in SUBSET Registers
  BY DEF Poppable, InstructionType
<1>2. Reached(b, i, EveryPage) = list
  BY EveryPageReached
<1>3. ~Returns(b, i, list)
  BY <1>1 DEF Returns
<1> HIDE DEF list
<1>4. e = [mem |-> MemoryAfter(b, i, sa, bm, list),
           cpu |-> [mode |-> b.mode, spsr |-> b.spsr, memmode |-> b.memmode,
                    reg |-> RegistersAfter(b, i, sa, bm, list), hidden |-> HiddenAfter(b, i, bm, list)]]
  BY <1>2, <1>3 DEF Executed
<1>5. e.cpu = c /\ e.mem = m
  OBVIOUS
<1> HIDE DEF e
<1>6. /\ c.mode = b.mode /\ c.reg = RegistersAfter(b, i, sa, bm, list) /\ c.hidden = HiddenAfter(b, i, bm, list)
      /\ m = MemoryAfter(b, i, sa, bm, list)
  BY <1>4, <1>5
<1>7. c.reg[i.rn] = Moved(i, b.reg[i.rn]) /\ \A r \in Registers \ {i.rn} : c.reg[r] = b.reg[r]
  BY <1>1, <1>6 DEF RegistersAfter, BaseDone, list
<1>8. \A r \in Banked : c.hidden[r] = b.hidden[r]
  BY <1>1, <1>6 DEF HiddenAfter
<1>9. ASSUME NEW r \in list PROVE m[at[r]] = Stored(b, i, sa, r)
  <2>1. at[r] \in Words
    BY AddressesType DEF list
  <2>2. \A s \in list : at[s] = at[r] => s = r
    BY AddressesDiffer DEF list
  <2> HIDE DEF at
  <2>3. (CHOOSE s \in list : at[s] = at[r]) = r
    BY <2>2
  <2>4. MemoryAfter(b, i, sa, bm, list)[at[r]] = Stored(b, i, sa, CHOOSE s \in list : at[s] = at[r])
    BY <1>1, <2>1 DEF MemoryAfter, at
  <2> QED BY <1>6, <2>3, <2>4
<1> QED BY <1>6, <1>7, <1>8, <1>9 DEF list

(* Popped takes registers with the bank of the push: what is not popped    *)
(* was not spoiled.                                                        *)
LEMMA Popped ==
    ASSUME NEW i \in InstructionType, Poppable(i), NEW b \in CpuType, NEW sa \in BOOLEAN,
           NEW c \in CpuType, NEW m \in MemoryType,
           c.mode = b.mode, c.reg[i.rn] = Moved(i, b.reg[i.rn]),
           \A r \in Registers \ {i.rn, 15} : ~(r \in i.list /\ ~InHidden(b, i, r)) => c.reg[r] = b.reg[r],
           \A r \in Banked : ~(r \in i.list /\ InHidden(b, i, r)) => c.hidden[r] = b.hidden[r],
           \A r \in i.list : m[Addresses(b, i)[r]] = Stored(b, i, sa, r)
    PROVE  LET e == Executed(c, PopOf(i), sa, m, EveryPage)
           IN  /\ \A r \in Registers \ {15} : e.cpu.reg[r] = b.reg[r]
               /\ e.cpu.hidden = b.hidden
               /\ e.cpu.mode = b.mode
<1> DEFINE j == PopOf(i)
           list == i.list
           e == Executed(c, j, sa, m, EveryPage)
           base == b.reg[i.rn]
<1>1. /\ i.form = "multiple" /\ ~i.load /\ WritesBack(i) /\ i.rn \notin list /\ i.rn \in Registers
      /\ i.rn # 15 /\ list \in SUBSET Registers /\ ~(i.s /\ 15 \in list) /\ i.w
  BY DEF Poppable, InstructionType, WritesBack
<1>2. /\ j \in InstructionType /\ j.load = TRUE /\ j.form = i.form /\ j.list = list
      /\ j.rn = i.rn /\ j.w = i.w /\ j.s = i.s
  BY PopShape
<1>3. base \in Words
  BY <1>1 DEF CpuType
<1>4. Start(j, Moved(i, base)) = Start(i, base) /\ Moved(j, Moved(i, base)) = base
  BY <1>1, <1>3, SameWords
<1> HIDE DEF j
<1>5. Addresses(c, j) = Addresses(b, i)
  BY <1>2, <1>4 DEF Addresses
<1>6. Reached(c, j, EveryPage) = list
  BY <1>2, EveryPageReached
<1>7. ~Returns(c, j, list)
  BY <1>1, <1>2 DEF Returns
<1>8. /\ e.cpu.reg = RegistersAfter(c, j, sa, m, list) /\ e.cpu.hidden = HiddenAfter(c, j, m, list)
      /\ e.cpu.mode = c.mode
  BY <1>6, <1>7 DEF Executed
<1> HIDE DEF e
<1>9. \A r \in Registers : /\ InHidden(c, j, r) = InHidden(b, i, r)
                           /\ InHidden(b, i, r) = StoresHidden(b, i, r)
  BY <1>1, <1>2 DEF InHidden, StoresHidden
<1>10. ASSUME NEW r \in list \ {15}
       PROVE  /\ InHidden(b, i, r) => Fetched(c, j, m, r) = b.hidden[r]
              /\ ~InHidden(b, i, r) => Fetched(c, j, m, r) = b.reg[r]
  <2>1. Fetched(c, j, m, r) = Stored(b, i, sa, r)
    BY <1>5 DEF Fetched
  <2>2. r # i.rn /\ r # 15 /\ r \in Registers
    BY <1>1
  <2>3. CASE InHidden(b, i, r)
    <3>1. StoresHidden(b, i, r)
      BY <1>9, <2>2, <2>3
    <3> QED BY <2>1, <2>2, <2>3, <3>1 DEF Stored
  <2>4. CASE ~InHidden(b, i, r)
    <3>1. ~StoresHidden(b, i, r)
      BY <1>9, <2>2, <2>4
    <3> QED BY <2>1, <2>2, <2>4, <3>1 DEF Stored
  <2> QED BY <2>3, <2>4
<1>11. BaseDone(c, j) = base
  <2>1. WritesBack(j)
    BY <1>1, <1>2 DEF WritesBack
  <2> QED BY <1>2, <1>4, <2>1 DEF BaseDone
<1> HIDE DEF list
<1>12. ASSUME NEW r \in Registers \ {15} PROVE e.cpu.reg[r] = b.reg[r]
  <2>1. CASE r \in list /\ ~InHidden(b, i, r)
    <3>1. e.cpu.reg[r] = Fetched(c, j, m, r)
      BY <1>2, <1>8, <1>9, <2>1 DEF RegistersAfter
    <3> QED BY <1>10, <2>1, <3>1
  <2>2. CASE r = i.rn
    <3>1. e.cpu.reg[r] = BaseDone(c, j)
      BY <1>1, <1>2, <1>8, <2>2 DEF RegistersAfter
    <3> QED BY <1>11, <2>2, <3>1
  <2>3. CASE ~(r \in list /\ ~InHidden(b, i, r)) /\ r # i.rn
    <3>1. e.cpu.reg[r] = c.reg[r]
      BY <1>2, <1>8, <1>9, <2>3 DEF RegistersAfter
    <3> QED BY <2>3, <3>1 DEF list
  <2> QED BY <2>1, <2>2, <2>3
<1>13. e.cpu.hidden = b.hidden
  <2>1. \A r \in Banked : r \in Registers /\ r # 15
    BY RegistersAssumption
  <2>2. ASSUME NEW r \in Banked PROVE e.cpu.hidden[r] = b.hidden[r]
    <3>1. CASE r \in list /\ InHidden(b, i, r)
      <4>1. e.cpu.hidden[r] = Fetched(c, j, m, r)
        BY <1>2, <1>8, <1>9, <2>1, <3>1 DEF HiddenAfter
      <4> QED BY <1>10, <2>1, <3>1, <4>1
    <3>2. CASE ~(r \in list /\ InHidden(b, i, r))
      <4>1. e.cpu.hidden[r] = c.hidden[r]
        BY <1>2, <1>8, <1>9, <2>1, <3>2 DEF HiddenAfter
      <4> QED BY <3>2, <4>1 DEF list
    <3> QED BY <3>1, <3>2
  <2>3. e.cpu.hidden = [r \in Banked |-> e.cpu.hidden[r]]
    BY <1>8 DEF HiddenAfter
  <2>4. b.hidden = [r \in Banked |-> b.hidden[r]]
    BY DEF CpuType
  <2> QED BY <2>2, <2>3, <2>4
<1> QED BY <1>8, <1>12, <1>13 DEF e, j

(* Once a pop has begun, what it will have done is what was saved.         *)
PopWanted ==
    popping =>
        /\ \A r \in Registers \ {15} : want.cpu.reg[r] = saved.reg[r]
        /\ want.cpu.hidden = saved.hidden
        /\ want.cpu.mode = saved.mode

LEMMA PopBegins == ASSUME TransferInv, Pop PROVE PopWanted'
<1> DEFINE b == before.cpu
           bm == before.mem
           list == instr.list
<1>1. /\ sa110 \in BOOLEAN /\ cpu \in CpuType /\ mem \in MemoryType
      /\ instr \in InstructionType /\ b \in CpuType /\ bm \in MemoryType
  BY DEF TransferInv, TypeOK
<1>2. /\ phase = "done" /\ Poppable(instr)
      /\ cpu' = Spoiled /\ saved' = b
      /\ want' = Executed(cpu', PopOf(instr), sa110, mem, EveryPage)
  BY DEF Pop
<1>3. Executed(b, instr, sa110, bm, EveryPage) = [cpu |-> cpu, mem |-> mem]
  BY <1>2 DEF TransferInv, Underway, Restartable
<1>4. /\ cpu.mode = b.mode /\ cpu.reg[instr.rn] = Moved(instr, b.reg[instr.rn])
      /\ \A r \in Registers \ {instr.rn} : cpu.reg[r] = b.reg[r]
      /\ \A r \in Banked : cpu.hidden[r] = b.hidden[r]
      /\ \A r \in list : mem[Addresses(b, instr)[r]] = Stored(b, instr, sa110, r)
  <2>1. \A c, m : Executed(b, instr, sa110, bm, EveryPage) = [cpu |-> c, mem |-> m] =>
                      /\ c.mode = b.mode /\ c.reg[instr.rn] = Moved(instr, b.reg[instr.rn])
                      /\ \A r \in Registers \ {instr.rn} : c.reg[r] = b.reg[r]
                      /\ \A r \in Banked : c.hidden[r] = b.hidden[r]
                      /\ \A r \in list : m[Addresses(b, instr)[r]] = Stored(b, instr, sa110, r)
    BY <1>1, <1>2, Pushed
  <2> QED BY <1>3, <2>1
<1>5. \A r \in Registers : InHidden(cpu, instr, r) = InHidden(b, instr, r)
  BY <1>4 DEF InHidden
<1>6. cpu' \in CpuType
  <2>1. TransferInv'
    BY PopInv
  <2> QED BY <2>1 DEF TransferInv, TypeOK
<1>7. /\ cpu'.mode = cpu.mode
      /\ \A r \in Registers : ~(r \in list \ {15} /\ ~InHidden(cpu, instr, r)) => cpu'.reg[r] = cpu.reg[r]
      /\ \A r \in Banked : ~(r \in list /\ InHidden(cpu, instr, r)) => cpu'.hidden[r] = cpu.hidden[r]
  BY <1>1, <1>2 DEF Spoiled, CpuType
<1>8. instr.rn \in Registers /\ instr.rn \notin list
  BY <1>1, <1>2 DEF Poppable, InstructionType
<1>9. cpu'.mode = b.mode /\ cpu'.reg[instr.rn] = Moved(instr, b.reg[instr.rn])
  BY <1>4, <1>7, <1>8
<1>10. \A r \in Registers \ {instr.rn, 15} : ~(r \in list /\ ~InHidden(b, instr, r)) => cpu'.reg[r] = b.reg[r]
  BY <1>4, <1>5, <1>7
<1>11. \A r \in Banked : ~(r \in list /\ InHidden(b, instr, r)) => cpu'.hidden[r] = b.hidden[r]
  <2>1. \A r \in Banked : r \in Registers
    BY RegistersAssumption
  <2> QED BY <1>4, <1>5, <1>7, <2>1
<1> HIDE DEF b, bm
<1>12. /\ \A r \in Registers \ {15} : want'.cpu.reg[r] = b.reg[r]
       /\ want'.cpu.hidden = b.hidden
       /\ want'.cpu.mode = b.mode
  BY <1>1, <1>2, <1>4, <1>6, <1>9, <1>10, <1>11, Popped
<1> QED BY <1>2, <1>12 DEF PopWanted

LEMMA PopStep == ASSUME TransferInv, PopWanted, [Next]_vars PROVE PopWanted'
<1>1. CASE Pop
  BY <1>1, PopBegins
<1>2. CASE Execute \/ Handle \/ UNCHANGED vars
  <2>1. UNCHANGED <<popping, want, saved>>
    BY <1>2 DEF Execute, Handle, vars
  <2> QED BY <2>1 DEF PopWanted
<1> QED BY <1>1, <1>2 DEF Next

(* What was pushed is popped: registers, banks, base and mode, in any of   *)
(* the four directions and with aborts in both.                            *)
THEOREM PushesArePopped == Spec => []PopsWhatItPushed
<1>1. Init => PopWanted
  BY DEF Init, PopWanted
<1>2. TransferInv /\ PopWanted /\ [Next]_vars => PopWanted'
  BY PopStep
<1>3. TransferInv /\ PopWanted => PopsWhatItPushed
  <2>1. want = [cpu |-> cpu, mem |-> mem] => want.cpu = cpu
    OBVIOUS
  <2> QED BY <2>1 DEF TransferInv, Restartable, PopWanted, PopsWhatItPushed
<1> QED BY <1>1, <1>2, <1>3, InvHolds, PTL DEF Spec
====
