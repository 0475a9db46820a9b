----------------------------- MODULE FdcProofs -----------------------------
(***************************************************************************)
(* Proofs about the floppy controller.                                     *)
(***************************************************************************)
EXTENDS Fdc, TLAPS

USE DEF Transfers, Commands, Results, Tc, Density, Sectors

LEMMA InitInv == Init => FdcInv
<1> SUFFICES ASSUME Init PROVE FdcInv
  OBVIOUS
<1>1. ParametersOK
  BY DiscAssumption, SizeAssumption DEF Init, ParametersOK, ParameterBytes
<1>2. DataOK
  BY DiscAssumption, SizeAssumption DEF Init, DataOK, Disc
<1>3. PlaceOK
  BY DiscAssumption, SizeAssumption DEF Init, PlaceOK
<1>4. FlagsOK
  BY DEF Init, FlagsOK
<1>5. ControlOK
  BY DEF Init, ControlOK
<1>6. PhaseOf = "silent"
  BY DEF Init, PhaseOf
<1> QED BY <1>1, <1>2, <1>3, <1>4, <1>5, <1>6 DEF Init, FdcInv, TypeOK, NeverFatal, PhaseInv, CommandInv

LEMMA ParametersRange ==
  \A c \in Commands : /\ ParametersOf(c) \in 0 .. 8
                     /\ ParametersOf(c) = 0 <=> c \in {"SENSE_INTERRUPT_STATUS", "DUMPREG"}
  BY DEF ParametersOf

LEMMA DorInv == ASSUME FdcInv, NEW pulse \in BOOLEAN, WriteDor(pulse) PROVE FdcInv'
<1>1. TypeOK'
  <2>1. FlagsOK'
    BY DEF FdcInv, WriteDor, regs, task, place, phase, TypeOK, FlagsOK
  <2>2. ControlOK'
    BY DEF FdcInv, WriteDor, regs, task, place, phase, TypeOK, ControlOK
  <2>3. ParametersOK'
    BY DEF FdcInv, WriteDor, regs, task, place, phase, TypeOK, ParametersOK
  <2>4. PlaceOK' /\ DataOK'
    BY SizeAssumption, DiscAssumption DEF FdcInv, WriteDor, regs, task, place, phase, TypeOK, PlaceOK, DataOK
  <2> QED BY <2>1, <2>2, <2>3, <2>4 DEF TypeOK
<1>2. ~awaiting /\ reset' /\ fdccallback' /\ ~dma' /\ ~irq'
  BY DEF WriteDor
<1>3. PhaseInv'
  <2>1. CASE pulse
    <3>1. PhaseOf' = "reset"
      BY <2>1 DEF WriteDor, PhaseOf
    <3> QED BY <1>2, <3>1 DEF PhaseInv
  <2>2. CASE ~pulse
    <3>1. ~awaiting' /\ PhaseOf # "reset" /\ PhaseOf' = PhaseOf
      BY <1>2, <2>2 DEF WriteDor, PhaseOf, phase
    <3>2. SentOf' = SentOf
      BY <3>1 DEF WriteDor, SentOf, task, place
    <3>3. PhaseOf = "results" => Answering'
      BY <1>2, <2>2, <3>2 DEF FdcInv, PhaseInv, Answering, WriteDor, phase, task
    <3> QED BY <1>2, <2>2, <3>1, <3>3 DEF FdcInv, PhaseInv, WriteDor, phase, task, place
  <2> QED BY <2>1, <2>2
<1> QED BY <1>1, <1>3 DEF FdcInv, NeverFatal, CommandInv, WriteDor, phase, task

LEMMA StatusInv == ASSUME FdcInv, ReadStatus PROVE FdcInv'
<1>1. TypeOK'
  <2>1. FlagsOK'
    BY DEF FdcInv, ReadStatus, regs, task, place, phase, TypeOK, FlagsOK
  <2>2. ControlOK'
    BY DEF FdcInv, ReadStatus, regs, task, place, phase, TypeOK, ControlOK
  <2>3. ParametersOK'
    BY DEF FdcInv, ReadStatus, regs, task, place, phase, TypeOK, ParametersOK
  <2>4. PlaceOK' /\ DataOK'
    BY SizeAssumption, DiscAssumption DEF FdcInv, ReadStatus, regs, task, place, phase, TypeOK, PlaceOK, DataOK
  <2> QED BY <2>1, <2>2, <2>3, <2>4 DEF TypeOK
<1>2. PhaseOf # "reset" /\ PhaseOf' = PhaseOf
  BY DEF FdcInv, PhaseInv, PhaseOf, ReadStatus, phase
<1>3. SentOf' = SentOf
  BY <1>2 DEF ReadStatus, SentOf, task, place
<1>4. (Working' <=> Working) /\ (Answering' <=> Answering)
  BY <1>3 DEF Working, Answering, Transferring, Last, ReadStatus, task, place, phase
<1>5. PhaseInv'
  BY <1>2, <1>4 DEF FdcInv, PhaseInv, ReadStatus, task, place, phase
<1> QED BY <1>1, <1>5 DEF FdcInv, NeverFatal, CommandInv, ReadStatus, task, phase

LEMMA RateInv == ASSUME FdcInv, NEW r \in {0, Density}, SetRate(r) PROVE FdcInv'
<1>1. TypeOK'
  <2>1. FlagsOK'
    BY DEF FdcInv, SetRate, regs, task, place, phase, TypeOK, FlagsOK
  <2>2. ControlOK'
    BY DEF FdcInv, SetRate, regs, task, place, phase, TypeOK, ControlOK
  <2>3. ParametersOK'
    BY DEF FdcInv, SetRate, regs, task, place, phase, TypeOK, ParametersOK
  <2>4. PlaceOK' /\ DataOK'
    BY SizeAssumption, DiscAssumption DEF FdcInv, SetRate, regs, task, place, phase, TypeOK, PlaceOK, DataOK
  <2> QED BY <2>1, <2>2, <2>3, <2>4 DEF TypeOK
<1>2. PhaseOf' = PhaseOf
  BY DEF PhaseOf, SetRate, regs, phase
<1>3. SentOf' = SentOf
  BY <1>2 DEF SetRate, SentOf, task, place
<1>4. (Working' <=> Working) /\ (Answering' <=> Answering)
  BY <1>3 DEF Working, Answering, Transferring, Last, SetRate, regs, task, place, phase
<1>5. PhaseInv'
  BY <1>2, <1>4 DEF FdcInv, PhaseInv, SetRate, regs, task, place
<1> QED BY <1>1, <1>5 DEF FdcInv, NeverFatal, CommandInv, SetRate, task, phase

LEMMA CommandStep == ASSUME FdcInv, NEW c \in Commands, WriteCommand(c) PROVE FdcInv'
<1>1. TypeOK'
  <2>1. FlagsOK'
    BY DEF FdcInv, WriteCommand, TypeOK, FlagsOK
  <2>2. ControlOK'
    BY DEF FdcInv, WriteCommand, TypeOK, ControlOK, ParametersOf
  <2>3. ParametersOK'
    BY DEF FdcInv, WriteCommand, TypeOK, ParametersOK
  <2>4. PlaceOK' /\ DataOK'
    BY SizeAssumption, DiscAssumption DEF FdcInv, WriteCommand, TypeOK, PlaceOK, DataOK
  <2> QED BY <2>1, <2>2, <2>3, <2>4 DEF TypeOK
<1>2. ~awaiting /\ ~incommand /\ params = 0 /\ ~dma /\ (fdccallback => reset) /\ curparam = 0
  <2>1. ~awaiting
    BY DEF WriteCommand, MayWrite
  <2>2. ~incommand
    BY <2>1 DEF FdcInv, WriteCommand, MayWrite, PhaseInv, PhaseOf, CommandInv
  <2>3. PhaseOf = "idle"
    BY <2>1, <2>2 DEF PhaseOf, WriteCommand, MayWrite
  <2> QED BY <2>1, <2>2, <2>3 DEF FdcInv, PhaseInv, CommandInv
<1>3. CommandInv' /\ NeverFatal'
  <2>1. command' = c /\ params' = ParametersOf(c) /\ (c # "DUMPREG" => incommand') /\ (c = "DUMPREG" => ~incommand')
    BY DEF WriteCommand
  <2>2. curparam' = 0
    BY <1>2 DEF WriteCommand
  <2>3. ~fault'
    BY <1>2 DEF WriteCommand, FdcInv, NeverFatal
  <2> QED BY <2>1, <2>2, <2>3, ParametersRange DEF CommandInv, NeverFatal, ParametersOf
<1>7. ~awaiting' /\ ~dma' /\ reset' = reset
  BY <1>2 DEF WriteCommand
<1>4. CASE c = "DUMPREG"
  <2>1. PhaseOf' = "idle" /\ ~fdccallback'
    BY <1>2, <1>4 DEF WriteCommand, PhaseOf
  <2> QED BY <1>1, <1>3, <1>7, <2>1 DEF FdcInv, PhaseInv
<1>5. CASE c = "SENSE_INTERRUPT_STATUS"
  <2>1. PhaseOf' = "execution"
    BY <1>2, <1>5 DEF WriteCommand, PhaseOf, ParametersOf
  <2>2. Working' /\ fdccallback'
    BY <1>2, <1>5 DEF WriteCommand, Working, ParametersOf
  <2>3. incommand' /\ curparam' = params' /\ "RQM" \notin status'
    BY <1>2, <1>5 DEF WriteCommand, ParametersOf
  <2> QED BY <1>1, <1>3, <1>7, <2>1, <2>2, <2>3 DEF FdcInv, PhaseInv
<1>6. CASE c \notin {"DUMPREG", "SENSE_INTERRUPT_STATUS"}
  <2>1. PhaseOf' = "parameters"
    BY <1>2, <1>6 DEF WriteCommand, PhaseOf, ParametersOf
  <2>2. (fdccallback' => reset') /\ commandpos' = 0
    BY <1>2, <1>6 DEF WriteCommand
  <2> QED BY <1>1, <1>3, <1>7, <2>1, <2>2 DEF FdcInv, PhaseInv
<1> QED BY <1>4, <1>5, <1>6

LEMMA ReadInv == ASSUME FdcInv, ReadData PROVE FdcInv'
<1>1. TypeOK'
  <2>1. FlagsOK'
    BY DEF FdcInv, ReadData, phase, task, place, TypeOK, FlagsOK
  <2>2. ControlOK'
    BY DEF FdcInv, ReadData, phase, task, place, TypeOK, ControlOK
  <2>3. ParametersOK'
    BY DEF FdcInv, ReadData, phase, task, place, TypeOK, ParametersOK
  <2>4. PlaceOK' /\ DataOK'
    BY SizeAssumption, DiscAssumption DEF FdcInv, ReadData, phase, task, place, TypeOK, PlaceOK, DataOK
  <2> QED BY <2>1, <2>2, <2>3, <2>4 DEF TypeOK
<1>2. PhaseOf = "results" /\ Answering
  BY DEF FdcInv, ReadData, PhaseOf, PhaseInv
<1>3. CommandInv' /\ NeverFatal'
  BY DEF FdcInv, ReadData, CommandInv, NeverFatal, phase, task
<1>4. CASE incommand
  <2>1. PhaseOf' = "results" /\ SentOf' = SentOf
    BY <1>2, <1>4 DEF ReadData, PhaseOf, SentOf, task, place
  <2>2. Answering' /\ fdccallback' /\ ~dma' /\ ~awaiting'
    BY <1>2, <1>4, <2>1 DEF ReadData, Answering, phase, task
  <2> QED BY <1>1, <1>3, <2>1, <2>2 DEF FdcInv, PhaseInv
<1>5. CASE ~incommand
  <2>1. PhaseOf' = "idle"
    BY <1>2, <1>5 DEF ReadData, PhaseOf, phase, PhaseInv, FdcInv
  <2>2. ~dma' /\ ~awaiting' /\ (fdccallback' => reset')
    BY <1>2, <1>5 DEF ReadData, Answering
  <2> QED BY <1>1, <1>3, <2>1, <2>2 DEF FdcInv, PhaseInv
<1> QED BY <1>4, <1>5

LEMMA ParameterInv ==
  ASSUME FdcInv, NEW v \in ParameterBytes(curparam), WriteParameter(v) PROVE FdcInv'
<1>1. PhaseOf = "parameters" /\ incommand /\ ~awaiting /\ "DIO" \notin status /\ "RQM" \in status
  BY DEF FdcInv, WriteParameter, MayWrite, PhaseInv, PhaseOf, CommandInv
<1>2. curparam \in 0 .. params - 1 /\ params \in 1 .. 8 /\ curparam' = curparam + 1 /\ params' = params
  BY <1>1 DEF FdcInv, WriteParameter, TypeOK, ControlOK, CommandInv, PhaseOf
<1>3. ParametersOK'
  <2>1. parameters' = [parameters EXCEPT ![curparam] = v] /\ v \in Int
    BY DiscAssumption, SizeAssumption DEF WriteParameter, ParameterBytes
  <2>2. parameters' \in [0 .. 9 -> Int]
    BY <2>1, <1>2 DEF FdcInv, TypeOK, ParametersOK
  <2>3. ASSUME NEW i \in 0 .. 9 PROVE parameters'[i] \in ParameterBytes(i)
    <3>1. CASE i = curparam
      BY <2>1, <3>1, <1>2 DEF FdcInv, TypeOK, ParametersOK
    <3>2. CASE i # curparam
      BY <2>1, <3>2, <1>2 DEF FdcInv, TypeOK, ParametersOK
    <3> QED BY <3>1, <3>2
  <2> QED BY <2>2, <2>3 DEF ParametersOK, ParameterBytes
<1>4. parameters'[0] \in Drives /\ parameters'[1] \in Tracks /\ parameters'[3] \in Sectors /\ parameters'[5] \in Sectors
  BY <1>3 DEF ParametersOK, ParameterBytes
<1>5. TypeOK'
  <2>1. FlagsOK'
    BY DEF FdcInv, WriteParameter, phase, TypeOK, FlagsOK
  <2>2. status' = status \/ status' = status \ {"RQM"} \/ status' = (status \ {"RQM"}) \cup {"D0"}
    BY DEF WriteParameter
  <2>3. status' \subseteq {"RQM", "DIO", "CB", "D0"}
    BY <2>2 DEF FdcInv, TypeOK, ControlOK
  <2>4. command' = command \/ command' = "READ_ID_FM"
    BY DEF WriteParameter
  <2>5. curparam' \in 0 .. 8 /\ params' \in 0 .. 8
    BY <1>2
  <2>6. ControlOK'
    BY <2>3, <2>4, <2>5 DEF FdcInv, WriteParameter, TypeOK, ControlOK
  <2>7. PlaceOK' /\ DataOK'
    BY <1>4, SizeAssumption, DiscAssumption DEF FdcInv, WriteParameter, TypeOK, PlaceOK, DataOK
  <2> QED BY <1>3, <2>1, <2>6, <2>7 DEF TypeOK
<1>6. CommandInv' /\ NeverFatal'
  <2>1. command' \in Commands \ {"DUMPREG"} /\ params' = ParametersOf(command')
    BY <1>1 DEF FdcInv, WriteParameter, CommandInv, ParametersOf
  <2> QED BY <2>1, <1>1, <1>2 DEF FdcInv, WriteParameter, CommandInv, NeverFatal, ParametersOf
<1>7. ~dma /\ (fdccallback => reset) /\ commandpos = 0
  BY <1>1 DEF FdcInv, PhaseInv
<1>10. ~awaiting' /\ ~dma' /\ reset' = reset /\ incommand'
  BY <1>1, <1>7 DEF WriteParameter
<1>8. CASE curparam' # params
  <2>1. PhaseOf' = "parameters"
    BY <1>1, <1>2, <1>8 DEF WriteParameter, PhaseOf
  <2>2. (fdccallback' => reset') /\ commandpos' = 0
    BY <1>7, <1>8 DEF WriteParameter
  <2> QED BY <1>5, <1>6, <1>10, <2>1, <2>2 DEF FdcInv, PhaseInv
<1>9. CASE curparam' = params
  <2>1. status' = (status \ {"RQM"}) \cup IF command \in {"SEEK", "RECALIBRATE"} THEN {"D0"} ELSE {}
    BY <1>9 DEF WriteParameter
  <2>2. PhaseOf' = "execution"
    BY <1>1, <1>2, <1>9, <2>1 DEF WriteParameter, PhaseOf
  <2>3. commandpos' = 0 /\ fdccallback' /\ ~dma'
    BY <1>7, <1>9 DEF WriteParameter
  <2>4. ASSUME command' \in {"READ_DATA", "WRITE_DATA"} PROVE Transferring'
    <3>1. track' = parameters'[1] /\ sector' = parameters'[3]
      BY <1>9, <2>4 DEF WriteParameter
    <3> QED BY <2>3, <3>1, <1>4, SizeAssumption DEF Transferring, Last
  <2>5. Working'
    BY <1>1, <1>2, <1>9, <2>1, <2>3, <2>4 DEF Working, WriteParameter
  <2>6. curparam' = params' /\ "RQM" \notin status'
    BY <1>2, <1>9, <2>1
  <2> QED BY <1>5, <1>6, <1>10, <2>2, <2>3, <2>5, <2>6 DEF FdcInv, PhaseInv
<1> QED BY <1>8, <1>9

LEMMA DmaFacts ==
  ASSUME FdcInv, dma, ~awaiting
  PROVE /\ PhaseOf = "execution" /\ ~reset /\ incommand /\ ~fdccallback
        /\ command \in {"READ_DATA", "WRITE_DATA"} /\ Transferring /\ Working
  BY DEF FdcInv, PhaseInv, PhaseOf, Working, Transferring, Answering

LEMMA DmaReadInv == ASSUME FdcInv, NEW tc \in BOOLEAN, fdc_dma_read(tc) PROVE FdcInv'
<1>1. TypeOK'
  <2>1. FlagsOK'
    BY DEF FdcInv, fdc_dma_read, regs, task, phase, TypeOK, FlagsOK
  <2>2. ControlOK'
    BY DEF FdcInv, fdc_dma_read, regs, task, phase, TypeOK, ControlOK
  <2>3. ParametersOK'
    BY DEF FdcInv, fdc_dma_read, regs, task, phase, TypeOK, ParametersOK
  <2>4. PlaceOK' /\ DataOK'
    BY SizeAssumption, DiscAssumption DEF FdcInv, fdc_dma_read, regs, task, phase, TypeOK, PlaceOK, DataOK
  <2> QED BY <2>1, <2>2, <2>3, <2>4 DEF TypeOK
<1>2. /\ PhaseOf = "execution" /\ ~reset /\ incommand /\ ~fdccallback /\ Transferring /\ Working
      /\ command = "READ_DATA"
  BY DmaFacts DEF fdc_dma_read
<1>3. PhaseOf' = "execution"
  BY <1>2 DEF fdc_dma_read, regs, phase, PhaseOf
<1>4. commandpos' = Size \/ commandpos' = commandpos
  BY DEF fdc_dma_read
<1>5. Transferring'
  BY <1>2, <1>4, SizeAssumption DEF fdc_dma_read, Transferring, Last, task
<1>6. Working'
  BY <1>2, <1>5 DEF fdc_dma_read, Working, regs, phase, task
<1>7. ~reset' /\ ~awaiting' /\ incommand' /\ curparam' = params' /\ "RQM" \notin status'
  BY <1>2 DEF FdcInv, PhaseInv, fdc_dma_read, regs, phase
<1> QED BY <1>1, <1>3, <1>6, <1>7 DEF FdcInv, PhaseInv, CommandInv, NeverFatal, fdc_dma_read, phase, task

LEMMA DmaWriteInv == ASSUME FdcInv, NEW v \in Values, NEW tc \in BOOLEAN, fdc_dma_write(v, tc) PROVE FdcInv'
<1>1. TypeOK'
  <2>1. FlagsOK'
    BY DEF FdcInv, fdc_dma_write, regs, task, phase, TypeOK, FlagsOK
  <2>2. ControlOK'
    BY DEF FdcInv, fdc_dma_write, regs, task, phase, TypeOK, ControlOK
  <2>3. ParametersOK'
    BY DEF FdcInv, fdc_dma_write, regs, task, phase, TypeOK, ParametersOK
  <2>4. PlaceOK' /\ DataOK'
    BY DmaFacts, SizeAssumption, DiscAssumption DEF FdcInv, fdc_dma_write, task, TypeOK, PlaceOK, DataOK, Transferring
  <2> QED BY <2>1, <2>2, <2>3, <2>4 DEF TypeOK
<1>2. /\ PhaseOf = "execution" /\ ~reset /\ incommand /\ ~fdccallback /\ Transferring /\ Working
      /\ command = "WRITE_DATA" /\ dma
  BY DmaFacts DEF fdc_dma_write
<1>3. PhaseOf' = "execution"
  BY <1>2 DEF fdc_dma_write, regs, phase, PhaseOf
<1>4. commandpos \in 1 .. Size /\ sector <= Last
  BY <1>2, SizeAssumption DEF Transferring
<1>5. (commandpos' = Tc /\ oldpos' = commandpos) \/ commandpos' = commandpos
  BY DEF fdc_dma_write
<1>6. Transferring'
  BY <1>2, <1>4, <1>5, SizeAssumption DEF fdc_dma_write, Transferring, Last, task
<1>7. Working'
  BY <1>2, <1>6 DEF fdc_dma_write, Working, regs, phase, task
<1>8. ~reset' /\ ~awaiting' /\ incommand' /\ curparam' = params' /\ "RQM" \notin status'
  BY <1>2 DEF FdcInv, PhaseInv, fdc_dma_write, regs, phase
<1> QED BY <1>1, <1>3, <1>7, <1>8 DEF FdcInv, PhaseInv, CommandInv, NeverFatal, fdc_dma_write, phase, task

LEMMA CallFacts ==
  ASSUME FdcInv, fdccallback, ~reset
  PROVE /\ incommand /\ ~dma
        /\ \/ PhaseOf = "execution" /\ Working
           \/ PhaseOf = "results" /\ Answering /\ SentOf \in 1 .. Answers(command) - 1
<1>1. PhaseOf \in {"execution", "results"}
  BY DEF FdcInv, PhaseInv, PhaseOf
<1>2. CASE PhaseOf = "execution"
  BY <1>2 DEF FdcInv, PhaseInv, Working, Transferring
<1>3. CASE PhaseOf = "results"
  <2>1. Answering
    BY <1>3 DEF FdcInv, PhaseInv
  <2>2. Answers(command) \in Int
    BY DEF FdcInv, TypeOK, ControlOK, Answers
  <2> QED BY <1>3, <2>1, <2>2 DEF Answering
<1> QED BY <1>1, <1>2, <1>3

LEMMA OverInv ==
  ASSUME FdcInv, TypeOK', ~reset', ~dma', ~fdccallback', ~fault', CommandOver, "DIO" \notin status'
  PROVE FdcInv'
<1>1. PhaseOf' \in {"idle", "silent"}
  BY DEF PhaseOf, CommandOver
<1> QED BY <1>1 DEF FdcInv, PhaseInv, CommandInv, CommandOver, NeverFatal

LEMMA ResetInv == ASSUME FdcInv, ResetDone PROVE FdcInv'
<1>1. TypeOK'
  <2>1. FlagsOK'
    BY DEF FdcInv, ResetDone, ReadyInterrupting, CommandOver, place, TypeOK, FlagsOK
  <2>2. ControlOK'
    BY DEF FdcInv, ResetDone, ReadyInterrupting, CommandOver, place, TypeOK, ControlOK
  <2>3. ParametersOK'
    BY DEF FdcInv, ResetDone, ReadyInterrupting, CommandOver, place, TypeOK, ParametersOK
  <2>4. PlaceOK' /\ DataOK'
    BY SizeAssumption, DiscAssumption DEF FdcInv, ResetDone, ReadyInterrupting, CommandOver, place, TypeOK, PlaceOK, DataOK
  <2> QED BY <2>1, <2>2, <2>3, <2>4 DEF TypeOK
<1>2. ~dma
  BY DEF FdcInv, PhaseInv, PhaseOf, ResetDone
<1> QED BY <1>1, <1>2, OverInv DEF ResetDone, ReadyInterrupting, FdcInv, NeverFatal

LEMMA SetupInv == ASSUME FdcInv, NEW c \in {"SPECIFY", "CONFIGURE"}, Setup(c) PROVE FdcInv'
<1>1. TypeOK'
  <2>1. FlagsOK'
    BY DEF FdcInv, Setup, Calling, Called, CommandOver, place, TypeOK, FlagsOK
  <2>2. ControlOK'
    BY DEF FdcInv, Setup, Calling, Called, CommandOver, place, TypeOK, ControlOK
  <2>3. ParametersOK'
    BY DEF FdcInv, Setup, Calling, Called, CommandOver, place, TypeOK, ParametersOK
  <2>4. PlaceOK' /\ DataOK'
    BY SizeAssumption, DiscAssumption DEF FdcInv, Setup, Calling, Called, CommandOver, place, TypeOK, PlaceOK, DataOK
  <2> QED BY <2>1, <2>2, <2>3, <2>4 DEF TypeOK
<1>2. ~dma
  BY CallFacts DEF Setup, Calling, Called
<1> QED BY <1>1, <1>2, OverInv DEF Setup, Calling, Called, FdcInv, NeverFatal

LEMMA MovementInv == ASSUME FdcInv, NEW c \in Commands, NEW t \in Tracks, Movement(c, t) PROVE FdcInv'
<1>1. TypeOK'
  <2>1. FlagsOK'
    BY DEF FdcInv, Movement, ReadyInterrupting, Calling, Called, CommandOver, place, TypeOK, FlagsOK
  <2>2. ControlOK'
    BY DEF FdcInv, Movement, ReadyInterrupting, Calling, Called, CommandOver, place, TypeOK, ControlOK
  <2>3. ParametersOK'
    BY DEF FdcInv, Movement, ReadyInterrupting, Calling, Called, CommandOver, place, TypeOK, ParametersOK
  <2>4. PlaceOK' /\ DataOK'
    BY SizeAssumption, DiscAssumption DEF FdcInv, Movement, ReadyInterrupting, Calling, Called, CommandOver, place, TypeOK, PlaceOK, DataOK
  <2> QED BY <2>1, <2>2, <2>3, <2>4 DEF TypeOK
<1>2. ~dma
  BY CallFacts DEF Movement, Calling, Called
<1> QED BY <1>1, <1>2, OverInv DEF Movement, ReadyInterrupting, Calling, Called, FdcInv, NeverFatal

LEMMA ReadIdFmInv == ASSUME FdcInv, ReadIdFm PROVE FdcInv'
<1>1. TypeOK'
  <2>1. FlagsOK'
    BY DEF FdcInv, ReadIdFm, Calling, Called, CommandOver, place, TypeOK, FlagsOK
  <2>2. ControlOK'
    BY DEF FdcInv, ReadIdFm, Calling, Called, CommandOver, place, TypeOK, ControlOK
  <2>3. ParametersOK'
    BY DEF FdcInv, ReadIdFm, Calling, Called, CommandOver, place, TypeOK, ParametersOK
  <2>4. PlaceOK' /\ DataOK'
    BY SizeAssumption, DiscAssumption DEF FdcInv, ReadIdFm, Calling, Called, CommandOver, place, TypeOK, PlaceOK, DataOK, ParametersOK, ParameterBytes
  <2> QED BY <2>1, <2>2, <2>3, <2>4 DEF TypeOK
<1>2. ~dma /\ "DIO" \notin status
  <2>1. Answers("READ_ID_FM") = 0
    BY DEF Answers
  <2> QED BY <2>1, CallFacts DEF ReadIdFm, Calling, Called, PhaseOf
<1> QED BY <1>1, <1>2, OverInv DEF ReadIdFm, Calling, Called, FdcInv, NeverFatal

LEMMA DriveStatusInv == ASSUME FdcInv, SenseDriveStatus PROVE FdcInv'
<1>1. TypeOK'
  <2>1. FlagsOK'
    BY DEF FdcInv, SenseDriveStatus, fdcsend, Calling, Called, CommandOver, place, TypeOK, FlagsOK
  <2>2. ControlOK'
    BY DEF FdcInv, SenseDriveStatus, fdcsend, Calling, Called, CommandOver, place, TypeOK, ControlOK
  <2>3. ParametersOK'
    BY DEF FdcInv, SenseDriveStatus, fdcsend, Calling, Called, CommandOver, place, TypeOK, ParametersOK
  <2>4. PlaceOK' /\ DataOK'
    BY SizeAssumption, DiscAssumption DEF FdcInv, SenseDriveStatus, fdcsend, Calling, Called, CommandOver, place, TypeOK, PlaceOK, DataOK
  <2> QED BY <2>1, <2>2, <2>3, <2>4 DEF TypeOK
<1>2. ~dma /\ PhaseOf' = "results"
  BY CallFacts DEF SenseDriveStatus, fdcsend, Calling, Called, PhaseOf
<1>3. SentOf' = 1 /\ Answers(command') = 1
  BY <1>2 DEF SenseDriveStatus, Calling, Called, SentOf, Answers
<1>4. Answering'
  BY <1>2, <1>3 DEF Answering, SenseDriveStatus, fdcsend, Calling, Called, CommandOver, Answers
<1>5. ~reset'
  BY DEF SenseDriveStatus, Calling, Called
<1> QED BY <1>1, <1>2, <1>4, <1>5 DEF FdcInv, PhaseInv, CommandInv, NeverFatal, SenseDriveStatus, CommandOver

LEMMA InterruptStatusInv == ASSUME FdcInv, SenseInterruptStatus PROVE FdcInv'
<1>2. ~dma /\ incommand /\ commandpos \in 0 .. 1
  <2>1. Answers("SENSE_INTERRUPT_STATUS") = 2
    BY DEF Answers
  <2>2. CASE PhaseOf = "execution" /\ Working
    BY <2>2, CallFacts DEF Working, SenseInterruptStatus, Calling, Called
  <2>3. CASE PhaseOf = "results" /\ SentOf \in 1 .. 1
    BY <2>3, CallFacts, SizeAssumption DEF SentOf, SenseInterruptStatus, Calling, Called, FdcInv, TypeOK, PlaceOK
  <2> QED BY <2>1, <2>2, <2>3, CallFacts DEF SenseInterruptStatus, Calling, Called
<1>1. TypeOK'
  <2>1. FlagsOK'
    BY DEF FdcInv, SenseInterruptStatus, fdcsend, Calling, Called, TypeOK, FlagsOK
  <2>2. ControlOK'
    BY DEF FdcInv, SenseInterruptStatus, fdcsend, Calling, Called, TypeOK, ControlOK
  <2>3. ParametersOK'
    BY DEF FdcInv, SenseInterruptStatus, fdcsend, Calling, Called, TypeOK, ParametersOK
  <2>4. PlaceOK' /\ DataOK'
    BY <1>2, SizeAssumption, DiscAssumption DEF FdcInv, SenseInterruptStatus, fdcsend, Calling, Called, TypeOK, PlaceOK, DataOK
  <2> QED BY <2>1, <2>2, <2>3, <2>4 DEF TypeOK
<1>3. PhaseOf' = "results" /\ ~reset' /\ command' = "SENSE_INTERRUPT_STATUS"
  BY DEF SenseInterruptStatus, fdcsend, Calling, Called, PhaseOf
<1>4. SentOf' = commandpos + 1 /\ Answers(command') = 2 /\ Answers("SENSE_INTERRUPT_STATUS")' = 2
  BY <1>2, <1>3 DEF SenseInterruptStatus, SentOf, Answers
<1>5. Answering'
  <2>1. ~dma' /\ (incommand' <=> commandpos + 1 = 1) /\ (fdccallback' <=> commandpos + 1 = 1) /\ "RQM" \in status'
    BY <1>2 DEF SenseInterruptStatus, fdcsend
  <2> QED BY <1>2, <1>3, <1>4, <2>1 DEF Answering, Answers
<1>6. params' = 0 /\ curparam' = 0 /\ ParametersOf("SENSE_INTERRUPT_STATUS") = 0
  BY <1>2 DEF FdcInv, CommandInv, SenseInterruptStatus, Calling, Called, ParametersOf
<1>7. CommandInv'
  BY <1>3, <1>6 DEF CommandInv, ParametersOf
<1> QED BY <1>1, <1>3, <1>5, <1>7 DEF FdcInv, PhaseInv, NeverFatal, SenseInterruptStatus

LEMMA SeqFacts ==
  ASSUME NEW names \in {Seven, Zeroing}
  PROVE Len(names) = 7 /\ \A k \in 1 .. 7 : names[k] \in Results
<1>1. CASE names = Seven
  BY <1>1 DEF Seven
<1>2. CASE names = Zeroing
  BY <1>2 DEF Zeroing
<1> QED BY <1>1, <1>2

LEMMA SentInv ==
  ASSUME FdcInv, Called, ~reset, NEW names \in {Seven, Zeroing}, NEW k \in 1 .. 7, SendResult(k, names),
         command \in {"READ_DATA", "WRITE_DATA", "VERIFY_DATA", "READ_ID", "FORMAT_TRACK"},
         commandpos = k - 1 + (IF command = "READ_DATA" THEN Size
                               ELSE IF command = "WRITE_DATA" THEN Size + 1 ELSE 0),
         sector' \in 0 .. LastSector + 1, UNCHANGED <<track, oldpos, st0, dmadat, disc, dma, fault>>
  PROVE FdcInv'
<1>1. incommand /\ ~dma
  BY CallFacts DEF Called
<1>2. data' = names[k] /\ status' = {"RQM", "DIO", "CB"} /\ (irq' = irq \/ irq' = TRUE)
  BY DEF SendResult, fdcsend, fdcsend2
<1>3. /\ commandpos' = commandpos + 1 /\ ~fdccallback' /\ fdccallback' \in BOOLEAN
      /\ IF k = 7 THEN CommandOver ELSE UNCHANGED phase
  BY SeqFacts DEF SendResult
<1>4. TypeOK'
  <2>1. FlagsOK'
    BY <1>2, <1>3 DEF FdcInv, TypeOK, FlagsOK, Called, CommandOver, phase
  <2>2. ControlOK'
    BY <1>2, <1>3, SeqFacts DEF FdcInv, TypeOK, ControlOK, Called, CommandOver, phase
  <2>3. ParametersOK'
    BY DEF FdcInv, TypeOK, ParametersOK, Called
  <2>4. commandpos' \in 0 .. Size + 8
    BY <1>3, SizeAssumption
  <2>5. PlaceOK' /\ DataOK'
    BY <2>4 DEF FdcInv, TypeOK, PlaceOK, DataOK
  <2> QED BY <2>1, <2>2, <2>3, <2>5 DEF TypeOK
<1>5. PhaseOf' = "results"
  BY <1>2 DEF PhaseOf, Called
<1>6. SentOf' = k /\ Answers(command') = 7
  <2>1. command' = command /\ Size \in Int
    BY SizeAssumption DEF Called
  <2>2. Answers(command') = 7
    BY <2>1 DEF Answers
  <2>3. CASE command = "READ_DATA"
    BY <1>3, <1>5, <2>1, <2>2, <2>3 DEF SentOf
  <2>4. CASE command = "WRITE_DATA"
    BY <1>3, <1>5, <2>1, <2>2, <2>4 DEF SentOf
  <2>5. CASE command \notin {"READ_DATA", "WRITE_DATA"}
    BY <1>3, <1>5, <2>1, <2>2, <2>5 DEF SentOf
  <2> QED BY <2>3, <2>4, <2>5
<1>7. Answering'
  <2>1. incommand' <=> k < 7
    <3>1. CASE k = 7
      BY <1>3, <3>1 DEF CommandOver
    <3>2. CASE k # 7
      BY <1>1, <1>3, <3>2 DEF phase
    <3> QED BY <3>1, <3>2
  <2> QED BY <1>1, <1>2, <1>3, <1>6, <2>1 DEF Answering, Called, Answers
<1>8. CommandInv' /\ NeverFatal'
  <2>1. CASE k = 7
    BY <1>3, <2>1 DEF FdcInv, CommandInv, CommandOver, NeverFatal
  <2>2. CASE k # 7
    BY <1>3, <2>2 DEF FdcInv, CommandInv, phase, NeverFatal, Called
  <2> QED BY <2>1, <2>2
<1>9. ~reset'
  BY DEF Called
<1> QED BY <1>4, <1>5, <1>7, <1>8, <1>9 DEF FdcInv, PhaseInv

LEMMA ResultsPlace ==
  ASSUME FdcInv, Called, ~reset, command \in {"VERIFY_DATA", "READ_ID", "FORMAT_TRACK"}
  PROVE commandpos \in 0 .. 6
<1>1. Answers(command) = 7
  BY DEF Answers
<1>2. CASE PhaseOf = "execution" /\ Working
  BY <1>2 DEF Working
<1>3. CASE PhaseOf = "results" /\ SentOf \in 1 .. 6
  BY <1>3, SizeAssumption DEF SentOf, FdcInv, TypeOK, PlaceOK
<1> QED BY <1>1, <1>2, <1>3, CallFacts DEF Called

LEMMA ResultsOnlyInv ==
  ASSUME FdcInv, NEW names \in {Seven, Zeroing}, NEW c \in {"VERIFY_DATA", "READ_ID", "FORMAT_TRACK"},
         ResultsOnly(c, names), sector' \in 0 .. LastSector + 1
  PROVE FdcInv'
<1>1. Called /\ ~reset /\ command = c
  BY DEF ResultsOnly, Calling
<1>2. commandpos \in 0 .. 6
  BY <1>1, ResultsPlace
<1>3. SendResult(commandpos + 1, names) /\ UNCHANGED <<track, oldpos, st0, dmadat, disc, dma, fault>>
  <2>1. Len(names) = 7
    BY SeqFacts
  <2>2. commandpos < 7
    BY <1>2
  <2>3. commandpos < Len(names)
    BY <2>1, <2>2, Zenon
  <2> QED BY <2>3 DEF ResultsOnly
<1> QED BY <1>1, <1>2, <1>3, SentInv

LEMMA ReadIdInv == ASSUME FdcInv, ReadId PROVE FdcInv'
<1>1. sector' \in 0 .. LastSector + 1
  BY SizeAssumption DEF ReadId, Wrapped, FdcInv, TypeOK, PlaceOK
<1> QED BY <1>1, ResultsOnlyInv DEF ReadId

LEMMA VerifyInv == ASSUME FdcInv, VerifyData PROVE FdcInv'
<1>1. parameters[5] \in Sectors /\ parameters[7] = 0
  BY DEF FdcInv, TypeOK, ParametersOK, ParameterBytes
<1>2. sector' \in 0 .. LastSector + 1
  BY <1>1, SizeAssumption DEF VerifyData
<1> QED BY <1>2, ResultsOnlyInv DEF VerifyData

LEMMA FormatInv == ASSUME FdcInv, FormatTrack PROVE FdcInv'
<1>1. sector' \in 0 .. LastSector + 1
  BY DEF FormatTrack, FdcInv, TypeOK, PlaceOK
<1> QED BY <1>1, ResultsOnlyInv DEF FormatTrack

LEMMA TransferPlace ==
  ASSUME FdcInv, Called, ~reset, command \in {"READ_DATA", "WRITE_DATA"}
  PROVE /\ incommand /\ ~dma
        /\ command = "READ_DATA" => commandpos \in 0 .. Size + 6
        /\ command = "WRITE_DATA" => commandpos \in 0 .. Size + 7 \cup {Tc}
        /\ command = "READ_DATA" /\ commandpos < Size => PhaseOf = "execution" /\ Working /\ Transferring
        /\ command = "WRITE_DATA" /\ (commandpos <= Size \/ commandpos = Tc) => PhaseOf = "execution" /\ Working /\ Transferring
<1>1. Answers(command) = 7 /\ Size \in 1 .. 1024
  BY SizeAssumption DEF Answers
<1>2. CASE PhaseOf = "execution" /\ Working
  BY <1>1, <1>2, CallFacts DEF Working, Transferring, Called
<1>3. CASE PhaseOf = "results" /\ SentOf \in 1 .. 6
  <2>1. CASE command = "READ_DATA"
    BY <1>1, <1>3, <2>1, CallFacts DEF SentOf, FdcInv, TypeOK, PlaceOK, Called
  <2>2. CASE command = "WRITE_DATA"
    BY <1>1, <1>3, <2>2, CallFacts DEF SentOf, FdcInv, TypeOK, PlaceOK, Called
  <2> QED BY <2>1, <2>2
<1> QED BY <1>1, <1>2, <1>3, CallFacts DEF Called

LEMMA ReadResultInv ==
  ASSUME FdcInv, TransferResult("READ_DATA", commandpos + 1 - Size) PROVE FdcInv'
<1>1. Called /\ ~reset /\ command = "READ_DATA" /\ Size \in 1 .. 1024
  BY SizeAssumption DEF TransferResult, Calling
<1>2. commandpos \in Size .. Size + 6
  BY <1>1, TransferPlace DEF TransferResult
<1>3. /\ SendResult(commandpos + 1 - Size, Seven)
      /\ UNCHANGED <<track, sector, oldpos, st0, dmadat, disc, dma, fault>>
  BY <1>1, <1>2 DEF TransferResult
<1>4. sector' \in 0 .. LastSector + 1
  BY <1>3 DEF FdcInv, TypeOK, PlaceOK
<1> QED BY <1>1, <1>2, <1>3, <1>4, SentInv

LEMMA WriteResultInv ==
  ASSUME FdcInv, commandpos # Tc, TransferResult("WRITE_DATA", commandpos - Size) PROVE FdcInv'
<1>1. Called /\ ~reset /\ command = "WRITE_DATA" /\ Size \in 1 .. 1024
  BY SizeAssumption DEF TransferResult, Calling
<1>2. commandpos \in Size + 1 .. Size + 7
  BY <1>1, TransferPlace DEF TransferResult
<1>3. /\ SendResult(commandpos - Size, Seven)
      /\ UNCHANGED <<track, sector, oldpos, st0, dmadat, disc, dma, fault>>
  BY <1>1, <1>2 DEF TransferResult
<1>4. sector' \in 0 .. LastSector + 1
  BY <1>3 DEF FdcInv, TypeOK, PlaceOK
<1> QED BY <1>1, <1>2, <1>3, <1>4, SentInv

\* Storing a byte at a place of the disc leaves a disc.
LEMMA StoredDisc ==
  ASSUME NEW d \in Disc, NEW i \in 0 .. 1, NEW t \in Tracks, NEW s \in Sectors, NEW n \in 0 .. Size - 1, NEW v \in Values
  PROVE Stored(d, i, t, s, n, v) \in Disc /\ d[i][t][s][n] \in Values
<1> DEFINE Bytes == [0 .. Size - 1 -> Values]
           Track == [Sectors -> Bytes]
           Side  == [Tracks -> Track]
           byte  == [d[i][t][s] EXCEPT ![n] = v]
           sec   == [d[i][t] EXCEPT ![s] = byte]
           trk   == [d[i] EXCEPT ![t] = sec]
<1>1. d \in [0 .. 1 -> Side] /\ d[i] \in Side
  BY DEF Disc
<1>2. d[i][t] \in Track
  BY <1>1
<1>3. d[i][t][s] \in Bytes
  BY <1>2
<1>4. byte \in Bytes /\ d[i][t][s][n] \in Values
  BY <1>3
<1>5. sec \in Track
  <2> HIDE DEF byte, Bytes
  <2> QED BY <1>2, <1>4
<1>6. trk \in Side
  <2> HIDE DEF sec, Track
  <2> QED BY <1>1, <1>5
<1>7. [d EXCEPT ![i] = trk] \in [0 .. 1 -> Side]
  <2> HIDE DEF trk, Side
  <2> QED BY <1>1, <1>6
<1>8. Stored(d, i, t, s, n, v) = [d EXCEPT ![i] = trk]
  BY DEF Stored
<1> QED BY <1>4, <1>7, <1>8 DEF Disc

LEMMA LastRange ==
  ASSUME FdcInv
  PROVE /\ parameters[3] \in Sectors /\ parameters[5] \in Sectors /\ Last \in Sectors /\ Last >= parameters[3]
        /\ Size \in 1 .. 1024 /\ LastSector \in Nat
        /\ sector \in 0 .. LastSector + 1 /\ track \in Tracks /\ st0 \in 0 .. 1
  BY SizeAssumption, DiscAssumption DEF Last, FdcInv, TypeOK, PlaceOK, ParametersOK, ParameterBytes

LEMMA ByteFrame ==
  ASSUME FdcInv, Called, ~reset, UNCHANGED <<regs, track, phase, st0, fault>>,
         fdccallback' \in BOOLEAN, dma' \in BOOLEAN, DataOK',
         PhaseOf = "execution", command \in {"READ_DATA", "WRITE_DATA"}, Working,
         commandpos' \in 0 .. Size + 1, oldpos' = oldpos, sector' \in 0 .. LastSector + 1, Transferring'
  PROVE FdcInv'
<1>1. FlagsOK'
  BY DEF FdcInv, TypeOK, FlagsOK, Called, phase, regs
<1>2. ControlOK'
  BY DEF FdcInv, TypeOK, ControlOK, Called, phase, regs
<1>3. ParametersOK'
  BY DEF FdcInv, TypeOK, ParametersOK, Called
<1>4. commandpos' \in 0 .. Size + 8
  BY SizeAssumption
<1>5. PlaceOK'
  BY <1>4 DEF FdcInv, TypeOK, PlaceOK, Called
<1>6. PhaseOf' = "execution"
  BY DEF PhaseOf, Called, regs, phase
<1>7. Working'
  BY DEF Working, Called, regs, phase
<1>8. ~reset' /\ incommand' /\ curparam' = params' /\ "RQM" \notin status'
  BY DEF FdcInv, PhaseInv, Called, regs, phase
<1> QED BY <1>1, <1>2, <1>3, <1>5, <1>6, <1>7, <1>8
        DEF FdcInv, TypeOK, PhaseInv, CommandInv, NeverFatal, Called, phase

LEMMA ReadByteInv == ASSUME FdcInv, ReadByte PROVE FdcInv'
<1>1. Called /\ ~reset /\ command = "READ_DATA" /\ commandpos \in 0 .. Size - 1
  BY SizeAssumption DEF ReadByte, Calling, FdcInv, TypeOK, PlaceOK
<1>2. PhaseOf = "execution" /\ Working /\ Transferring
  BY <1>1, TransferPlace, SizeAssumption
<1>3. sector \in Sectors /\ parameters[3] <= sector /\ sector <= Last
  BY <1>1, <1>2, LastRange DEF Transferring
<1>4. DataOK'
  <2>1. disc[st0][track][sector][commandpos] \in Values
    BY <1>1, <1>3, LastRange, StoredDisc DEF FdcInv, TypeOK, DataOK
  <2> QED BY <2>1 DEF FdcInv, TypeOK, DataOK, ReadByte
<1>5. /\ sector' = IF commandpos + 1 = Size THEN sector + 1 ELSE sector
      /\ commandpos' = IF commandpos + 1 = Size /\ sector' <= parameters[5] THEN 0 ELSE commandpos + 1
  BY DEF ReadByte, NextByte
<1>6. Transferring'
  BY <1>1, <1>2, <1>3, <1>5, LastRange DEF Transferring, Last, ReadByte, Called
<1>7. commandpos' \in 0 .. Size + 1 /\ sector' \in 0 .. LastSector + 1
  BY <1>1, <1>3, <1>5, LastRange
<1> QED BY <1>1, <1>2, <1>4, <1>6, <1>7, ByteFrame DEF ReadByte, FdcInv, NeverFatal

LEMMA WriteByteInv == ASSUME FdcInv, WriteByte PROVE FdcInv'
<1>1. Called /\ ~reset /\ command = "WRITE_DATA" /\ commandpos \in 0 .. Size
  BY SizeAssumption DEF WriteByte, Calling, FdcInv, TypeOK, PlaceOK
<1>2. PhaseOf = "execution" /\ Working /\ Transferring
  BY <1>1, TransferPlace, SizeAssumption
<1>3. sector \in Sectors /\ parameters[3] <= sector /\ sector <= Last
  BY <1>1, <1>2, LastRange, SMTT(20) DEF Transferring
<1>4. DataOK'
  <2>1. CASE commandpos = 0
    BY <2>1 DEF FdcInv, TypeOK, DataOK, WriteByte
  <2>2. CASE commandpos # 0
    <3>1. commandpos - 1 \in 0 .. Size - 1
      BY <1>1, <2>2, LastRange
    <3>2. Stored(disc, st0, track, sector, commandpos - 1, dmadat) \in Disc
      BY <1>3, <3>1, LastRange, StoredDisc DEF FdcInv, TypeOK, DataOK
    <3> QED BY <2>2, <3>2 DEF FdcInv, TypeOK, DataOK, WriteByte
  <2> QED BY <2>1, <2>2
<1>5. /\ sector' = IF commandpos + 1 = Size + 1 THEN sector + 1 ELSE sector
      /\ commandpos' = IF commandpos + 1 = Size + 1 /\ sector' <= parameters[5] THEN 0 ELSE commandpos + 1
      /\ dma' = (commandpos # Size) /\ fdccallback' = (commandpos = Size)
  BY DEF WriteByte, NextByte
<1>6. /\ track' = track /\ parameters' = parameters /\ command' = command /\ oldpos' = oldpos
      /\ Last' = Last
  BY <1>1 DEF WriteByte, Called, Last
<1>7. Transferring'
  <2>1. track' = parameters'[1] /\ sector' >= parameters'[3]
    BY <1>2, <1>3, <1>5, <1>6, LastRange DEF Transferring
  <2>2. CASE commandpos < Size
    <3>1. sector' = sector /\ commandpos' = commandpos + 1 /\ commandpos # Size
      BY <1>1, <1>5, <2>2, LastRange
    <3>2. dma' /\ ~fdccallback'
      BY <1>5, <3>1
    <3> QED BY <1>1, <1>3, <1>6, <2>1, <2>2, <3>1, <3>2, LastRange, SMTT(20) DEF Transferring
  <2>3. CASE commandpos = Size
    <3>1. sector' = sector + 1 /\ commandpos' \in {0, Size + 1} /\ ~dma' /\ fdccallback'
      BY <1>1, <1>5, <2>3, LastRange
    <3>2. commandpos' = 0 => sector' <= Last
      BY <1>1, <1>5, <2>3, <3>1, LastRange DEF Last
    <3> QED BY <1>1, <1>6, <2>1, <2>3, <3>1, <3>2, LastRange DEF Transferring
  <2> QED BY <1>1, <2>2, <2>3, LastRange
<1>8. commandpos' \in 0 .. Size + 1 /\ sector' \in 0 .. LastSector + 1
  BY <1>1, <1>3, <1>5, LastRange
<1> QED BY <1>1, <1>2, <1>4, <1>5, <1>7, <1>8, ByteFrame DEF WriteByte, FdcInv, NeverFatal

LEMMA WriteLastInv == ASSUME FdcInv, WriteLast PROVE FdcInv'
<1>1. Called /\ ~reset /\ command = "WRITE_DATA" /\ commandpos = Tc
  BY DEF WriteLast, Calling
<1>2. PhaseOf = "execution" /\ Working /\ Transferring /\ ~dma
  BY <1>1, TransferPlace, SizeAssumption
<1>3. sector \in Sectors /\ parameters[3] <= sector /\ sector <= Last /\ oldpos \in 1 .. Size
  BY <1>1, <1>2, LastRange DEF Transferring
<1>4. DataOK'
  <2>1. oldpos - 1 \in 0 .. Size - 1
    BY <1>3, LastRange
  <2>2. Stored(disc, st0, track, sector, oldpos - 1, dmadat) \in Disc
    BY <1>3, <2>1, LastRange, StoredDisc DEF FdcInv, TypeOK, DataOK
  <2> QED BY <2>2 DEF FdcInv, TypeOK, DataOK, WriteLast
<1>5. sector' = sector + 1 /\ commandpos' = Size + 1 /\ fdccallback' /\ ~dma' /\ fdccallback' \in BOOLEAN /\ dma' \in BOOLEAN
  BY <1>2 DEF WriteLast, FdcInv, TypeOK, FlagsOK
<1>6. Transferring'
  BY <1>1, <1>2, <1>3, <1>5, LastRange DEF Transferring, Last, WriteLast, Called
<1>7. commandpos' \in 0 .. Size + 1 /\ sector' \in 0 .. LastSector + 1
  BY <1>3, <1>5, LastRange
<1> QED BY <1>1, <1>2, <1>4, <1>5, <1>6, <1>7, ByteFrame DEF WriteLast, FdcInv, NeverFatal

LEMMA CallbackInv == ASSUME FdcInv, fdc_callback PROVE FdcInv'
<1>1. 0 \in Tracks /\ parameters[1] \in Tracks
  BY DiscAssumption DEF FdcInv, TypeOK, ParametersOK, ParameterBytes
<1>2. CASE Movement("RECALIBRATE", 0) \/ Movement("SEEK", parameters[1])
  BY <1>1, <1>2, MovementInv
<1> QED BY <1>2, ResetInv, SetupInv, DriveStatusInv, InterruptStatusInv, ReadIdInv, ReadIdFmInv, VerifyInv,
           FormatInv, ReadResultInv, WriteResultInv, ReadByteInv, WriteByteInv, WriteLastInv DEF fdc_callback

LEMMA StutterInv == ASSUME FdcInv, UNCHANGED vars PROVE FdcInv'
<1>1. UNCHANGED <<reset, status, data, irq, incommand, params, curparam, command, parameters, track,
                  commandpos, sector, oldpos, st0, dmadat, rate, fdccallback, disc, dma, awaiting, fault>>
  BY DEF vars, regs, phase, task, place
<1>2. TypeOK'
  BY <1>1 DEF FdcInv, TypeOK, FlagsOK, ControlOK, ParametersOK, PlaceOK, DataOK
<1>3. PhaseOf' = PhaseOf
  BY <1>1 DEF PhaseOf
<1>4. SentOf' = SentOf
  BY <1>1, <1>3 DEF SentOf
<1>5. (Working' <=> Working) /\ (Answering' <=> Answering)
  BY <1>1, <1>4 DEF Working, Answering, Transferring, Last
<1> QED BY <1>1, <1>2, <1>3, <1>5 DEF FdcInv, PhaseInv, CommandInv, NeverFatal

LEMMA StepInv == FdcInv /\ [Next]_vars => FdcInv'
<1> SUFFICES ASSUME FdcInv, [Next]_vars PROVE FdcInv'
  OBVIOUS
<1>1. CASE NextParameter
  BY <1>1, ParameterInv DEF NextParameter
<1>2. CASE AnswerDma
  BY <1>2, DmaReadInv, DmaWriteInv DEF AnswerDma
<1>3. CASE UNCHANGED vars
  BY <1>3, StutterInv
<1> QED BY <1>1, <1>2, <1>3, DorInv, StatusInv, RateInv, CommandStep, ReadInv, CallbackInv DEF Next

\* The place of a transfer, the phases and the command agree, whatever the
\* geometry of the disc and however the guest and the countdown interleave.
THEOREM ControllerInvariant == Spec => []FdcInv
<1>1. Init => FdcInv
  BY InitInv
<1>2. FdcInv /\ [Next]_vars => FdcInv'
  BY StepInv
<1> QED BY <1>1, <1>2, PTL DEF Spec

\* fdc.c keeps its transfers inside the disc and its positions in range.
THEOREM TypesHold == Spec => []TypeOK
<1>1. FdcInv => TypeOK
  BY DEF FdcInv
<1> QED BY <1>1, ControllerInvariant, PTL

\* A guest that heeds the status register and answers its requests never brings
\* fdc_callback to a position that has no case, nor a command byte into a
\* command, also while a reset is armed that it does not wait for.
THEOREM NeverFatalHolds == Spec => []NeverFatal
<1>1. FdcInv => NeverFatal
  BY DEF FdcInv
<1> QED BY <1>1, ControllerInvariant, PTL

-----------------------------------------------------------------------------
\* The refinement

USE DEF Controller!Sectors, Controller!Transfers

\* Outside of an execution, and while a reset is armed, no byte is moved.
LEMMA AtRest ==
  reset \/ PhaseOf # "execution" => FullOf = FALSE /\ OverOf = FALSE /\ MovedOf = 0
  BY DEF FullOf, OverOf, MovedOf, Executes

LEMMA RestNext ==
  reset' \/ PhaseOf' # "execution" => FullOf' = FALSE /\ OverOf' = FALSE /\ MovedOf' = 0
  BY DEF FullOf, OverOf, MovedOf, Executes

LEMMA InitMaps == Init => Controller!Init
<1> SUFFICES ASSUME Init PROVE Controller!Init
  OBVIOUS
<1>1. PhaseOf = "silent"
  BY DEF Init, PhaseOf
<1>2. LeftOf = 0 /\ OfferOf = FALSE /\ SentOf = 0
  BY <1>1 DEF LeftOf, OfferOf, SentOf
<1>3. FullOf = FALSE /\ OverOf = FALSE /\ MovedOf = 0
  BY <1>1, AtRest
<1> QED BY <1>1, <1>2, <1>3 DEF Init, Controller!Init

LEMMA DorMaps == ASSUME FdcInv, NEW pulse \in BOOLEAN, WriteDor(pulse) PROVE Controller!Reset
<1>1. FullOf' = FALSE /\ OverOf' = FALSE /\ MovedOf' = 0
  BY DEF WriteDor, FullOf, OverOf, MovedOf, Executes
<1>2. /\ ~dma /\ dma' = FALSE /\ reset' = TRUE /\ dmadat' = dmadat /\ data' = data
      /\ UNCHANGED <<command, parameters, disc>>
  BY DEF WriteDor, FdcInv, TypeOK, FlagsOK, task
<1>3. CASE pulse
  <2>1. PhaseOf' = "reset"
    BY <1>3 DEF WriteDor, PhaseOf
  <2>2. LeftOf' = 0 /\ OfferOf' = FALSE /\ SentOf' = 0
    BY <2>1 DEF LeftOf, OfferOf, SentOf
  <2> QED BY <1>1, <1>2, <2>1, <2>2 DEF Controller!Reset, Controller!NoTransfer, Controller!NoAnswer
<1>4. CASE ~pulse
  <2>1. PhaseOf # "reset" /\ PhaseOf' = PhaseOf /\ status' = status
    BY <1>4 DEF WriteDor, PhaseOf, phase
  <2>2. LeftOf' = LeftOf /\ OfferOf' = OfferOf /\ SentOf' = SentOf
    BY <2>1 DEF LeftOf, OfferOf, SentOf, WriteDor, phase, task, place
  <2> QED BY <1>1, <1>2, <2>1, <2>2 DEF Controller!Reset, Controller!NoTransfer, Controller!answer
<1> QED BY <1>3, <1>4

\* Interrupts and the rate are not seen.
LEMMA Unseen ==
  ASSUME PhaseOf' = PhaseOf,
         UNCHANGED <<reset, status, data, incommand, params, curparam, command, parameters, track,
                     commandpos, sector, oldpos, dmadat, disc, dma>>
  PROVE UNCHANGED Controller!vars
<1>2. SentOf' = SentOf /\ LeftOf' = LeftOf /\ OfferOf' = OfferOf
  BY DEF SentOf, LeftOf, OfferOf
<1>3. FullOf' = FullOf /\ OverOf' = OverOf
  BY DEF FullOf, OverOf, Executes
<1>4. MovedOf' = MovedOf
  BY <1>3 DEF MovedOf, Executes
<1> QED BY <1>2, <1>3, <1>4
        DEF Controller!vars, Controller!command, Controller!answer, Controller!transfer

LEMMA ReadyMaps == ASSUME FdcInv, ResetDone PROVE Controller!Ready
<1>1. reset /\ reset' = FALSE /\ PhaseOf' = "idle"
  BY DEF ResetDone, ReadyInterrupting, CommandOver, PhaseOf
<1>2. LeftOf' = 0 /\ OfferOf' = FALSE /\ SentOf' = 0
  BY <1>1 DEF LeftOf, OfferOf, SentOf
<1>3. FullOf' = FullOf /\ OverOf' = OverOf /\ MovedOf' = MovedOf
  BY <1>1, AtRest, RestNext
<1>4. UNCHANGED <<command, parameters, data, dma, dmadat, disc>>
  BY DEF ResetDone, ReadyInterrupting
<1> QED BY <1>1, <1>2, <1>3, <1>4 DEF Controller!Ready, Controller!NoAnswer, Controller!transfer

LEMMA BeginMaps == ASSUME FdcInv, FdcInv', NEW c \in Commands, WriteCommand(c) PROVE Controller!Begin(c)
<1>1. ~awaiting /\ ~incommand /\ PhaseOf = "idle" /\ curparam = 0
  <2>1. ~awaiting
    BY DEF WriteCommand, MayWrite
  <2>2. ~incommand
    BY <2>1 DEF FdcInv, WriteCommand, MayWrite, PhaseInv, PhaseOf, CommandInv
  <2> QED BY <2>1, <2>2 DEF PhaseOf, WriteCommand, MayWrite, FdcInv, CommandInv
<1>2. params' = ParametersOf(c) /\ ParametersOf(c) \in Nat /\ curparam' = 0 /\ command' = c
  <2>1. params' = ParametersOf(c) /\ command' = c /\ (curparam' = curparam \/ curparam' = 0)
    BY DEF WriteCommand
  <2>2. ParametersOf(c) \in 0 .. 8
    BY DEF ParametersOf
  <2> QED BY <1>1, <2>1, <2>2
<1>3. /\ PhaseOf' = IF c = "DUMPREG" THEN "idle" ELSE IF params' > 0 THEN "parameters" ELSE "execution"
      /\ LeftOf' = ParametersOf(c)
  <2>1. CASE c = "DUMPREG"
    BY <1>1, <1>2, <2>1, ParametersRange DEF WriteCommand, PhaseOf, LeftOf
  <2>2. CASE c = "SENSE_INTERRUPT_STATUS"
    BY <1>1, <1>2, <2>2, ParametersRange DEF WriteCommand, PhaseOf, LeftOf
  <2>3. CASE c \notin {"DUMPREG", "SENSE_INTERRUPT_STATUS"}
    BY <1>1, <1>2, <2>3, ParametersRange DEF WriteCommand, PhaseOf, LeftOf
  <2> QED BY <2>1, <2>2, <2>3
<1>4. OfferOf' = OfferOf /\ SentOf' = SentOf
  BY <1>1, <1>3 DEF OfferOf, SentOf
<1>5. FullOf' = FullOf /\ OverOf' = OverOf /\ MovedOf' = MovedOf
  <2>1. FullOf = FALSE /\ OverOf = FALSE /\ MovedOf = 0
    BY <1>1, AtRest
  <2>2. PhaseOf' = "execution" => command' = "SENSE_INTERRUPT_STATUS"
    BY <1>2, <1>3, ParametersRange
  <2>3. FullOf' = FALSE /\ OverOf' = FALSE /\ MovedOf' = 0
    BY <2>2 DEF FullOf, OverOf, MovedOf, Executes
  <2> QED BY <2>1, <2>3
<1>6. data' = IF c = "DUMPREG" THEN "st0" ELSE data
  BY DEF WriteCommand
<1>7. UNCHANGED <<reset, parameters, dma, dmadat, disc>>
  BY DEF WriteCommand
<1> QED BY <1>1, <1>2, <1>3, <1>4, <1>5, <1>6, <1>7 DEF Controller!Begin, Controller!transfer, Controller!ParametersOf, ParametersOf

LEMMA ResultsLength ==
  ASSUME NEW c \in Commands PROVE Len(Controller!ResultsOf(c)) = Answers(c)
<1>1. CASE c = "SENSE_DRIVE_STATUS"
  BY <1>1 DEF Controller!ResultsOf, Answers
<1>2. CASE c = "SENSE_INTERRUPT_STATUS"
  BY <1>2 DEF Controller!ResultsOf, Answers
<1>3. CASE c = "FORMAT_TRACK"
  BY <1>3 DEF Controller!ResultsOf, Answers
<1>4. CASE c \in {"READ_DATA", "WRITE_DATA", "VERIFY_DATA", "READ_ID"}
  BY <1>4 DEF Controller!ResultsOf, Answers
<1>5. CASE c \in {"SPECIFY", "RECALIBRATE", "SEEK", "CONFIGURE", "DUMPREG", "READ_ID_FM"}
  BY <1>5 DEF Controller!ResultsOf, Answers
<1> QED BY <1>1, <1>2, <1>3, <1>4, <1>5

LEMMA ReadMaps == ASSUME FdcInv, ReadData PROVE Controller!Read
<1>1. PhaseOf = "results" /\ Answering /\ ~dma /\ OfferOf = TRUE
  BY DEF FdcInv, ReadData, PhaseOf, PhaseInv, Answering, OfferOf
<1>2. UNCHANGED <<reset, data, dma, dmadat, disc, commandpos, command, parameters, incommand, params, curparam>>
  BY DEF ReadData, phase, task, place
<1>3. PhaseOf' = IF incommand THEN "results" ELSE "idle"
  BY <1>1, <1>2 DEF ReadData, PhaseOf, FdcInv, PhaseInv
<1>4. OfferOf' = FALSE
  BY <1>3 DEF OfferOf, ReadData
<1>5. SentOf' = IF incommand THEN SentOf ELSE 0
  BY <1>1, <1>2, <1>3 DEF SentOf
<1>6. LeftOf' = LeftOf
  BY <1>1, <1>3 DEF LeftOf
<1>7. FullOf' = FullOf /\ OverOf' = OverOf /\ MovedOf' = MovedOf
  BY <1>1, <1>3, AtRest, RestNext
<1>8. Len(Controller!ResultsOf(command)) = Answers(command)
  <2>1. Answers("none") = 0
    BY DEF Answers
  <2>2. command # "none"
    BY <1>1, <2>1 DEF Answering
  <2>3. command \in Commands
    BY <2>2 DEF FdcInv, TypeOK, ControlOK
  <2> QED BY <2>3, ResultsLength
<1>9. incommand <=> SentOf # Len(Controller!ResultsOf(command))
  BY <1>1, <1>8 DEF Answering
<1> QED BY <1>1, <1>2, <1>3, <1>4, <1>5, <1>6, <1>7, <1>9
        DEF Controller!Read, Controller!command, Controller!transfer

LEMMA ParameterMaps ==
  ASSUME FdcInv, FdcInv', NEW v \in ParameterBytes(curparam), WriteParameter(v)
  PROVE Controller!Parameter(v)
<1>1. PhaseOf = "parameters" /\ incommand /\ ~awaiting /\ "DIO" \notin status /\ "RQM" \in status
  BY DEF FdcInv, WriteParameter, MayWrite, PhaseInv, PhaseOf, CommandInv
<1>2. /\ curparam \in 0 .. params - 1 /\ params \in 1 .. 8 /\ curparam' = curparam + 1 /\ params' = params
      /\ params = ParametersOf(command)
  BY <1>1 DEF FdcInv, WriteParameter, TypeOK, ControlOK, CommandInv, PhaseOf
<1>3. PhaseOf' = IF curparam' # params THEN "parameters" ELSE "execution"
  <2>1. CASE curparam' # params
    BY <1>1, <1>2, <2>1 DEF WriteParameter, PhaseOf
  <2>2. CASE curparam' = params
    <3>1. status' = (status \ {"RQM"}) \cup IF command \in {"SEEK", "RECALIBRATE"} THEN {"D0"} ELSE {}
      BY <2>2 DEF WriteParameter
    <3> QED BY <1>1, <1>2, <2>2, <3>1 DEF WriteParameter, PhaseOf
  <2> QED BY <2>1, <2>2
<1>4. LeftOf = params - curparam /\ LeftOf' = LeftOf - 1
  BY <1>1, <1>2, <1>3 DEF LeftOf
<1>5. parameters' = [parameters EXCEPT ![ParametersOf(command) - LeftOf] = v]
  <2>1. ParametersOf(command) - LeftOf = curparam
    BY <1>2, <1>4
  <2> QED BY <2>1 DEF WriteParameter
<1>6. ParametersOf(command) = Controller!ParametersOf(command)
  BY DEF ParametersOf, Controller!ParametersOf
<1>7. OfferOf = FALSE /\ OfferOf' = FALSE /\ SentOf = 0 /\ SentOf' = 0
  BY <1>1, <1>3 DEF OfferOf, SentOf
<1>8. FullOf' = FullOf /\ OverOf' = OverOf /\ MovedOf' = MovedOf
  <2>1. FullOf = FALSE /\ OverOf = FALSE /\ MovedOf = 0
    BY <1>1, AtRest
  <2>2. CASE curparam' # params
    BY <1>3, <2>1, <2>2, RestNext
  <2>3. CASE curparam' = params
    <3>1. commandpos' = 0
      BY <1>1, <2>3 DEF WriteParameter, FdcInv, PhaseInv
    <3>2. FullOf' = FALSE /\ OverOf' = FALSE
      BY <3>1, SizeAssumption DEF FullOf, OverOf
    <3>3. command' \in {"READ_DATA", "WRITE_DATA"} => sector' = parameters'[3] /\ parameters'[3] \in Int
      BY <2>3, LastRange DEF WriteParameter, FdcInv, TypeOK, ParametersOK
    <3>4. MovedOf' = 0
      BY <3>1, <3>2, <3>3, SizeAssumption DEF MovedOf, Executes
    <3> QED BY <2>1, <3>2, <3>4
  <2> QED BY <2>2, <2>3
<1>9. LeftOf' > 0 <=> curparam' # params
  BY <1>2, <1>4
<1>10. /\ curparam' # params => command' = command
       /\ command' = command \/ (command = "READ_ID" /\ command' = "READ_ID_FM")
  BY DEF WriteParameter
<1>11. UNCHANGED <<reset, data, dma, dmadat, disc>>
  BY DEF WriteParameter
<1> QED BY <1>1, <1>3, <1>4, <1>5, <1>6, <1>7, <1>8, <1>9, <1>10, <1>11
        DEF Controller!Parameter, Controller!answer, Controller!transfer

LEMMA TakeMaps ==
  ASSUME FdcInv, FdcInv', NEW tc \in BOOLEAN, fdc_dma_read(tc) PROVE Controller!Take(tc)
<1>1. /\ PhaseOf = "execution" /\ ~reset /\ incommand /\ Transferring /\ command = "READ_DATA" /\ dma = TRUE
      /\ Size \in 1 .. 1024
  BY DmaFacts, SizeAssumption DEF fdc_dma_read, FdcInv, TypeOK, FlagsOK
<1>2. /\ PhaseOf' = "execution" /\ dma' = FALSE
      /\ UNCHANGED <<reset, command, parameters, data, sector, dmadat, disc>>
  BY <1>1 DEF fdc_dma_read, regs, phase, task, PhaseOf
<1>3. LeftOf' = LeftOf /\ OfferOf' = OfferOf /\ SentOf' = SentOf /\ FullOf' = FALSE /\ FullOf = FALSE
  BY <1>1, <1>2 DEF LeftOf, OfferOf, SentOf, FullOf, Executes
<1>4. commandpos' = IF tc THEN Size ELSE commandpos
  BY DEF fdc_dma_read
<1>5. OverOf' <=> commandpos' = Size
  BY <1>1, <1>2 DEF OverOf, Executes
<1>6. ~OverOf /\ MovedOf = (sector - parameters[3]) * Size + (IF commandpos = Size THEN 0 ELSE commandpos)
  BY <1>1 DEF OverOf, MovedOf, Executes
<1>7. MovedOf' = IF OverOf' THEN 0 ELSE MovedOf
  BY <1>1, <1>2, <1>4, <1>5, <1>6 DEF MovedOf, Executes
<1>8. commandpos = Size <=> MovedOf = Controller!Total
  <2> DEFINE a == sector - parameters[3]
             b == Last + 1 - parameters[3]
  <2>1. Controller!Total = b * Size
    <3>1. b = IF parameters[5] > parameters[3] THEN parameters[5] - parameters[3] + 1 ELSE 1
      BY LastRange DEF Last
    <3> QED BY <3>1 DEF Controller!Total
  <2>2. CASE commandpos = Size
    <3>1. a = b
      BY <1>1, <2>2, LastRange DEF Transferring
    <3> QED BY <1>6, <2>1, <2>2, <3>1, LastRange
  <2>3. CASE commandpos # Size
    <3>1. commandpos \in 0 .. Size - 1 /\ a \in Nat /\ b \in Nat /\ a + 1 <= b
      BY <1>1, <2>3, LastRange DEF Transferring
    <3>2. MovedOf = a * Size + commandpos
      BY <1>6, <2>3
    <3> HIDE DEF a, b
    <3>3. (a + 1) * Size <= b * Size /\ (a + 1) * Size = a * Size + Size
      BY <1>1, <3>1
    <3>4. a * Size \in Int /\ b * Size \in Int
      BY <1>1, <3>1
    <3> QED BY <1>1, <2>1, <2>3, <3>1, <3>2, <3>3, <3>4
  <2> QED BY <2>2, <2>3
<1>9. OverOf' = (tc \/ MovedOf = Controller!Total)
  <2>1. OverOf' \in BOOLEAN
    BY DEF OverOf, Executes
  <2>2. OverOf' <=> (tc \/ commandpos = Size)
    BY <1>4, <1>5
  <2> QED BY <1>8, <2>1, <2>2
<1> QED BY <1>1, <1>2, <1>3, <1>7, <1>9 DEF Controller!Take, Controller!command, Controller!answer

LEMMA BringMaps ==
  ASSUME FdcInv, FdcInv', NEW v \in Values, NEW tc \in BOOLEAN, fdc_dma_write(v, tc) PROVE Controller!Bring(v, tc)
<1>1. /\ PhaseOf = "execution" /\ ~reset /\ incommand /\ Transferring /\ command = "WRITE_DATA" /\ dma = TRUE
      /\ Size \in 1 .. 1024
  BY DmaFacts, SizeAssumption DEF fdc_dma_write, FdcInv, TypeOK, FlagsOK
<1>2. /\ PhaseOf' = "execution" /\ dma' = FALSE /\ dmadat' = v
      /\ UNCHANGED <<reset, command, parameters, data, sector, disc>>
  BY <1>1 DEF fdc_dma_write, regs, phase, task, PhaseOf
<1>3. LeftOf' = LeftOf /\ OfferOf' = OfferOf /\ SentOf' = SentOf
  BY <1>1, <1>2 DEF LeftOf, OfferOf, SentOf
<1>4. commandpos \in 1 .. Size
  BY <1>1 DEF Transferring
<1>5. IF tc THEN commandpos' = Tc /\ oldpos' = commandpos ELSE commandpos' = commandpos
  BY DEF fdc_dma_write
<1>6. FullOf' = TRUE
  BY <1>1, <1>2, <1>4, <1>5 DEF FullOf, Executes
<1>7. OverOf' = tc
  <2>1. OverOf' <=> tc
    BY <1>1, <1>2, <1>4, <1>5 DEF OverOf, Executes
  <2>2. OverOf' \in BOOLEAN
    BY DEF OverOf, Executes
  <2> QED BY <2>1, <2>2
<1>8. MovedOf' = MovedOf
  <2>1. MovedOf = (sector - parameters[3]) * Size + commandpos - 1
    BY <1>1, <1>4, LastRange DEF MovedOf, Executes
  <2>2. MovedOf' = (sector - parameters[3]) * Size + commandpos - 1
    BY <1>1, <1>2, <1>4, <1>5, LastRange DEF MovedOf, Executes
  <2> QED BY <2>1, <2>2
<1> QED BY <1>1, <1>2, <1>3, <1>6, <1>7, <1>8 DEF Controller!Bring, Controller!command, Controller!answer

LEMMA DoneMaps ==
  ASSUME FdcInv, Called, ~reset, NEW c \in {"SPECIFY", "CONFIGURE", "RECALIBRATE", "SEEK", "READ_ID_FM"},
         command = c, PhaseOf' = IF c = "READ_ID_FM" THEN "silent" ELSE "idle",
         UNCHANGED <<data, dmadat, disc, dma>>
  PROVE Controller!Done
<1>1. Controller!ResultsOf(command) = << >> /\ Answers(command) = 0
  BY DEF Controller!ResultsOf, Answers
<1>2. PhaseOf = "execution"
  BY <1>1, CallFacts DEF Called
<1>3. LeftOf' = LeftOf /\ OfferOf' = OfferOf /\ SentOf' = SentOf
  BY <1>2 DEF LeftOf, OfferOf, SentOf
<1>4. FullOf = FALSE /\ OverOf = FALSE /\ MovedOf = 0
  BY DEF FullOf, OverOf, MovedOf, Executes
<1>5. FullOf' = FALSE /\ OverOf' = FALSE /\ MovedOf' = 0
  BY RestNext
<1> QED BY <1>1, <1>2, <1>3, <1>4, <1>5
        DEF Controller!Done, Controller!command, Controller!answer, Controller!transfer, Called

LEMMA OfferMaps ==
  ASSUME FdcInv, Called, ~reset, Answers(command) > 0, status' = {"RQM", "DIO", "CB"},
         PhaseOf = "execution" => command \notin {"READ_DATA", "WRITE_DATA"} \/ (OverOf /\ ~FullOf),
         SentOf < Answers(command), SentOf' = SentOf + 1, data' = Controller!ResultsOf(command)[SentOf'],
         UNCHANGED <<dmadat, disc, dma>>
  PROVE Controller!Offer
<1>1. ~dma /\ PhaseOf \in {"execution", "results"} /\ (PhaseOf = "results" => Answering)
  BY CallFacts DEF Called
<1>2. PhaseOf' = "results"
  BY DEF PhaseOf, Called
<1>3. OfferOf' = TRUE /\ LeftOf' = 0 /\ LeftOf = 0
  BY <1>1, <1>2 DEF OfferOf, LeftOf
<1>4. FullOf' = FALSE /\ OverOf' = FALSE /\ MovedOf' = 0 /\ dma' = FALSE
  BY <1>1, <1>2, RestNext DEF FdcInv, TypeOK, FlagsOK
<1>5. command \in Commands
  BY DEF FdcInv, TypeOK, ControlOK, Answers
<1>6. SentOf < Len(Controller!ResultsOf(command))
  BY <1>5, ResultsLength
<1>7. OfferOf => command = "SENSE_INTERRUPT_STATUS"
  BY <1>1 DEF OfferOf, Answering, Called
<1>8. command \in {"READ_DATA", "WRITE_DATA"} => PhaseOf = "results" \/ (OverOf /\ ~FullOf)
  BY <1>1
<1> QED BY <1>1, <1>2, <1>3, <1>4, <1>6, <1>7, <1>8
        DEF Controller!Offer, Controller!NoTransfer, Controller!command, Called

LEMMA SentMaps ==
  ASSUME FdcInv, Called, ~reset, NEW names \in {Seven, Zeroing}, NEW k \in 1 .. 7, SendResult(k, names),
         command \in {"READ_DATA", "WRITE_DATA", "VERIFY_DATA", "READ_ID", "FORMAT_TRACK"},
         names = IF command = "FORMAT_TRACK" THEN Zeroing ELSE Seven,
         commandpos = k - 1 + (IF command = "READ_DATA" THEN Size
                               ELSE IF command = "WRITE_DATA" THEN Size + 1 ELSE 0),
         UNCHANGED <<dmadat, disc, dma>>
  PROVE Controller!Offer
<1>1. Answers(command) = 7 /\ Size \in 1 .. 1024
  BY SizeAssumption DEF Answers
<1>2. status' = {"RQM", "DIO", "CB"} /\ data' = names[k] /\ commandpos' = commandpos + 1
  BY DEF SendResult, fdcsend, fdcsend2
<1>3. SentOf = k - 1
  <2>1. CASE PhaseOf = "execution" /\ Working
    <3>1. command \in {"READ_DATA", "WRITE_DATA"} => Transferring
      BY <2>1 DEF Working
    <3>2. k = 1
      BY <1>1, <2>1, <3>1 DEF Working, Transferring
    <3> QED BY <2>1, <3>2 DEF SentOf
  <2>2. CASE PhaseOf = "results"
    BY <1>1, <2>2 DEF SentOf
  <2> QED BY <2>1, <2>2, CallFacts DEF Called
<1>4. PhaseOf' = "results"
  BY <1>2 DEF PhaseOf, Called
<1>5. SentOf' = k
  <2>1. command' = command
    BY DEF Called
  <2> QED BY <1>1, <1>2, <1>4, <2>1 DEF SentOf
<1>6. data' = Controller!ResultsOf(command)[k]
  <2>1. names = Controller!ResultsOf(command)
    BY DEF Seven, Zeroing, Controller!ResultsOf
  <2> QED BY <1>2, <2>1
<1>7. PhaseOf = "execution" => command \notin {"READ_DATA", "WRITE_DATA"} \/ (OverOf /\ ~FullOf)
  <2>1. ASSUME PhaseOf = "execution", command \in {"READ_DATA", "WRITE_DATA"} PROVE OverOf /\ ~FullOf
    <3>1. Transferring /\ ~dma
      BY <2>1, CallFacts DEF Called, Working
    <3>2. command = "READ_DATA" => commandpos = Size
      BY <1>1, <3>1 DEF Transferring
    <3>3. command = "WRITE_DATA" => commandpos = Size + 1
      BY <1>1, <3>1 DEF Transferring
    <3> QED BY <1>1, <2>1, <3>1, <3>2, <3>3 DEF OverOf, FullOf, Executes
  <2> QED BY <2>1
<1> QED BY <1>1, <1>2, <1>3, <1>5, <1>6, <1>7, OfferMaps

LEMMA DivMod ==
  ASSUME NEW a \in Nat, NEW s \in Nat \ {0}, NEW n \in 0 .. s - 1
  PROVE (a * s + n) \div s = a /\ (a * s + n) % s = n
<1> DEFINE m == a * s + n
           q == m \div s
           r == m % s
<1>1. m \in Nat /\ a * s \in Nat
  OBVIOUS
<1>2. q \in Int /\ r \in 0 .. s - 1 /\ m = s * q + r
  <2> HIDE DEF m
  <2> QED BY <1>1
<1>3. s * (a - q) = r - n /\ s * (a - q) \in Int
  <2> HIDE DEF q, r
  <2>1. s * (a - q) = s * a - s * q
    BY <1>2
  <2> QED BY <1>2, <2>1
<1>4. a - q = 0
  <2> HIDE DEF q, r
  <2> DEFINE d == a - q
  <2>1. d \in Int
    BY <1>2
  <2>2. r - n < s /\ r - n > -s
    BY <1>2
  <2> HIDE DEF d
  <2>3. ~(d >= 1)
    <3>1. d >= 1 => s * d >= s
      BY <2>1
    <3> QED BY <1>2, <1>3, <2>1, <2>2, <3>1 DEF d
  <2>4. ~(d <= -1)
    <3>1. d <= -1 => s * d <= -s
      BY <2>1
    <3> QED BY <1>2, <1>3, <2>1, <2>2, <3>1 DEF d
  <2> QED BY <2>1, <2>3, <2>4 DEF d
<1> QED BY <1>2, <1>4

LEMMA DriveStatusMaps == ASSUME FdcInv, SenseDriveStatus PROVE Controller!Offer
<1>1. Called /\ ~reset /\ command = "SENSE_DRIVE_STATUS" /\ command' = command
  BY DEF SenseDriveStatus, Calling, Called
<1>2. Answers(command) = 1 /\ Controller!ResultsOf(command) = <<"st3">>
  BY <1>1 DEF Answers, Controller!ResultsOf
<1>3. PhaseOf = "execution" /\ SentOf = 0
  BY <1>1, <1>2, CallFacts DEF Called, SentOf
<1>4. status' = {"RQM", "DIO", "CB"} /\ data' = "st3" /\ UNCHANGED <<dmadat, disc, dma>>
  BY DEF SenseDriveStatus, fdcsend
<1>5. PhaseOf' = "results"
  BY <1>1, <1>4 DEF PhaseOf, Called
<1>6. SentOf' = 1
  BY <1>1, <1>5 DEF SentOf
<1> QED BY <1>1, <1>2, <1>3, <1>4, <1>6, OfferMaps

LEMMA InterruptStatusMaps == ASSUME FdcInv, SenseInterruptStatus PROVE Controller!Offer
<1>1. Called /\ ~reset /\ command = "SENSE_INTERRUPT_STATUS" /\ command' = command
  BY DEF SenseInterruptStatus, Calling, Called
<1>2. Answers(command) = 2 /\ Controller!ResultsOf(command) = <<"st0", "track">>
  BY <1>1 DEF Answers, Controller!ResultsOf
<1>3. SentOf = commandpos /\ commandpos \in 0 .. 1
  <2>1. CASE PhaseOf = "execution" /\ Working
    BY <1>1, <2>1 DEF Working, SentOf
  <2>2. CASE PhaseOf = "results" /\ SentOf \in 1 .. 1
    BY <1>1, <2>2, SizeAssumption DEF SentOf, FdcInv, TypeOK, PlaceOK
  <2> QED BY <1>1, <1>2, <2>1, <2>2, CallFacts DEF Called
<1>4. status' = {"RQM", "DIO", "CB"} /\ commandpos' = commandpos + 1 /\ UNCHANGED <<dmadat, disc, dma>>
  BY DEF SenseInterruptStatus, fdcsend
<1>5. data' = IF commandpos + 1 = 1 THEN "st0" ELSE "track"
  BY DEF SenseInterruptStatus, fdcsend
<1>6. PhaseOf' = "results"
  BY <1>1, <1>4 DEF PhaseOf, Called
<1>7. SentOf' = commandpos + 1
  BY <1>1, <1>3, <1>4, <1>6 DEF SentOf
<1>8. data' = Controller!ResultsOf(command)[SentOf']
  BY <1>2, <1>3, <1>5, <1>7
<1> QED BY <1>1, <1>2, <1>3, <1>4, <1>7, <1>8, OfferMaps

\* A step of a transfer leaves all but the transfer.
LEMMA TransferFrame ==
  ASSUME Called, ~reset, PhaseOf = "execution", UNCHANGED <<regs, phase>>
  PROVE /\ PhaseOf' = "execution" /\ LeftOf' = LeftOf /\ OfferOf' = OfferOf /\ SentOf' = SentOf
        /\ UNCHANGED <<reset, command, parameters, data>>
<1>1. PhaseOf' = "execution"
  BY DEF PhaseOf, Called, regs, phase
<1> QED BY <1>1 DEF LeftOf, OfferOf, SentOf, Called, regs

\* The byte that completes the last sector, and no other, completes the transfer.
LEMMA LastByte ==
  ASSUME NEW a \in Nat, NEW b \in Nat, a <= b, NEW s \in Nat \ {0}, NEW n \in 0 .. s - 1
  PROVE a * s + n + 1 = (b + 1) * s <=> n = s - 1 /\ a = b
<1>1. a * s \in Nat
  OBVIOUS
<1>2. CASE a = b
  <2>1. (b + 1) * s = a * s + s
    BY <1>2
  <2> HIDE <1>2
  <2> DEFINE p == a * s
  <2> HIDE DEF p
  <2>2. p + n + 1 = p + s <=> n = s - 1
    BY <1>1 DEF p
  <2> QED BY <1>2, <2>1, <2>2 DEF p
<1>3. CASE a < b
  <2> DEFINE d == b - a - 1
             p == a * s
             r == d * s
  <2>1. d \in Nat
    BY <1>3
  <2>2. r \in Nat
    <3> HIDE DEF d
    <3> QED BY <2>1
  <2>3. (b + 1) * s = p + r + 2 * s
    OBVIOUS
  <2> HIDE DEF d, p, r
  <2>4. p \in Nat
    BY <1>1 DEF p
  <2>5. p + n + 1 # p + r + 2 * s
    BY <2>2, <2>4
  <2> QED BY <1>3, <2>3, <2>5 DEF p
<1> QED BY <1>2, <1>3

\* The place of the m-th byte of a transfer on the disc.
LEMMA PlaceMaps ==
  ASSUME FdcInv, sector >= parameters[3], sector <= Last, NEW n \in 0 .. Size - 1
  PROVE LET m == (sector - parameters[3]) * Size + n IN
        /\ m \in Nat /\ m % Size = n /\ parameters[3] + m \div Size = sector
        /\ m + 1 = Controller!Total <=> n = Size - 1 /\ sector = Last
<1> DEFINE a == sector - parameters[3]
           b == Last - parameters[3]
           m == a * Size + n
<1>1. a \in Nat /\ b \in Nat /\ a <= b /\ Size \in Nat \ {0} /\ sector = parameters[3] + a /\ (a = b <=> sector = Last)
  BY LastRange
<1>2. Controller!Total = (b + 1) * Size
  <2>1. b + 1 = IF parameters[5] > parameters[3] THEN parameters[5] - parameters[3] + 1 ELSE 1
    BY LastRange DEF Last
  <2> QED BY <2>1 DEF Controller!Total
<1>3. m \in Nat /\ m \div Size = a /\ m % Size = n /\ (m + 1 = (b + 1) * Size <=> n = Size - 1 /\ a = b)
  <2> HIDE DEF a, b
  <2>1. m \in Nat
    BY <1>1
  <2> QED BY <1>1, <2>1, DivMod, LastByte, SMTT(20)
<1> HIDE DEF b
<1>4. m % Size = n /\ parameters[3] + m \div Size = sector
  BY <1>1, <1>3
<1> QED BY <1>1, <1>2, <1>3, <1>4

\* The bytes of the sectors before this one, and those before the next.
LEMMA Before ==
  ASSUME FdcInv
  PROVE /\ (sector - parameters[3]) * Size \in Int
        /\ (sector + 1 - parameters[3]) * Size = (sector - parameters[3]) * Size + Size
<1> DEFINE a == sector - parameters[3]
<1>1. a \in Int /\ Size \in Int /\ sector + 1 - parameters[3] = a + 1
  BY LastRange
<1>2. a * Size \in Int /\ (a + 1) * Size = a * Size + Size
  <2> HIDE DEF a
  <2> QED BY <1>1
<1> QED BY <1>1, <1>2

LEMMA FetchMaps == ASSUME FdcInv, Drives = {0}, ReadByte PROVE Controller!Fetch
<1>1. Called /\ ~reset /\ command = "READ_DATA" /\ commandpos \in 0 .. Size - 1
  BY SizeAssumption DEF ReadByte, Calling, FdcInv, TypeOK, PlaceOK
<1>2. PhaseOf = "execution" /\ Transferring /\ dma = FALSE
  BY <1>1, TransferPlace, SizeAssumption DEF FdcInv, TypeOK, FlagsOK
<1>3. st0 = 0 /\ track = parameters[1] /\ sector >= parameters[3] /\ sector <= Last
  BY <1>1, <1>2, LastRange DEF Transferring, FdcInv, TypeOK, PlaceOK
<1>4. MovedOf = (sector - parameters[3]) * Size + commandpos /\ OverOf = FALSE /\ FullOf = FALSE
  BY <1>1, <1>2, LastRange DEF MovedOf, OverOf, FullOf, Executes
<1>5. dmadat' = Controller!At(disc, MovedOf)
  <2>1. parameters[3] + MovedOf \div Size = sector /\ MovedOf % Size = commandpos
    BY <1>1, <1>3, <1>4, PlaceMaps
  <2> QED BY <1>3, <2>1 DEF ReadByte, Controller!At
<1>6. /\ sector' = IF commandpos + 1 = Size THEN sector + 1 ELSE sector
      /\ commandpos' = IF commandpos + 1 = Size /\ sector' <= parameters[5] THEN 0 ELSE commandpos + 1
      /\ dma' = TRUE /\ UNCHANGED <<regs, phase, disc>>
  BY DEF ReadByte, NextByte
<1>7. PhaseOf' = "execution" /\ UNCHANGED <<reset, command, parameters, data>> /\ UNCHANGED <<LeftOf, OfferOf, SentOf>>
  BY <1>1, <1>2, <1>6, TransferFrame
<1>8. OverOf' = FALSE /\ FullOf' = FALSE
  BY <1>1, <1>6, <1>7 DEF OverOf, FullOf, Executes
<1>9. MovedOf' = (sector' - parameters[3]) * Size + (IF commandpos' = Size THEN 0 ELSE commandpos')
  BY <1>1, <1>7, <1>8 DEF MovedOf, Executes
<1>10. MovedOf' = MovedOf + 1
  <2> DEFINE p == (sector - parameters[3]) * Size
             q == (sector' - parameters[3]) * Size
             n == IF commandpos' = Size THEN 0 ELSE commandpos'
  <2>1. p \in Int /\ MovedOf = p + commandpos /\ MovedOf' = q + n
    BY <1>4, <1>9, Before
  <2>2. CASE commandpos + 1 = Size
    <3>1. sector' = sector + 1 /\ n = 0
      BY <1>1, <1>6, <2>2, LastRange
    <3>2. q = p + Size
      <4>1. q = (sector + 1 - parameters[3]) * Size
        BY <3>1, LastRange
      <4> QED BY <4>1, Before, Zenon
    <3> HIDE DEF p, q, n
    <3> QED BY <1>1, <2>1, <2>2, <3>1, <3>2, LastRange
  <2>3. CASE commandpos + 1 # Size
    <3>1. sector' = sector /\ n = commandpos + 1
      BY <1>1, <1>6, <2>3, LastRange
    <3>2. q = p
      BY <3>1
    <3> HIDE DEF p, q, n
    <3> QED BY <1>1, <2>1, <3>1, <3>2
  <2> QED BY <2>2, <2>3
<1> QED BY <1>1, <1>2, <1>4, <1>5, <1>6, <1>7, <1>8, <1>10
        DEF Controller!Fetch, Controller!command, Controller!answer

LEMMA AskMaps == ASSUME FdcInv, WriteByte, commandpos = 0 PROVE Controller!Ask
<1>1. Called /\ ~reset /\ command = "WRITE_DATA" /\ Size \in 1 .. 1024
  BY SizeAssumption DEF WriteByte, Calling
<1>2. PhaseOf = "execution" /\ Transferring /\ dma = FALSE
  BY <1>1, TransferPlace DEF FdcInv, TypeOK, FlagsOK
<1>3. sector' = sector /\ commandpos' = 1
  BY <1>1 DEF WriteByte, NextByte
<1>4. commandpos # Size
  BY <1>1
<1>5. dma' = TRUE /\ UNCHANGED <<regs, phase, disc, dmadat>>
  BY <1>4 DEF WriteByte
<1>6. PhaseOf' = "execution" /\ UNCHANGED <<reset, command, parameters, data>> /\ UNCHANGED <<LeftOf, OfferOf, SentOf>>
  BY <1>1, <1>2, <1>5, TransferFrame
<1>7. OverOf = FALSE /\ FullOf = FALSE
  BY <1>1 DEF OverOf, FullOf, Executes
<1>8. OverOf' = FALSE /\ FullOf' = FALSE
  BY <1>1, <1>3, <1>5, <1>6 DEF OverOf, FullOf, Executes
<1>9. MovedOf' = MovedOf
  <2>1. sector - parameters[3] \in Int /\ (sector - parameters[3]) * Size \in Int
    BY <1>1, LastRange
  <2>2. MovedOf = (sector - parameters[3]) * Size + 0
    BY <1>1, <1>2 DEF MovedOf, Executes
  <2>3. MovedOf' = (sector - parameters[3]) * Size + (1 - 1)
    BY <1>1, <1>3, <1>6 DEF MovedOf, Executes
  <2> QED BY <2>1, <2>2, <2>3
<1> QED BY <1>1, <1>2, <1>5, <1>6, <1>7, <1>8, <1>9 DEF Controller!Ask, Controller!command, Controller!answer

\* A byte is stored: n of it is its position in the sector.
LEMMA StoredMaps ==
  ASSUME FdcInv, Drives = {0}, Called, ~reset, command = "WRITE_DATA", PhaseOf = "execution", Transferring,
         NEW n \in 0 .. Size - 1, MovedOf = (sector - parameters[3]) * Size + n, sector <= Last, FullOf,
         disc' = Stored(disc, st0, track, sector, n, dmadat), dmadat' = dmadat, UNCHANGED <<regs, phase>>,
         dma' \in BOOLEAN, FullOf' = FALSE, OverOf' => dma' = FALSE,
         OverOf' = (OverOf \/ (n = Size - 1 /\ sector = Last)),
         ~OverOf' => MovedOf' = MovedOf + 1, commandpos' # Tc
  PROVE Controller!Store
<1>1. st0 = 0 /\ track = parameters[1] /\ sector >= parameters[3]
  BY LastRange DEF Transferring, FdcInv, TypeOK, PlaceOK
<1>2. /\ parameters[3] + MovedOf \div Size = sector /\ MovedOf % Size = n
      /\ MovedOf + 1 = Controller!Total <=> n = Size - 1 /\ sector = Last
  BY <1>1, PlaceMaps
<1>3. disc' = Controller!With(disc, MovedOf, dmadat)
  <2>1. Controller!With(disc, MovedOf, dmadat) = Controller!Stored(disc, 0, track, sector, n, dmadat)
    BY <1>1, <1>2 DEF Controller!With
  <2>2. Controller!Stored(disc, 0, track, sector, n, dmadat) = Stored(disc, 0, track, sector, n, dmadat)
    BY DEF Controller!Stored, Stored
  <2> QED BY <1>1, <2>1, <2>2
<1>4. PhaseOf' = "execution" /\ UNCHANGED <<reset, command, parameters, data>> /\ UNCHANGED <<LeftOf, OfferOf, SentOf>>
  BY TransferFrame
<1>5. OverOf' = (OverOf \/ MovedOf + 1 = Controller!Total)
  BY <1>2
<1>6. MovedOf' = IF OverOf' THEN 0 ELSE MovedOf + 1
  <2>1. OverOf' => commandpos' = Size + 1
    BY <1>4 DEF OverOf, Executes
  <2>2. ASSUME OverOf' PROVE MovedOf' = 0
    BY <1>4, <2>1, <2>2 DEF MovedOf, Executes
  <2> QED BY <2>2
<1> QED BY <1>3, <1>4, <1>5, <1>6 DEF Controller!Store, Controller!command, Controller!answer

LEMMA StoreMaps == ASSUME FdcInv, Drives = {0}, WriteByte, commandpos # 0 PROVE Controller!Store
<1>1. Called /\ ~reset /\ command = "WRITE_DATA" /\ commandpos \in 1 .. Size /\ Size \in 1 .. 1024
  BY SizeAssumption DEF WriteByte, Calling, FdcInv, TypeOK, PlaceOK
<1>2. PhaseOf = "execution" /\ Transferring /\ dma = FALSE
  BY <1>1, TransferPlace DEF FdcInv, TypeOK, FlagsOK
<1>3. sector >= parameters[3] /\ sector <= Last
  BY <1>1, <1>2 DEF Transferring
<1>4. OverOf = FALSE /\ FullOf = TRUE
  BY <1>1, <1>2 DEF OverOf, FullOf, Executes
<1>5. MovedOf = (sector - parameters[3]) * Size + (commandpos - 1)
  BY <1>1, <1>2, <1>4, LastRange DEF MovedOf, Executes
<1>6. /\ sector' = IF commandpos = Size THEN sector + 1 ELSE sector
      /\ commandpos' = IF commandpos = Size /\ sector' <= parameters[5] THEN 0 ELSE commandpos + 1
  BY <1>1 DEF WriteByte, NextByte
<1>7. /\ disc' = Stored(disc, st0, track, sector, commandpos - 1, dmadat) /\ dmadat' = dmadat
      /\ UNCHANGED <<regs, phase>> /\ dma' = (commandpos # Size)
  BY <1>1 DEF WriteByte
<1>8. PhaseOf' = "execution" /\ UNCHANGED <<reset, command, parameters, data>>
  BY <1>1, <1>2, <1>7, TransferFrame
<1>9. commandpos' = Size + 1 <=> commandpos = Size /\ sector = Last
  BY <1>1, <1>3, <1>6, LastRange DEF Last
<1>10. OverOf' = (commandpos = Size /\ sector = Last)
  <2>1. OverOf' <=> commandpos' \in {Size + 1, Tc}
    BY <1>1, <1>8 DEF OverOf, Executes
  <2>2. commandpos' # Tc
    BY <1>1, <1>6
  <2>3. OverOf' \in BOOLEAN
    BY DEF OverOf, Executes
  <2> QED BY <1>9, <2>1, <2>2, <2>3
<1>11. FullOf' = FALSE
  <2>1. dma' = FALSE => commandpos' \in {0, Size + 1}
    BY <1>1, <1>6, <1>7
  <2> QED BY <1>1, <2>1 DEF FullOf
<1>12. ~OverOf' => MovedOf' = MovedOf + 1
  <2> SUFFICES ASSUME ~OverOf' PROVE MovedOf' = MovedOf + 1
    OBVIOUS
  <2> DEFINE p == (sector - parameters[3]) * Size
             q == (sector' - parameters[3]) * Size
             n == IF commandpos' = 0 THEN 0 ELSE commandpos' - 1
  <2>1. ~(commandpos = Size /\ sector = Last)
    BY <1>10
  <2>2. commandpos' \in 0 .. Size
    BY <1>1, <1>6, <1>9, <2>1
  <2>3. p \in Int /\ MovedOf = p + (commandpos - 1) /\ MovedOf' = q + n
    <3>1. commandpos' # Size + 1 /\ commandpos' # Tc
      BY <1>1, <2>2
    <3>2. MovedOf' = q + n
      BY <1>1, <1>8, <3>1 DEF MovedOf, Executes
    <3> QED BY <1>5, <3>2, Before
  <2>4. CASE commandpos = Size
    <3>1. sector' = sector + 1 /\ commandpos' = 0
      BY <1>1, <1>6, <2>2, <2>4
    <3>2. q = p + Size
      <4>1. q = (sector + 1 - parameters[3]) * Size
        BY <3>1, LastRange
      <4> QED BY <4>1, Before, Zenon
    <3>3. n = 0
      BY <3>1
    <3> HIDE DEF p, q, n
    <3> QED BY <1>1, <2>3, <2>4, <3>2, <3>3
  <2>5. CASE commandpos # Size
    <3>1. sector' = sector /\ commandpos' = commandpos + 1 /\ n = commandpos
      BY <1>1, <1>6, <2>5
    <3>2. q = p
      BY <3>1
    <3> HIDE DEF p, q, n
    <3> QED BY <1>1, <2>3, <3>1, <3>2
  <2> QED BY <2>4, <2>5
<1>13. commandpos - 1 \in 0 .. Size - 1 /\ (commandpos - 1 = Size - 1 <=> commandpos = Size)
  BY <1>1
<1>14. OverOf' = (OverOf \/ (commandpos - 1 = Size - 1 /\ sector = Last))
  BY <1>4, <1>10, <1>13
<1>15. OverOf' => dma' = FALSE
  BY <1>7, <1>10
<1>16. dma' \in BOOLEAN /\ commandpos' # Tc
  <2>1. commandpos' \in 0 .. Size + 1
    BY <1>1, <1>6
  <2> QED BY <1>1, <1>7, <2>1
<1> DEFINE n == commandpos - 1
<1>17. /\ n \in 0 .. Size - 1 /\ MovedOf = (sector - parameters[3]) * Size + n /\ sector <= Last /\ FullOf
       /\ disc' = Stored(disc, st0, track, sector, n, dmadat) /\ dmadat' = dmadat /\ UNCHANGED <<regs, phase>>
       /\ dma' \in BOOLEAN /\ FullOf' = FALSE /\ (OverOf' => dma' = FALSE)
       /\ OverOf' = (OverOf \/ (n = Size - 1 /\ sector = Last))
       /\ (~OverOf' => MovedOf' = MovedOf + 1) /\ commandpos' # Tc
  BY <1>3, <1>4, <1>5, <1>7, <1>11, <1>12, <1>13, <1>14, <1>15, <1>16
<1> HIDE DEF n
<1> QED BY <1>1, <1>2, <1>17, StoredMaps, ZenonT(120)

LEMMA LastMaps == ASSUME FdcInv, Drives = {0}, WriteLast PROVE Controller!Store
<1>1. Called /\ ~reset /\ command = "WRITE_DATA" /\ commandpos = Tc /\ Size \in 1 .. 1024
  BY SizeAssumption DEF WriteLast, Calling
<1>2. PhaseOf = "execution" /\ Transferring /\ dma = FALSE
  BY <1>1, TransferPlace DEF FdcInv, TypeOK, FlagsOK
<1>3. sector >= parameters[3] /\ sector <= Last /\ oldpos \in 1 .. Size
  BY <1>1, <1>2 DEF Transferring
<1>4. OverOf = TRUE /\ FullOf = TRUE
  BY <1>1, <1>2 DEF OverOf, FullOf, Executes
<1>5. MovedOf = (sector - parameters[3]) * Size + (oldpos - 1)
  BY <1>1, <1>2, LastRange DEF MovedOf, Executes
<1>6. /\ disc' = Stored(disc, st0, track, sector, oldpos - 1, dmadat) /\ dmadat' = dmadat
      /\ UNCHANGED <<regs, phase>> /\ dma' = FALSE /\ commandpos' = Size + 1
  BY <1>2 DEF WriteLast
<1>7. PhaseOf' = "execution" /\ UNCHANGED <<reset, command, parameters, data>>
  BY <1>1, <1>2, <1>6, TransferFrame
<1>8. OverOf' = TRUE /\ FullOf' = FALSE
  BY <1>1, <1>6, <1>7 DEF OverOf, FullOf, Executes
<1>9. oldpos - 1 \in 0 .. Size - 1
  BY <1>1, <1>3
<1>10. OverOf' = (OverOf \/ (oldpos - 1 = Size - 1 /\ sector = Last))
  BY <1>4, <1>8
<1>11. dma' \in BOOLEAN /\ (OverOf' => dma' = FALSE) /\ (~OverOf' => MovedOf' = MovedOf + 1) /\ commandpos' # Tc
  <2>1. commandpos' # Tc
    BY <1>1, <1>6
  <2>2. dma' \in BOOLEAN /\ (OverOf' => dma' = FALSE)
    BY <1>6
  <2>3. ~OverOf' => MovedOf' = MovedOf + 1
    BY <1>8
  <2> QED BY <2>1, <2>2, <2>3
<1> DEFINE n == oldpos - 1
<1>12. /\ n \in 0 .. Size - 1 /\ MovedOf = (sector - parameters[3]) * Size + n /\ sector <= Last /\ FullOf
       /\ disc' = Stored(disc, st0, track, sector, n, dmadat) /\ dmadat' = dmadat /\ UNCHANGED <<regs, phase>>
       /\ dma' \in BOOLEAN /\ FullOf' = FALSE /\ (OverOf' => dma' = FALSE)
       /\ OverOf' = (OverOf \/ (n = Size - 1 /\ sector = Last))
       /\ (~OverOf' => MovedOf' = MovedOf + 1) /\ commandpos' # Tc
  BY <1>3, <1>4, <1>5, <1>6, <1>8, <1>9, <1>10, <1>11
<1> HIDE DEF n
<1> QED BY <1>1, <1>2, <1>12, StoredMaps, ZenonT(120)

\* Every step is a step of the controller promised, or none of it is seen.
LEMMA CallbackMaps ==
  ASSUME FdcInv, FdcInv', Drives = {0}, fdc_callback
  PROVE Controller!Ready \/ Controller!Done \/ Controller!Offer \/ Controller!Fetch \/ Controller!Ask
        \/ Controller!Store
<1>1. CASE ResetDone
  BY <1>1, ReadyMaps
<1>2. ASSUME NEW c \in {"SPECIFY", "CONFIGURE"}, Setup(c) PROVE Controller!Done
  <2>1. PhaseOf' = "idle"
    BY <1>2 DEF Setup, Calling, Called, CommandOver, PhaseOf
  <2> QED BY <1>2, <2>1, DoneMaps DEF Setup, Calling
<1>3. ASSUME NEW c \in {"RECALIBRATE", "SEEK"}, NEW t, Movement(c, t) PROVE Controller!Done
  <2>1. PhaseOf' = "idle"
    BY <1>3 DEF Movement, Calling, Called, ReadyInterrupting, CommandOver, PhaseOf
  <2> QED BY <1>3, <2>1, DoneMaps DEF Movement, Calling, ReadyInterrupting
<1>4. CASE ReadIdFm
  <2>1. Called /\ ~reset /\ command = "READ_ID_FM" /\ UNCHANGED <<data, dmadat, disc, dma>>
    BY <1>4 DEF ReadIdFm, Calling
  <2>2. PhaseOf = "execution"
    BY <2>1, CallFacts DEF Called, Answers
  <2>3. "RQM" \notin status /\ "DIO" \notin status
    BY <2>1, <2>2 DEF FdcInv, PhaseInv, Working, PhaseOf
  <2>4. PhaseOf' = "silent"
    BY <1>4, <2>1, <2>3 DEF ReadIdFm, Called, CommandOver, PhaseOf
  <2> QED BY <2>1, <2>4, DoneMaps
<1>5. ASSUME NEW c \in {"READ_ID", "VERIFY_DATA", "FORMAT_TRACK"}, NEW names \in {Seven, Zeroing},
             names = IF c = "FORMAT_TRACK" THEN Zeroing ELSE Seven, ResultsOnly(c, names)
      PROVE Controller!Offer
  <2>1. Called /\ ~reset /\ command = c /\ UNCHANGED <<dmadat, disc, dma>>
    BY <1>5 DEF ResultsOnly, Calling
  <2>2. commandpos \in 0 .. 6 /\ Len(names) = 7
    BY <1>5, <2>1, ResultsPlace, SeqFacts
  <2>3. SendResult(commandpos + 1, names) /\ commandpos + 1 \in 1 .. 7
    <3>1. commandpos < Len(names) /\ commandpos + 1 \in 1 .. 7
      BY <2>2
    <3>2. SendResult(commandpos + 1, names)
      BY <1>5, <3>1, Zenon DEF ResultsOnly
    <3> QED BY <3>1, <3>2
  <2> DEFINE k == commandpos + 1
  <2>4. k \in 1 .. 7 /\ SendResult(k, names) /\ commandpos = k - 1 + 0
    BY <2>2, <2>3
  <2> HIDE DEF k
  <2> QED BY <1>5, <2>1, <2>4, SentMaps
<1>6. CASE TransferResult("READ_DATA", commandpos + 1 - Size)
  <2>1. Called /\ ~reset /\ command = "READ_DATA" /\ Size \in 1 .. 1024
    BY <1>6, SizeAssumption DEF TransferResult, Calling
  <2>2. commandpos \in Size .. Size + 6
    BY <1>6, <2>1, TransferPlace DEF TransferResult
  <2>3. SendResult(commandpos + 1 - Size, Seven) /\ UNCHANGED <<dmadat, disc, dma>>
    BY <1>6, <2>1, <2>2 DEF TransferResult
  <2> DEFINE k == commandpos + 1 - Size
  <2>4. k \in 1 .. 7 /\ SendResult(k, Seven) /\ commandpos = k - 1 + Size
    BY <2>1, <2>2, <2>3
  <2> HIDE DEF k
  <2> QED BY <2>1, <2>3, <2>4, SentMaps
<1>7. CASE commandpos # Tc /\ TransferResult("WRITE_DATA", commandpos - Size)
  <2>1. Called /\ ~reset /\ command = "WRITE_DATA" /\ Size \in 1 .. 1024
    BY <1>7, SizeAssumption DEF TransferResult, Calling
  <2>2. commandpos \in Size + 1 .. Size + 7
    BY <1>7, <2>1, TransferPlace DEF TransferResult
  <2>3. SendResult(commandpos - Size, Seven) /\ UNCHANGED <<dmadat, disc, dma>>
    BY <1>7, <2>1, <2>2 DEF TransferResult
  <2> DEFINE k == commandpos - Size
  <2>4. k \in 1 .. 7 /\ SendResult(k, Seven) /\ commandpos = k - 1 + (Size + 1)
    BY <2>1, <2>2, <2>3
  <2> HIDE DEF k
  <2> QED BY <2>1, <2>3, <2>4, SentMaps
<1>8. CASE WriteByte
  BY <1>8, AskMaps, StoreMaps
<1>9. CASE ReadId \/ VerifyData \/ FormatTrack
  BY <1>5, <1>9 DEF ReadId, VerifyData, FormatTrack
<1> QED BY <1>1, <1>2, <1>3, <1>4, <1>6, <1>7, <1>8, <1>9, DriveStatusMaps, InterruptStatusMaps, FetchMaps,
           LastMaps DEF fdc_callback

LEMMA StepMaps ==
  ASSUME FdcInv, FdcInv', Drives = {0}, [Next]_vars PROVE [Controller!Next]_(Controller!vars)
<1>1. CASE \E pulse \in BOOLEAN : WriteDor(pulse)
  BY <1>1, DorMaps DEF Controller!Next
<1>2. CASE ReadStatus \/ (\E r \in {0, Density} : SetRate(r)) \/ UNCHANGED vars
  <2>1. UNCHANGED <<reset, status, data, incommand, params, curparam, command, parameters, track,
                    commandpos, sector, oldpos, dmadat, disc, dma>>
    BY <1>2 DEF ReadStatus, SetRate, vars, regs, phase, task, place
  <2>2. reset' /\ awaiting' <=> reset /\ awaiting
    <3>1. CASE ReadStatus
      BY <3>1 DEF FdcInv, PhaseInv, ReadStatus
    <3>2. CASE (\E r \in {0, Density} : SetRate(r)) \/ UNCHANGED vars
      BY <3>2 DEF SetRate, vars
    <3> QED BY <1>2, <3>1, <3>2
  <2>3. PhaseOf' = PhaseOf
    BY <2>1, <2>2 DEF PhaseOf
  <2> QED BY <2>1, <2>3, Unseen
<1>3. CASE \E c \in Commands : WriteCommand(c)
  <2>1. PICK c \in Commands : WriteCommand(c)
    BY <1>3
  <2>2. Controller!Begin(c)
    BY <2>1, BeginMaps
  <2> QED BY <2>2 DEF Controller!Next, Controller!Commands
<1>4. CASE NextParameter
  <2>1. PICK v \in ParameterBytes(curparam) : WriteParameter(v)
    BY <1>4 DEF NextParameter
  <2>2. Controller!Parameter(v)
    BY <2>1, ParameterMaps
  <2>3. v \in Tracks \cup Sectors \cup Drives
    BY DiscAssumption DEF ParameterBytes
  <2> QED BY <2>2, <2>3 DEF Controller!Next
<1>5. CASE ReadData
  BY <1>5, ReadMaps DEF Controller!Next
<1>6. CASE AnswerDma
  BY <1>6, TakeMaps, BringMaps DEF AnswerDma, Controller!Next
<1>7. CASE fdc_callback
  BY <1>7, CallbackMaps DEF Controller!Next
<1> QED BY <1>1, <1>2, <1>3, <1>4, <1>5, <1>6, <1>7 DEF Next

\* On drive 0, whatever the geometry of the disc, each byte of a transfer
\* reaches its place once, each command gives its results in order or is
\* forgotten by a reset armed before it ended: the code's callbacks implement the controller its guest is promised.
THEOREM FloppyImplemented == ASSUME Drives = {0} PROVE Spec => FloppyController
<1>1. Init => Controller!Init
  BY InitMaps
<1>2. FdcInv /\ FdcInv' /\ [Next]_vars => [Controller!Next]_(Controller!vars)
  BY StepMaps
<1> QED BY <1>1, <1>2, ControllerInvariant, PTL DEF Spec, FloppyController, Controller!Spec
=============================================================================
