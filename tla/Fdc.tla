-------------------------------- MODULE Fdc --------------------------------
(***************************************************************************)
(* The floppy controller (fdc.c) and a guest that drives it. The guest     *)
(* writes command and parameter bytes while the main status register asks  *)
(* for them, reads result bytes while it offers them, answers each DMA     *)
(* request and may end the transfer with any byte (terminal count). Each   *)
(* of these only arms fdccallback; the machine thread counts it down and   *)
(* calls fdc_callback, which does the work. How long that takes is left    *)
(* out: a countdown is a flag. A write to the digital output register      *)
(* resets the controller behind the back of a guest that means the motor;  *)
(* the guest goes on, and learns of it by an interrupt.                    *)
(*                                                                         *)
(* No image is loaded in this program: both drives have the 800K format.   *)
(* Results are their names; of st0 the drive bit is kept. Operators with a *)
(* suffix are wrong forms of what they precede, used only by the mutants.  *)
(***************************************************************************)
EXTENDS FdcTypes

VARIABLES
    reset, status, incommand, command, st0, commandpos, track, sector, data,
    params, curparam, parameters, dmadat, rate, oldpos,     \* struct fdc
    fdccallback,    \* the countdown is running
    disc,           \* drives[].disc
    irq, dma,       \* the requests in iomd.irqb and iomd.fiq
    awaiting,       \* the guest waits for the interrupt of a reset
    fault           \* a message the code calls an error was printed

regs  == <<status, data, irq>>
task  == <<command, parameters, track>>
place == <<commandpos, sector, oldpos>>
phase == <<incommand, params, curparam>>
vars  == <<reset, regs, phase, task, place, st0, dmadat, rate, fdccallback, disc, dma, awaiting, fault>>

\* The last byte of a write was sent.
Tc      == 2048
Density == 2
Results == {"st0", "st1", "st2", "st3", "track", "head", "sector", "size", "zero"}

\* Guests send parameters in range. Bytes that select nothing are zero.
ParameterBytes(i) ==
    IF i = 0 THEN Drives ELSE IF i = 1 THEN Tracks ELSE IF i \in {3, 5} THEN Sectors ELSE {0}

fdcsend(name)     == data' = name /\ status' = {"RQM", "DIO", "CB"} /\ irq' = TRUE
fdcsend2(name)    == data' = name /\ status' = {"RQM", "DIO", "CB"} /\ UNCHANGED irq
CommandOver       == incommand' = FALSE /\ params' = 0 /\ curparam' = 0
ReadyInterrupting == CommandOver /\ status' = {"RQM"} /\ irq' = TRUE /\ UNCHANGED data

Init ==
    /\ reset = FALSE /\ status = {} /\ incommand = FALSE /\ command = "none"
    /\ st0 = 0 /\ commandpos = 0 /\ track = 0 /\ sector = 0 /\ data = "zero"
    /\ params = 0 /\ curparam = 0 /\ parameters = [i \in 0 .. 9 |-> 0]
    /\ dmadat = 0 /\ rate = 0 /\ oldpos = 0 /\ fdccallback = FALSE
    /\ disc = [d \in 0 .. 1 |-> [t \in Tracks |-> [s \in Sectors |-> [n \in 0 .. Size - 1 |-> 0]]]]
    /\ irq = FALSE /\ dma = FALSE /\ awaiting = FALSE /\ fault = FALSE

-----------------------------------------------------------------------------
\* The guest

\* Digital output register with the reset bit high. The bit was low before
\* (pulse: the guest resets, and waits for the interrupt), or it was not and the
\* guest means the motor: dor is never stored, so both arm a reset. The status
\* stays as it is, so that without a pulse the guest goes on with what it does.
\* The guest has answered all requests.
WriteDor(pulse) ==
    /\ ~irq /\ ~dma /\ ~awaiting
    /\ reset' = TRUE /\ fdccallback' = TRUE /\ awaiting' = pulse
    /\ status' = IF pulse THEN {"RQM"} ELSE status
    /\ UNCHANGED <<data, irq, phase, task, place, st0, dmadat, rate, disc, dma, fault>>

\* The interrupt is answered by a read of the status, which lowers it.
ReadStatus ==
    /\ irq /\ irq' = FALSE /\ awaiting' = FALSE
    /\ UNCHANGED <<reset, status, data, phase, task, place, st0, dmadat, rate, fdccallback, disc, dma, fault>>

SetRate(r) ==
    /\ ~incommand /\ rate' = r
    /\ UNCHANGED <<reset, regs, phase, task, place, st0, dmadat, fdccallback, disc, dma, awaiting, fault>>

\* The guest has read the status, so no interrupt is up, and found RQM.
MayWrite == ~awaiting /\ ~irq /\ "RQM" \in status /\ "DIO" \notin status

\* The first byte names the command. At a rate that is not the disc's a guest
\* looks for the format; it does not transfer. DUMPREG stops the countdown of a
\* reset, which then waits for that of another command.
WriteCommand(c) ==
    /\ MayWrite /\ params = 0 /\ (c \in Transfers => rate = Density)
    /\ fault' = (fault \/ incommand)
    /\ commandpos' = 0 /\ command' = c
    /\ params' = ParametersOf(c)
    /\ curparam' = IF params' = 0 THEN curparam ELSE 0
    /\ IF c = "DUMPREG"
       THEN incommand' = FALSE /\ fdccallback' = FALSE /\ st0' = 0 /\ data' = "st0" /\ irq' = TRUE
       ELSE /\ incommand' = TRUE /\ UNCHANGED <<st0, data, irq>>
            /\ fdccallback' = (c = "SENSE_INTERRUPT_STATUS" \/ fdccallback)
    /\ status' = {"RQM", "CB"} \ (IF c \in {"DUMPREG", "FORMAT_TRACK"} THEN {"CB"}
                                 ELSE IF c = "SENSE_INTERRUPT_STATUS" THEN {"RQM"} ELSE {})
    /\ UNCHANGED <<reset, parameters, track, sector, oldpos, dmadat, rate, disc, dma, awaiting>>

\* The last parameter starts the command.
WriteParameter(v) ==
    /\ MayWrite /\ params # 0
    /\ parameters' = [parameters EXCEPT ![curparam] = v]
    /\ curparam' = curparam + 1
    /\ IF curparam' # params
       THEN UNCHANGED <<status, fdccallback, command, commandpos, st0, track, sector>>
       ELSE /\ fdccallback' = TRUE
            /\ status' = (status \ {"RQM"}) \cup
                         IF command \in {"SEEK", "RECALIBRATE"} THEN {"D0"} ELSE {}
            /\ command' = IF command = "READ_ID" /\ rate # Density THEN "READ_ID_FM" ELSE command
            /\ IF command \in Transfers
               THEN track' = parameters'[1] /\ sector' = parameters'[3]
               ELSE UNCHANGED <<track, sector>>
            /\ IF command \in {"SPECIFY", "SENSE_DRIVE_STATUS", "RECALIBRATE", "SEEK", "CONFIGURE"}
               THEN UNCHANGED <<commandpos, st0>>
               ELSE commandpos' = 0 /\ st0' = parameters'[0]
    /\ UNCHANGED <<reset, data, irq, incommand, params, oldpos, dmadat, rate, disc, dma, awaiting, fault>>

\* Mutant: the next result is not asked for.
ReadData_NoCallback ==
    /\ ~awaiting /\ {"RQM", "DIO"} \subseteq status
    /\ status' = IF incommand THEN status \ {"RQM"} ELSE {"RQM"}
    /\ UNCHANGED <<reset, fdccallback, data, irq, phase, task, place, st0, dmadat, rate, disc, dma, awaiting, fault>>

\* A result byte is read; while the command lasts that asks for the next.
ReadData ==
    /\ ~awaiting /\ {"RQM", "DIO"} \subseteq status
    /\ status' = IF incommand THEN status \ {"RQM"} ELSE {"RQM"}
    /\ fdccallback' = (incommand \/ fdccallback)
    /\ UNCHANGED <<reset, data, irq, phase, task, place, st0, dmadat, rate, disc, dma, awaiting, fault>>

\* The guest answers a DMA request, with terminal count or not.
fdc_dma_read(tc) ==
    /\ dma /\ command = "READ_DATA" /\ ~awaiting
    /\ dma' = FALSE /\ fdccallback' = TRUE
    /\ IF tc THEN commandpos' = Size /\ st0' = 0 ELSE UNCHANGED <<commandpos, st0>>
    /\ UNCHANGED <<reset, regs, phase, task, sector, oldpos, dmadat, rate, disc, awaiting, fault>>

fdc_dma_write(v, tc) ==
    /\ dma /\ command = "WRITE_DATA" /\ ~awaiting
    /\ dma' = FALSE /\ fdccallback' = TRUE /\ dmadat' = v
    /\ IF tc THEN oldpos' = commandpos /\ commandpos' = Tc /\ st0' = 0
             ELSE UNCHANGED <<commandpos, oldpos, st0>>
    /\ UNCHANGED <<reset, regs, phase, task, sector, rate, disc, awaiting, fault>>

-----------------------------------------------------------------------------
\* fdc_callback: the countdown ran out

Called == fdccallback /\ UNCHANGED <<reset, rate, command, parameters, awaiting>>

\* A reset forgets the command and its parameters, those that came after the
\* write that armed it too.
ResetDone ==
    /\ fdccallback /\ reset
    /\ fdccallback' = FALSE /\ reset' = FALSE
    /\ ReadyInterrupting /\ st0' = 0 /\ track' = 0 /\ rate' = Density
    /\ UNCHANGED <<command, parameters, place, dmadat, disc, dma, awaiting, fault>>

Calling(c) == Called /\ ~reset /\ command = c

\* Commands without an answer, without a transfer and without a movement.
Setup(c) ==
    /\ Calling(c) /\ fdccallback' = FALSE
    /\ CommandOver /\ status' = {"RQM"}
    /\ UNCHANGED <<data, irq, track, place, st0, dmadat, disc, dma, fault>>

\* The head moves to a track; the interrupt is the answer.
Movement(c, t) ==
    /\ Calling(c) /\ fdccallback' = FALSE
    /\ ReadyInterrupting /\ track' = t /\ st0' = 0
    /\ UNCHANGED <<place, dmadat, disc, dma, fault>>

SenseDriveStatus ==
    /\ Calling("SENSE_DRIVE_STATUS") /\ fdccallback' = FALSE
    /\ CommandOver /\ fdcsend("st3")
    /\ UNCHANGED <<track, place, st0, dmadat, disc, dma, fault>>

\* The track follows st0 after a while, or at once when st0 is read.
SenseInterruptStatus ==
    /\ Calling("SENSE_INTERRUPT_STATUS")
    /\ commandpos' = commandpos + 1
    /\ fdccallback' = (commandpos' = 1)
    /\ incommand' = (commandpos' = 1)
    /\ fdcsend(IF commandpos' = 1 THEN "st0" ELSE "track")
    /\ UNCHANGED <<track, params, curparam, sector, oldpos, st0, dmadat, disc, dma, fault>>

\* A read at a density that is not the disc's: an interrupt, and no result.
ReadIdFm ==
    /\ Calling("READ_ID_FM") /\ fdccallback' = FALSE
    /\ CommandOver /\ irq' = TRUE /\ st0' = parameters[0]
    /\ UNCHANGED <<status, data, track, place, dmadat, disc, dma, fault>>

Seven   == <<"st0", "st1", "st2", "track", "head", "sector", "size">>
Zeroing == <<"st0", "st1", "st2", "zero", "zero", "zero", "zero">>

\* Mutant: the command never ends.
SendResult_NoEnd(k, names) ==
    /\ IF k = 1 THEN fdcsend(names[k]) ELSE fdcsend2(names[k])
    /\ commandpos' = commandpos + 1 /\ fdccallback' = FALSE
    /\ UNCHANGED phase

\* The k-th result byte. The first one interrupts, the last one ends the command.
SendResult(k, names) ==
    /\ IF k = 1 THEN fdcsend(names[k]) ELSE fdcsend2(names[k])
    /\ commandpos' = commandpos + 1 /\ fdccallback' = FALSE
    /\ IF k = Len(names) THEN CommandOver ELSE UNCHANGED phase

\* Results that begin with the callback. A position behind the last is an
\* error: READ_ID exits there, the others print a message and go on.
ResultsOnly(c, names) ==
    /\ Calling(c)
    /\ IF commandpos < Len(names)
       THEN SendResult(commandpos + 1, names) /\ UNCHANGED fault
       ELSE fault' = TRUE /\ fdccallback' = FALSE /\ commandpos' = commandpos + 1 /\ UNCHANGED <<regs, phase>>
    /\ UNCHANGED <<track, oldpos, st0, dmadat, disc, dma>>

Wrapped(s) == IF s > LastSector THEN 0 ELSE s

ReadId ==
    /\ ResultsOnly("READ_ID", Seven)
    /\ sector' = IF commandpos' = 7 THEN Wrapped(Wrapped(sector) + 1) ELSE Wrapped(sector)

VerifyData == ResultsOnly("VERIFY_DATA", Seven) /\ sector' \in {parameters[5], parameters[7]}

FormatTrack == ResultsOnly("FORMAT_TRACK", Zeroing) /\ UNCHANGED sector

\* After the results the position has no case; nothing asks for it.
TransferResult(c, k) ==
    /\ Calling(c) /\ k >= 1
    /\ IF k <= 7 THEN SendResult(k, Seven)
       ELSE commandpos' = commandpos + 1 /\ fdccallback' = FALSE /\ UNCHANGED <<regs, phase>>
    /\ UNCHANGED <<track, sector, oldpos, st0, dmadat, disc, dma, fault>>

\* The position after byte n of the sector: the next sector starts at 0.
NextByte(n, end) ==
    /\ sector' = IF n = end THEN sector + 1 ELSE sector
    /\ commandpos' = IF n = end /\ sector' <= parameters[5] THEN 0 ELSE n

\* A byte of the disc is offered to the DMA.
ReadByte ==
    /\ Calling("READ_DATA") /\ commandpos < Size
    /\ fdccallback' = FALSE /\ dma' = TRUE
    /\ dmadat' = disc[st0][track][sector][commandpos]
    /\ NextByte(commandpos + 1, Size)
    /\ UNCHANGED <<regs, track, phase, oldpos, st0, disc, fault>>

\* The byte the DMA brought is stored; the next one is asked for, or at the
\* end of a sector, first the countdown starts again.
WriteByte ==
    /\ Calling("WRITE_DATA") /\ commandpos <= Size
    /\ disc' = IF commandpos = 0 THEN disc
               ELSE Stored(disc, st0, track, sector, commandpos - 1, dmadat)
    /\ NextByte(commandpos + 1, Size + 1)
    /\ dma' = (commandpos # Size) /\ fdccallback' = (commandpos = Size)
    /\ UNCHANGED <<regs, track, phase, oldpos, st0, dmadat, fault>>

\* Mutant: the last byte goes to where the next one would.
WriteLast_OffByOne ==
    /\ Calling("WRITE_DATA") /\ commandpos = Tc
    /\ disc' = Stored(disc, st0, track, sector, oldpos % Size, dmadat)
    /\ commandpos' = Size + 1 /\ sector' = sector + 1 /\ fdccallback' = TRUE
    /\ UNCHANGED <<regs, track, phase, oldpos, st0, dmadat, dma, fault>>

\* The byte that came with terminal count.
WriteLast ==
    /\ Calling("WRITE_DATA") /\ commandpos = Tc
    /\ disc' = Stored(disc, st0, track, sector, oldpos - 1, dmadat)
    /\ commandpos' = Size + 1 /\ sector' = sector + 1 /\ fdccallback' = TRUE
    /\ UNCHANGED <<regs, track, phase, oldpos, st0, dmadat, dma, fault>>

fdc_callback ==
    \/ ResetDone
    \/ \E c \in {"SPECIFY", "CONFIGURE"} : Setup(c)
    \/ Movement("RECALIBRATE", 0)
    \/ Movement("SEEK", parameters[1])
    \/ SenseDriveStatus \/ SenseInterruptStatus
    \/ ReadId \/ ReadIdFm \/ VerifyData \/ FormatTrack
    \/ TransferResult("READ_DATA", commandpos + 1 - Size)
    \/ commandpos # Tc /\ TransferResult("WRITE_DATA", commandpos - Size)
    \/ ReadByte \/ WriteByte \/ WriteLast

-----------------------------------------------------------------------------
NextParameter == \E v \in ParameterBytes(curparam) : WriteParameter(v)
AnswerDma ==
    \E tc \in BOOLEAN : fdc_dma_read(tc) \/ \E v \in Values : fdc_dma_write(v, tc)

Next ==
    \/ \E pulse \in BOOLEAN : WriteDor(pulse)
    \/ ReadStatus
    \/ \E r \in {0, Density} : SetRate(r)
    \/ \E c \in Commands : WriteCommand(c)
    \/ NextParameter \/ ReadData \/ AnswerDma
    \/ fdc_callback

\* The machine thread goes on counting down, and the guest goes on with the
\* command it has begun. Nothing makes it begin one.
Fairness == WF_vars(fdc_callback) /\ WF_vars(NextParameter) /\ WF_vars(ReadStatus)
            /\ WF_vars(ReadData) /\ WF_vars(AnswerDma)

Spec == Init /\ [][Next]_vars /\ Fairness

-----------------------------------------------------------------------------
FlagsOK ==
    /\ reset \in BOOLEAN /\ incommand \in BOOLEAN /\ fdccallback \in BOOLEAN
    /\ irq \in BOOLEAN /\ dma \in BOOLEAN /\ awaiting \in BOOLEAN /\ fault \in BOOLEAN
ControlOK ==
    /\ status \subseteq {"RQM", "DIO", "CB", "D0"} /\ data \in Results
    /\ command \in Commands \cup {"none"} /\ params \in 0 .. 8 /\ curparam \in 0 .. 8
    /\ rate \in {0, Density}
ParametersOK ==
    parameters \in [0 .. 9 -> Int] /\ \A i \in 0 .. 9 : parameters[i] \in ParameterBytes(i)
PlaceOK ==
    /\ commandpos \in 0 .. Size + 8 \cup {Tc} /\ oldpos \in 0 .. Size
    /\ st0 \in Drives /\ track \in Tracks /\ sector \in 0 .. LastSector + 1
DataOK == dmadat \in Values /\ disc \in Disc

\* Every variable keeps its type: in particular a transfer's place on the
\* disc stays inside the sector array, and commandpos inside what the
\* switches of fdc_callback know or never ask for (fdc.c:55-78, 565).
TypeOK == FlagsOK /\ ControlOK /\ ParametersOK /\ PlaceOK /\ DataOK

\* A guest that heeds the main status register, whatever it calls in which
\* order, never meets "FDC already in command", "Bad ReadID command pos", "Bad
\* FormatTrack command pos" or "Bad VerifyData command pos" (fdc.c:426, 743,
\* 785, 811).
NeverFatal == ~fault

-----------------------------------------------------------------------------
\* What the controller's state stands for.
PhaseOf ==
    IF reset /\ awaiting THEN "reset"
    ELSE IF "DIO" \in status THEN "results"
    ELSE IF incommand THEN IF curparam < params THEN "parameters" ELSE "execution"
    ELSE IF "RQM" \in status THEN "idle" ELSE "silent"

\* Results offered so far, and how many a command has.
SentOf ==
    IF PhaseOf # "results" THEN 0
    ELSE IF command = "SENSE_DRIVE_STATUS" THEN 1
    ELSE commandpos - (IF command = "READ_DATA" THEN Size
                       ELSE IF command = "WRITE_DATA" THEN Size + 1 ELSE 0)
Answers(c) ==
    CASE c = "SENSE_DRIVE_STATUS" -> 1
      [] c = "SENSE_INTERRUPT_STATUS" -> 2
      [] c \in Transfers \cup {"READ_ID", "FORMAT_TRACK"} -> 7
      [] c \in {"SPECIFY", "RECALIBRATE", "SEEK", "CONFIGURE", "DUMPREG", "READ_ID_FM", "none"} -> 0

\* What holds in each phase, for the proofs: the place of a transfer, and that
\* the guest and the countdown take turns. Only results of
\* SENSE_INTERRUPT_STATUS are offered while the countdown runs. While a reset is
\* armed the countdown runs, except where the guest may write a command or
\* parameters: DUMPREG may have stopped it.
Last == IF parameters[5] > parameters[3] THEN parameters[5] ELSE parameters[3]
Transferring ==
    /\ track = parameters[1] /\ sector >= parameters[3]
    /\ dma <=> ~fdccallback
    /\ command = "READ_DATA" =>
        /\ commandpos \in 0 .. Size
        /\ commandpos < Size => sector <= Last
        /\ commandpos = Size /\ dma => sector = Last + 1
    /\ command = "WRITE_DATA" =>
        /\ commandpos \in 0 .. Size + 1 \cup {Tc}
        /\ dma => commandpos \in 1 .. Size
        /\ commandpos # Size + 1 => sector <= Last
        /\ commandpos = Tc => oldpos \in 1 .. Size
Working ==
    IF command \in {"READ_DATA", "WRITE_DATA"} THEN Transferring
    ELSE fdccallback /\ ~dma /\ commandpos = 0
Answering ==
    /\ ~dma /\ SentOf \in 1 .. Answers(command)
    /\ incommand <=> SentOf < Answers(command)
    /\ "RQM" \notin status => incommand
    /\ fdccallback <=> reset \/ "RQM" \notin status \/ (incommand /\ command = "SENSE_INTERRUPT_STATUS")
PhaseInv ==
    /\ awaiting /\ reset => ~irq
    /\ reset => ~dma /\ (PhaseOf \notin {"idle", "parameters"} => fdccallback)
    /\ PhaseOf \in {"silent", "idle"} => ~dma /\ (fdccallback => reset)
    /\ PhaseOf = "parameters" => ~dma /\ (fdccallback => reset) /\ commandpos = 0
    /\ PhaseOf = "execution" => incommand /\ curparam = params /\ "RQM" \notin status
    /\ PhaseOf = "execution" /\ ~reset => Working
    /\ PhaseOf = "results" => Answering
CommandInv ==
    IF incommand
    THEN /\ command \in Commands \ {"DUMPREG"} /\ params = ParametersOf(command) /\ curparam \in 0 .. params
    ELSE params = 0 /\ curparam = 0
FdcInv == TypeOK /\ NeverFatal /\ PhaseInv /\ CommandInv

Executes(c) == ~reset /\ PhaseOf = "execution" /\ command = c
OverOf ==
    \/ Executes("READ_DATA")  /\ commandpos = Size /\ ~dma
    \/ Executes("WRITE_DATA") /\ commandpos \in {Size + 1, Tc}
FullOf ==
    Executes("WRITE_DATA") /\ ~dma /\ (commandpos \in 1 .. Size \/ commandpos = Tc)
MovedOf ==
    LET before == (sector - parameters[3]) * Size IN
    IF Executes("READ_DATA") /\ ~OverOf
    THEN before + (IF commandpos = Size THEN 0 ELSE commandpos)
    ELSE IF Executes("WRITE_DATA") /\ commandpos # Size + 1
    THEN before + (IF commandpos = 0 THEN 0 ELSE (IF commandpos = Tc THEN oldpos ELSE commandpos) - 1)
    ELSE 0

LeftOf  == IF PhaseOf = "parameters" THEN params - curparam ELSE 0
OfferOf == PhaseOf = "results" /\ "RQM" \in status

Controller == INSTANCE Floppy WITH
    phase <- PhaseOf, doomed <- reset, cmd <- command, args <- parameters, left <- LeftOf,
    offer <- OfferOf, sent <- SentOf, fifo <- data,
    request <- dma, latch <- dmadat, full <- FullOf, over <- OverOf, moved <- MovedOf

\* The controller is a floppy controller to its guest: no byte of a transfer
\* is lost, doubled or stored elsewhere, each command gives its results in
\* order or, if a reset is armed before it has ended, is forgotten, and none of
\* it depends on how the countdown and the guest's accesses interleave
\* (fdc.c:321-849).
FloppyController == Controller!Spec

\* A command that was begun ends, if the guest goes on with it (fdc.c:565).
CommandsEnd == incommand ~> ~incommand
=============================================================================
