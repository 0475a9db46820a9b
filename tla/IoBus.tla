------------------------------- MODULE IoBus -------------------------------
(***************************************************************************)
(* What hangs on the IO bus of the machine.  The parts share no state but   *)
(* the interrupt lines, and a behaviour exercises one of them: the timers   *)
(* with the two threads that drive them, the plain registers of the IOMD,   *)
(* the Super I/O chip, the expansion cards or the extension ROM.            *)
(***************************************************************************)
EXTENDS Iomd, IomdRegisters, SuperIo, Podules, PoduleRom

CONSTANT Parts      \* the parts a behaviour may be of
VARIABLE part

vars == <<part, lines, ivars, rvars, svars, pvars, romvars>>

\* A part a behaviour does not exercise stays as some reset left it.
Only(p, Start) == part = p => Start

Init ==
    /\ part \in Parts
    /\ LinesInit
    /\ IomdInit /\ PodulesInit
    /\ RegistersInit /\ (part # "registers" => type = "IOMD")
    /\ SuperInit /\ (part # "superio" => super = "FDC37C665GT")
    /\ RomInit /\ (part # "rom" => image.files = 0)

TimersPart == part = "timers" /\ IomdNext /\ UNCHANGED <<part, rvars, svars, pvars, romvars>>
RegistersPart == part = "registers" /\ RegistersNext /\ UNCHANGED <<part, lines, ivars, svars, pvars, romvars>>
SuperPart == part = "superio" /\ SuperNext /\ UNCHANGED <<part, ivars, rvars, pvars, romvars>>
PodulesPart == part = "podules" /\ PodulesNext /\ UNCHANGED <<part, ivars, rvars, svars, romvars>>
RomPart == part = "rom" /\ RomNext /\ UNCHANGED <<part, lines, ivars, rvars, svars, pvars>>

Next == TimersPart \/ RegistersPart \/ SuperPart \/ PodulesPart \/ RomPart

(***************************************************************************)
(* The machine thread takes its next step and gets to gentimerirq again     *)
(* (its loop does, whatever the guest runs); the guest's driver reads the   *)
(* port while the GP register tells it of a byte.  Nothing is asked of the  *)
(* video thread: it may stand still between any two of its steps.           *)
(***************************************************************************)
MachineGoesOn == TimersPart /\ (ThreadStep("machine") \/ AbortStore \/ EndOfInstruction)
DriverReads == SuperPart /\ ~exited /\ gp["f"] # {} /\ data_read

Fairness ==
    /\ WF_vars(MachineGoesOn \/ DriverReads)
    /\ SF_vars(TimersPart /\ ~aborts /\ gentimerirq("machine"))

Spec == Init /\ [][Next]_vars /\ Fairness
-----------------------------------------------------------------------------
(* Properties. *)

(* Every field holds a value of its kind, and the bits that force an        *)
(* interrupt are never cleared, whoever writes the status registers back.   *)
TypeOK ==
    /\ Forced \subseteq status /\ status \cup mask \subseteq Bits
    /\ armirq \subseteq {"irq", "fiq", "abort"}
    /\ \A t \in Timers : counter[t] >= Floor /\ latch[t] \in Latches \cup {1}
    /\ gp["f"] \subseteq Sources /\ i8042.command \in {"none", "WRITE_MODE", "WRITE_MOUSE"}
    /\ freepodule \in 0 .. Slots /\ running.slot \in 1 .. Slots

(* What updateirqs leaves wrong, because the other thread's update of the   *)
(* same word came between, does not last: when updateirqs runs again and    *)
(* again, armirq comes to say what the registers say, whatever the guest,   *)
(* the devices and the timers do meanwhile.                                 *)
InterruptsFollow == (part = "timers" /\ []<>At("machine", "irq")) => []<>(Pending("irq") = ("irq" \in armirq))

(* A timer with a latch goes on raising its interrupt, however the two      *)
(* threads that count it down cross, unless the guest keeps setting it.     *)
TimersTick == \A t \in Timers :
    (part = "timers" /\ <>[](latch[t] # 0) /\ <>[][~WriteGo /\ ~WriteLat]_vars) => []<>(t \in status)

(* A register reads as what was last written to it, as far as the chip has  *)
(* room for it (eight or sixteen bits, a DMA address as the quad word it is  *)
(* in), and as 0 on the variants of the chip that lack it.                   *)
ReadsBack == \A r \in Held :
    iomd_read(r) = IF Has(type, r) THEN Shown(r, Kept(r, written[r])) ELSE 0

(* The configuration registers of a 665 open for the key written twice with *)
(* no other write between, those of a 672 for the key.                      *)
KeyOpens == [][config.mode # "configuration" /\ config'.mode = "configuration"
                => last' = "key" /\ (super = "FDC37C665GT" => last = "key")]_<<config>>

(* When a byte comes or goes, the SMI bits tell of the byte the data port   *)
(* gives next, of none when there is none, and the interrupt follows them.  *)
BytesSignalled ==
    [][<<i8042.irq_kbd, i8042.irq_mouse>>' # <<i8042.irq_kbd, i8042.irq_mouse>> =>
        /\ i8042.mode = {} => gp["f"]' = IF i8042'.irq_kbd THEN {"KINT"}
                                         ELSE IF i8042'.irq_mouse THEN {"MINT"} ELSE {}
        /\ ("SMI" \in status') = (gp["e"]' \cap gp["c"]' # {} \/ gp["f"]' \cap gp["d"]' # {})]_<<i8042>>

(* A byte of the mouse that waits behind the keyboard's is told of and read *)
(* in the end, when the keyboard falls silent and neither is disabled.      *)
MouseHeard == (part = "superio" /\ [](i8042.mode = {}) /\ <>[](~i8042.irq_kbd) /\ [](~exited)) => []<>(~i8042.irq_mouse)

(* The lines of all cards are those of the single cards: none is missed and *)
(* none stays behind when handlers and timer callbacks change them.         *)
PodulesAgree ==
    part = "podules" => {b \in status : b \in {"PODULE", "PODULE_FIQ_AS_IRQ", "FIQ_PODULE"}} = Wanted(podules)

(* What every state satisfies: status bits, masks and counters of their     *)
(* types, and lines that agree with the cards.                              *)
IoBusInv == TypeOK /\ PodulesAgree

ChunkEnd(i) == image.chunks[i].base + image.chunks[i].size

(* The chunks of the extension ROM lie in the image, behind its directory,  *)
(* and none over another; the directory has room for every file.  A chunk   *)
(* within 4 MB of the start is read where its entry says it is, to its end. *)
ChunksApart ==
    /\ image.chunkbase <= FirstFile(image.files) /\ image.filebase = image.poduleromsize
    /\ \A i \in DOMAIN image.chunks :
         /\ image.chunks[i].base >= image.chunkbase /\ image.chunks[i].base % 4 = 0
         /\ ChunkEnd(i) <= image.poduleromsize
         /\ image.chunks[i].size > 0 /\ ChunkEnd(i) <= Reach
              => readpodulerom(TRUE, 4 * (ChunkEnd(i) - 1)) = <<"image", ChunkEnd(i) - 1>>
    /\ \A i, j \in DOMAIN image.chunks : i < j => ChunkEnd(i) <= image.chunks[j].base
=============================================================================
