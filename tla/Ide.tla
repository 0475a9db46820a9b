--------------------------------- MODULE Ide ---------------------------------
(***************************************************************************)
(* The IDE channel: a hard disc as drive 0 and the ATAPI CD-ROM as drive   *)
(* 1, with the driver that uses them.  A command leaves a countdown behind *)
(* (idecallback); when it is out, callbackide goes on with the command.    *)
(* What the callback does depends on the registers as they are then.       *)
(*                                                                         *)
(* Words stand for data: a sector is BlockSize words, a command packet one *)
(* and pos counts words.  The driver waits for an interrupt where the      *)
(* device promises one, and may reset channel or machine at any time.      *)
(***************************************************************************)
EXTENDS Naturals, Sequences

CONSTANTS
    Cap,           \* blocks of the disc image the driver uses
    BlockSize,     \* words in a block
    Spts, Hpcs,    \* sectors per track and heads a driver may specify
    MaxCount,      \* most sectors in a transfer
    Packets,       \* the ATAPI packets the driver sends
    Abandons       \* may a reset come in the data phase of MODE SELECT?

ASSUME IdeAssumption == Cap \in Nat \ {0} /\ BlockSize \in Nat \ {0, 1} /\ MaxCount \in Nat \ {0}
    /\ Abandons \in BOOLEAN /\ Spts \subseteq Nat \ {0} /\ Hpcs \subseteq Nat \ {0}

VARIABLES
    ide,           \* the registers and the buffer
    idecallback,   \* is a callback due?
    ideirq,        \* IOMD_IRQB_IDE
    disc,          \* the image file: block -> words
    guest          \* the driver: "idle", waiting for an "irq", moving "data", in "reset", at "boot"

idevars == <<ide, idecallback, ideirq, disc, guest>>

Blocks == 0 .. Cap - 1
Zero   == <<"zero">>
One    == <<"one">>
Words  == {Zero, One}
Zeros  == [i \in 1 .. BlockSize |-> Zero]
Cd(b)  == [i \in 1 .. BlockSize |-> <<"cd", b, i>>]

DataCommands == {"READ", "WRITE", "FORMAT"}
OtherCommands == {"SRST", "RESTORE", "VERIFY", "PIDENTIFY", "SETIDLE1", "IDENTIFY", "PACKETCMD"}
\* Packets: those answered without data, with data, from the driver, and READ CD.
Silent  == {"TEST_UNIT_READY", "PLAY_AUDIO_12", "PAUSE_RESUME", "SEEK_CD"}
Answers == {"READ_TOC", "READ_HEADER", "MODE_SENSE_10", "READ_SUBCHANNEL"}
Always  == {"SET_SPEED", "START_STOP_UNIT", "REQUEST_SENSE", "INQUIRY", "UNKNOWN"}
ASSUME PacketAssumption ==
    \A p \in Packets : \/ p \in {<<q>> : q \in Silent \cup Answers \cup Always \cup {"MODE_SELECT_10"}}
                       \/ p[1] = "READ_CD" /\ p[2] \in Blocks /\ p[3] \in 1 .. Cap - p[2]

-----------------------------------------------------------------------------
IDE_DRIVE_IS_CDROM(i) == i.drive = 1
\* The sector offset for the register values, and the next one.
ide_get_sector(i) == (i.cylinder * i.hpc + i.head) * i.spt + i.sector - 1
\* Mutant: the cylinder does not advance.
ide_next_sector_NoCarry(i) ==
    IF i.sector < i.spt THEN [i EXCEPT !.sector = @ + 1]
    ELSE [i EXCEPT !.sector = 1, !.head = IF @ + 1 = i.hpc THEN 0 ELSE @ + 1]
ide_next_sector(i) ==
    IF i.sector # i.spt THEN [i EXCEPT !.sector = @ + 1]
    ELSE IF i.head + 1 # i.hpc THEN [i EXCEPT !.sector = 1, !.head = @ + 1]
    ELSE [i EXCEPT !.sector = 1, !.head = 0, !.cylinder = @ + 1]
Fill(i, words) == [i EXCEPT !.buffer = [k \in 0 .. BlockSize |-> IF k < BlockSize THEN words[k + 1] ELSE @[k]]]
BufferWords(i) == [k \in 1 .. BlockSize |-> i.buffer[k - 1]]

\* An outcome of device code: registers, countdown, interrupt and image file.
Out(i, cb, q, d) == [ide |-> i, cb |-> cb, irq |-> q, disc |-> d]
ide_irq_raise(i) == Out(i, FALSE, TRUE, disc)
Abort(i) == ide_irq_raise([i EXCEPT !.atastat = "ERR"])
Drq(i)   == [i EXCEPT !.atastat = "DRQ", !.pos = 0]
DataIn(i, status, len) == [i EXCEPT !.packetstatus = status, !.packlen = len, !.pos = 0, !.secount = 2]

-----------------------------------------------------------------------------
\* ATAPI.  The medium may come and go, so ready is any answer each time.
atapi_notready(i) == Out([i EXCEPT !.atastat = "ERR", !.packetstatus = 128], TRUE, ideirq, disc)
ReadCd(i, at, n) == Fill([DataIn(i, 6, BlockSize) EXCEPT !.cdpos = at + 1, !.cdlen = n - 1], Cd(at))
CommandDone(i) == Out([i EXCEPT !.packetstatus = 2], TRUE, ideirq, disc)
Answer(i) == Out(Fill(DataIn(i, 3, 1), Zeros), TRUE, ideirq, disc)
\* MODE SELECT comes here twice: for the packet, and when its data have arrived.
ModeSelect(i) ==
    IF i.packetstatus = 5
    THEN ide_irq_raise([i EXCEPT !.atastat = "NONE", !.packetstatus = 255, !.pos = 0])
    ELSE Out(DataIn(i, 4, 1), TRUE, ideirq, disc)
UnknownOpcode(i) == atapi_notready(i)      \* other sense bytes, the same ending
atapicommand(i, ready) ==
    LET p == i.buffer[0]
    IN IF p[1] \notin Always /\ ~ready THEN atapi_notready(i)
       ELSE CASE p[1] \in Silent \cup {"SET_SPEED", "START_STOP_UNIT"} -> CommandDone(i)
              [] p[1] \in Answers \cup {"REQUEST_SENSE", "INQUIRY"} -> Answer(i)
              [] p[1] = "READ_CD" -> Out(ReadCd(i, p[2], p[3]), TRUE, ideirq, disc)
              [] p[1] = "MODE_SELECT_10" -> ModeSelect(i)
              [] OTHER -> UnknownOpcode(i)
\* After a block of READ CD: the next, or a callback to say that it is over.
\* Mutant: blocks are not counted.
callreadcd_Endless(i) ==
    Out([ReadCd(i, i.cdpos, i.cdlen) EXCEPT !.atastat = "BUSY", !.cdpos = i.cdpos, !.cdlen = i.cdlen],
        TRUE, FALSE, disc)
callreadcd(i) ==
    IF i.cdlen = 0 THEN Out([i EXCEPT !.packetstatus = 2], TRUE, FALSE, disc)
    ELSE Out([ReadCd(i, i.cdpos, i.cdlen) EXCEPT !.atastat = "BUSY"], TRUE, FALSE, disc)

PacketCallback(i, ready) ==
    CASE i.packetstatus = 0   -> ide_irq_raise(Drq(i))
      [] i.packetstatus = 1   -> atapicommand([i EXCEPT !.atastat = "BUSY"], ready)
      [] i.packetstatus = 2   -> ide_irq_raise([i EXCEPT !.atastat = "READY"])
      [] i.packetstatus = 3   -> ide_irq_raise([i EXCEPT !.atastat = "DRQ", !.packetstatus = 255])
      [] i.packetstatus = 4   -> ide_irq_raise([i EXCEPT !.atastat = "DRQ", !.pos = 1])
      [] i.packetstatus = 5   -> atapicommand(i, ready)
      [] i.packetstatus = 6   -> ide_irq_raise([i EXCEPT !.atastat = "DRQ"])
      [] i.packetstatus = 128 -> ide_irq_raise([i EXCEPT !.atastat = "ERR"])
      [] OTHER -> Out(i, FALSE, ideirq, disc)

-----------------------------------------------------------------------------
\* callbackide: the disc's commands at the sector the registers name.
Formatted(i) == [b \in Blocks |-> IF b \in ide_get_sector(i) .. ide_get_sector(i) + i.secount - 1
                                  THEN Zeros ELSE disc[b]]
ResetCallback(i) ==
    Out([i EXCEPT !.atastat = "READY", !.secount = 1, !.sector = 1, !.head = 0, !.cylinder = 0,
                  !.reset = FALSE], FALSE, ideirq, disc)
WriteCallback(i) ==
    LET d == [disc EXCEPT ![ide_get_sector(i)] = BufferWords(i)]
    IN IF i.secount = 1 THEN Out([i EXCEPT !.secount = 0, !.atastat = "READY"], FALSE, TRUE, d)
       ELSE Out(Drq(ide_next_sector([i EXCEPT !.secount = @ - 1])), FALSE, TRUE, d)
callbackide(i, ready) ==
    LET cd == IDE_DRIVE_IS_CDROM(i)
    IN IF i.reset THEN ResetCallback(i)
       ELSE
       CASE i.command = "SRST" ->
              ide_irq_raise([i EXCEPT !.atastat = "READY", !.secount = 1, !.sector = 1, !.cylinder = 0])
         [] i.command \in {"RESTORE", "VERIFY"} /\ ~cd -> ide_irq_raise([i EXCEPT !.atastat = "READY"])
         [] i.command = "READ" /\ ~cd -> ide_irq_raise(Fill(Drq(i), disc[ide_get_sector(i)]))
         [] i.command = "WRITE" /\ ~cd -> WriteCallback(i)
         [] i.command = "FORMAT" /\ ~cd ->
              Out(Fill([i EXCEPT !.atastat = "READY"], Zeros), FALSE, TRUE, Formatted(i))
         [] i.command = "SPECIFY" /\ ~cd ->
              ide_irq_raise([i EXCEPT !.spt = i.secount, !.hpc = i.head + 1, !.atastat = "READY"])
         [] (i.command = "PIDENTIFY" /\ cd) \/ (i.command = "IDENTIFY" /\ ~cd) -> ide_irq_raise(Fill(Drq(i), Zeros))
         [] i.command = "IDENTIFY" /\ cd ->
              Abort([i EXCEPT !.secount = 1, !.sector = 1, !.cylinder = 0, !.drive = 0, !.head = 0])
         [] i.command = "PACKETCMD" -> PacketCallback(i, ready)
         [] OTHER -> Abort(i)

\* The word that ends a block calls callbackide at once, or leaves a countdown.
readidew(i) ==
    LET end == i.pos + 1 >= (IF i.command = "PACKETCMD" THEN i.packlen ELSE BlockSize)
        over == [i EXCEPT !.pos = 0, !.atastat = "READY", !.packetstatus = 0]
    IN IF ~end THEN Out([i EXCEPT !.pos = @ + 1], idecallback, ideirq, disc)
       ELSE IF i.command = "PACKETCMD" /\ i.packetstatus = 6 THEN callreadcd([i EXCEPT !.pos = 0])
       ELSE IF i.command # "READ" THEN Out(over, idecallback, ideirq, disc)
       ELSE IF i.secount = 1 THEN Out([over EXCEPT !.secount = 0], idecallback, ideirq, disc)
       ELSE callbackide(ide_next_sector([over EXCEPT !.secount = @ - 1, !.atastat = "BUSY"]), TRUE)
StoredWord(i, w) == [i EXCEPT !.buffer[i.pos] = w, !.pos = @ + 1]
writeidew(i, w) ==
    LET s == StoredWord(i, w)
    IN IF i.packetstatus = 4 /\ s.pos >= i.packlen + 1
       THEN Out([s EXCEPT !.packetstatus = 5], TRUE, FALSE, disc)
       ELSE IF i.packetstatus \in {4, 5} THEN Out(s, idecallback, ideirq, disc)
       ELSE IF i.command = "PACKETCMD"
       THEN Out([s EXCEPT !.pos = 0, !.atastat = "BUSY", !.packetstatus = 1], TRUE, ideirq, disc)
       ELSE IF s.pos >= BlockSize THEN callbackide([s EXCEPT !.pos = 0, !.atastat = "BUSY"], TRUE)
       ELSE Out(s, idecallback, ideirq, disc)

-----------------------------------------------------------------------------
\* Register writes.  Selecting the other drive ends whatever was in progress, and
\* loses the head written with it.
Select(i, d, h) ==
    IF d = i.drive THEN [i EXCEPT !.head = h, !.pos = 0, !.atastat = "READY"]
    ELSE [i EXCEPT !.head = 0, !.drive = d, !.pos = 0, !.atastat = "READY", !.reset = FALSE,
                   !.secount = 1, !.sector = 1, !.cylinder = 0, !.command = "NONE",
                   !.packetstatus = 0, !.packlen = 0, !.cdpos = 0, !.cdlen = 0,
                   !.buffer = [k \in 0 .. BlockSize |-> IF k < BlockSize THEN Zero ELSE @[k]]]
TaskFile(i, count, sector, cylinder) ==
    [i EXCEPT !.secount = count, !.sector = sector, !.cylinder = cylinder]
\* Mutant: READ arms no countdown.
Command_NoCountdown(i, c) ==
    Out([i EXCEPT !.command = c, !.atastat = IF c \in {"WRITE", "FORMAT"} THEN "DRQ" ELSE "BUSY",
                  !.pos = 0, !.packetstatus = 0], c \notin {"READ", "WRITE", "FORMAT"}, ideirq, disc)
Command(i, c) ==
    CASE c \in {"SRST", "RESTORE"} -> Out([i EXCEPT !.command = c, !.atastat = "READY"], TRUE, ideirq, disc)
      [] c \in {"WRITE", "FORMAT"} -> Out([Drq(i) EXCEPT !.command = c], idecallback, ideirq, disc)
      [] c = "PACKETCMD" ->
           Out([i EXCEPT !.command = c, !.atastat = "BUSY", !.packetstatus = 0, !.pos = 0], TRUE, ideirq, disc)
      [] OTHER -> Out([i EXCEPT !.command = c, !.atastat = "BUSY"], TRUE, ideirq, disc)

-----------------------------------------------------------------------------
\* The driver and the emulator's main loop
Take(o) == ide' = o.ide /\ idecallback' = o.cb /\ ideirq' = o.irq /\ disc' = o.disc
Settled(o) == CASE o.ide.atastat = "DRQ" -> "data"
                [] o.ide.atastat = "BUSY" -> "irq"
                [] OTHER -> "idle"
\* Drive and head are selected with one write of their register, or with two: after
\* one that changed the drive the registers name head 0.
Selections(d, h) == LET once == Select(ide, d, h) IN {once, Select(once, d, h)}
\* It selects, fills the task file and gives the command.
Issue(i, count, sector, cylinder, c) ==
    LET o == Command(TaskFile(i, count, sector, cylinder), c)
    IN /\ guest = "idle"
       /\ Take([o EXCEPT !.irq = FALSE])         \* it reads the status first
       /\ guest' = IF c \in {"WRITE", "FORMAT"} THEN "data" ELSE "irq"
StartTransfer ==
    \E c \in DataCommands, d \in {0, 1}, n \in 1 .. MaxCount, s \in Spts, h \in Hpcs, cyl \in Blocks :
      \E i \in Selections(d, h - 1) :
        /\ s <= ide.spt /\ h <= ide.hpc
        /\ ide_get_sector(TaskFile(i, n, s, cyl)) + n <= Cap   \* bound
        /\ Issue(i, n, s, cyl, c)
\* No code checks that a packet goes to the CD: a driver asks with PIDENTIFY first.
StartOther ==
    \E c \in OtherCommands, d \in {0, 1} : (c = "PACKETCMD" => d = 1) /\ Issue(Select(ide, d, 0), 1, 1, 0, c)
Specify ==
    \E s \in Spts, h \in Hpcs, d \in {0, 1} :
      \E i \in Selections(d, h - 1) : Issue(i, s, 1, 0, "SPECIFY")
\* An interrupt: the driver reads the status, which lowers it.
Interrupt ==
    /\ guest = "irq" /\ ideirq /\ ideirq' = FALSE
    /\ guest' = Settled([ide |-> ide]) /\ UNCHANGED <<ide, idecallback, disc>>
\* After the last word of a block the alternate status tells whether it is over.
BlockEnded(o) == guest' =
    IF o.ide.pos # 0 /\ o.ide.packetstatus # 5 THEN "data"
    ELSE IF o.ide.atastat \in {"READY", "ERR"} /\ ~o.irq THEN "idle" ELSE "irq"
Writing == ide.command \in {"WRITE", "FORMAT"}
    \/ (ide.command = "PACKETCMD" /\ ide.packetstatus \in {0, 4})
ReadWord == guest = "data" /\ ~Writing /\ Take(readidew(ide)) /\ BlockEnded(readidew(ide))
WriteWord ==
    /\ guest = "data" /\ Writing
    /\ \E w \in IF ide.command = "PACKETCMD" /\ ide.packetstatus = 0
                THEN Packets ELSE {One} :
         Take(writeidew(ide, w)) /\ BlockEnded(writeidew(ide, w))
\* No reset clears packetstatus: left at 4 it diverts the words of the next WRITE.
Resettable == Abandons \/ ide.packetstatus \notin {4, 5}
\* Device control: a pulse of the reset bit, after which the driver polls.
SoftReset ==
    /\ Resettable /\ guest # "reset" /\ guest' = "reset"
    /\ ide' = [ide EXCEPT !.reset = TRUE, !.atastat = "BUSY"] /\ idecallback' = TRUE
    /\ UNCHANGED <<ideirq, disc>>
Polled == guest = "reset" /\ ide.atastat # "BUSY" /\ guest' = "idle" /\ ideirq' = FALSE
          /\ UNCHANGED <<ide, idecallback, disc>>
\* The countdown is out.
Callback == idecallback /\ (\E ready \in BOOLEAN : Take(callbackide(ide, ready))) /\ UNCHANGED guest
\* The machine is reset, the interrupt controller with it.  Only the status and the
\* countdown are set: the driver must begin with a reset of the channel.
resetide ==
    /\ Resettable /\ ide' = [ide EXCEPT !.atastat = "READY"] /\ idecallback' = FALSE
    /\ ideirq' = FALSE /\ guest' = "boot" /\ UNCHANGED disc
Boot == guest = "boot" /\ SoftReset

IdeInit ==
    /\ \E spt \in Spts, hpc \in Hpcs :
         ide = [atastat |-> "READY", command |-> "NONE", secount |-> 0, sector |-> 0, cylinder |-> 0,
                head |-> 0, drive |-> 0, reset |-> FALSE, pos |-> 0,
                buffer |-> [k \in 0 .. BlockSize |-> Zero], packetstatus |-> 0, packlen |-> 0,
                cdpos |-> 0, cdlen |-> 0, spt |-> spt, hpc |-> hpc]
    /\ idecallback = FALSE /\ ideirq = FALSE /\ disc = [b \in Blocks |-> Zeros] /\ guest = "idle"

IdeNext ==
    \/ StartTransfer \/ StartOther \/ Specify \/ Interrupt \/ ReadWord \/ WriteWord
    \/ SoftReset \/ Polled \/ Callback \/ resetide
\* The countdown runs whatever the guest does; the driver goes on with a command.
IdeFairness == WF_idevars(Callback) /\ WF_idevars(Interrupt \/ ReadWord \/ WriteWord \/ Polled \/ Boot)
IdeSpec == IdeInit /\ [][IdeNext]_idevars /\ IdeFairness

-----------------------------------------------------------------------------
\* Types of the registers; pos stays inside the buffer.
IdeTypeOK ==
    /\ ide.atastat \in {"READY", "BUSY", "DRQ", "ERR", "NONE"}
    /\ ide.pos \in 0 .. BlockSize /\ ide.drive \in {0, 1} /\ ide.secount \in 0 .. 2 + MaxCount \cup Spts
    /\ DOMAIN ide.buffer = 0 .. BlockSize
    /\ ide.packetstatus \in 0 .. 6 \cup {128, 255} /\ ide.cdlen \in 0 .. Cap
    /\ idecallback \in BOOLEAN /\ ideirq \in BOOLEAN /\ guest \in {"idle", "irq", "data", "reset", "boot"}
    /\ \A b \in Blocks : disc[b] \in [1 .. BlockSize -> Words]

\* A driver that waits for an interrupt will get one: it is raised, or a callback
\* that raises it is due, in every state of a command and of a packet.
InterruptComes == guest = "irq" => ideirq \/ idecallback

\* What every state satisfies: positions inside the buffer and the registers, and
\* an interrupt for whoever waits for one.
ChannelInv == IdeTypeOK /\ InterruptComes

\* A command that was issued ends, with data, with an error or by a reset.
CommandsEnd == []<>(guest \in {"idle", "boot"})

\* The channel is a block device: each transfer moves the blocks the registers name
\* when its command is given, in order, and no callback, drive selection or stale
\* packet state touches another block.  A driver that changes drive and head with
\* one write has named head 0.
XferOf(i) ==
    LET Now(dir, at, left, words) == [dir |-> dir, at |-> at, left |-> left, words |-> words]
        sofar == [k \in 1 .. i.pos |-> i.buffer[k - 1]]
    IN IF i.reset \/ i.atastat \notin {"BUSY", "DRQ"} THEN Now("none", 0, 0, <<>>)
       ELSE
       CASE i.command = "READ" /\ i.drive = 0 ->
              Now("read", ide_get_sector(i), i.secount, IF i.atastat = "DRQ" THEN sofar ELSE <<>>)
         [] i.command = "WRITE" /\ i.drive = 0 -> Now("write", ide_get_sector(i), i.secount, sofar)
         [] i.command = "FORMAT" /\ i.drive = 0 -> Now("format", ide_get_sector(i), i.secount, sofar)
         [] i.command = "PACKETCMD" /\ i.packetstatus = 6 ->
              Now("read_cd", i.cdpos - 1, i.cdlen + 1, IF i.atastat = "DRQ" THEN sofar ELSE <<>>)
         [] OTHER -> Now("none", 0, 0, <<>>)
Xfer == XferOf(ide)
BD == INSTANCE BlockDevice WITH xfer <- Xfer, Size <- BlockSize
Transfers == BD!Spec
=============================================================================
