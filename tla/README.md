# RPCEmu for MorphOS: specification and proofs

This directory specifies the emulator of the Acorn RiscPC in `src/src/` in TLA+.
TLC checks every module on small instances; TLAPS proves the main results for
every instance. `PROJECT.json` lists the parts of the system, the runs, the
lines each definition stands for, what the checks found, the hazards and the
theorems.

The program is the one `src/src/Makefile` builds: the interpreter (no code
generator), the machine's devices, and the MorphOS front end `muimain.c` with
its three threads. `fatal` is defined as `printf`, so an error path continues.
Nothing is reset at run time: `main` resets every part once and starts.

## 1. Inventory

| Part | State | Operations | Meets |
|---|---|---|---|
| Processor (`arm.c`, `arm_common.[ch]`) | live registers, banks, SPSRs, `usrregs`, `cpsr`, `memmode`, `armirq` | instructions, `updatemode`, `exception`, loads and stores with aborts, SWIs the emulator answers itself | memory, CP15, IOMD through `armirq`, keyboard (pointer calls), HostFS |
| Translation (`cp15.c`, `mem.[ch]`) | control, table base, domains; seven caches | accesses, fetches, `cp15_write`, invalidation of the screen | processor, display |
| Memory map (`mem.c`) | RAM, VRAM, ROM, the device decoder | `mem_phys_read/write` | every device |
| IOMD (`iomd.c`) | request and mask registers, two timers, DMA addresses | register accesses, `gentimerirq`, `iomd_vsync`, `updateirqs` | every device, processor |
| VIDC20 (`vidc20.c`) | mode, palette, `thr`, two dirty buffers, bitmap | register writes, `drawscr`, `vidcthread` | memory, IOMD, threads |
| PS/2 (`keyboard.c`) | two queues, `command`, `reset`, `kcallback`, status | host writes, callbacks, data reads, `key_press`, mouse | IOMD, user interface |
| CMOS and I2C (`cmos.c`) | serialiser state, PCF8583 address and RAM, the file | edges of SCL and SDA, `savecmos` | IOMD |
| Floppy (`fdc.c`) | command, parameters, `commandpos`, status | register accesses, `fdc_callback`, DMA | IOMD, threads |
| IDE (`ide.c`) | task file, `atastat`, `pos`, `packetstatus` | register accesses, `callbackide` | IOMD, podules, CD-ROM, threads |
| Super I/O (`superio.c`, `i8042.c`) | configuration index, general registers, i8042 status | configuration, SMI, key data | IOMD, floppy, IDE, keyboard |
| Podules (`podules.c`, `podulerom.c`, `icside.c`) | slots, interrupt bits, timers | allocation, accesses, `rethinkpoduleints` | IOMD, IDE |
| HostFS (`hostfs.c`, `hostfs-unix.c`) | open files, directory cache, registration | `hostfs` calls | processor (SWI), the host's files |
| FPA, CD-ROM, ROM loading | registers; file position | arithmetic; file access | |
| Main program (`muimain.c`) | threads, callback counters, `working` | start, the three loops, shutdown | everything |

How they interact. The processor's loads and stores call a device's handler
directly. A device asks for the processor by setting a request bit in IOMD and
calling `updateirqs`, which sets bits 0 and 1 of `armirq`; the interpreter
looks at `armirq` after each instruction. Slow devices do not act at once:
they set a countdown (`kcallback`, `mcallback`, `fdccallback`, `idecallback`),
which the machine thread decrements between slices of `execarm` and which calls
the device at zero. The user interface thread calls `key_press` and
`mouse_mouse_move` directly; `drawscr` hands frames to the video thread through
`thr` and a condition variable.

What is hard in this code:

* Threads. The machine, video and user interface threads share everything, and
  `vidctrymutex` takes no lock. `main` also runs a slice of `execarm` and a
  `drawscr` after it has started the machine thread.
* Copies. Translations live in seven caches, the mode in six places, the status
  in two; the screen in VRAM, dirty buffers, bitmap and window.
* Countdowns. A callback may run after the guest has given the device another
  command, or never when a command overwrote the reason for it.
* Bits that accumulate. Interrupt requests, masks and `armirq` are updated by
  two threads, and some writes (the FIQ and DMA masks) call no `updateirqs`.
* Steps that fail half-way. A load or store of several registers aborts on one
  of its pages and is executed again; a file is renamed while bytes put in it
  wait in a buffer; a reset comes in the middle of a command.
* Boundaries. FIFOs, queues, the open file table and counters have limits.

What makes each part correct:

* Processor: the banks behave as a register file per mode; user mode stays
  confined; an aborted instruction can be repeated and comes to the same end.
* Translation: nothing is answered from before a flush; each entry can be found
  again; the screen invalidation reaches every pointer.
* Display: a changed page is always redrawn; the buffers are not shared; flyback
  interrupts keep coming.
* IOMD: `armirq` agrees with requests and masks; timers keep time; an unmasked
  request is eventually taken.
* PS/2: every byte is announced, a transmission ends, keys do not stick; a cursor
  that is not linked to the mouse stays put.
* CMOS: the guest sees a byte memory with an increasing address; the bus is
  ready again after a stop.
* Floppy, IDE: a command ends with its interrupt, each byte of a transfer
  reaches its place once, and results come in order.
* Podules, Super I/O: an interrupt line is up exactly while its source asks.
* HostFS: the host's directory is a RISC OS catalogue in which one name means one
  object; a handle means one open file until it is closed; a listing is complete.
* Main program: each countdown fires once; memory is not freed while it is used.

## 2. Plan

The modules were written in the order of how much of the machine rests on them:

1. `Mmu`; `Vidc`; `ArmTypes`, `ArmBanks`, `ArmModes`; `CmosTypes`, `I2cMemory`,
   `Cmos`; `FdcTypes`, `Floppy`, `Fdc`, with their proofs.
2. `HostFs` against `FilingSystem`; `Ide` against `BlockDevice`.
3. `Ps2Queue`, `Keyboard`, `Mouse`, `MouseHack`, composed in `Ps2`.
4. `IrqLines`, `Iomd`, `IomdRegisters`, `SuperIo`, `Podules`, `PoduleRom`,
   composed in `IoBus`.
5. `Transfers`, with its proofs; `IoBusProofs`.
6. `DeviceProofs`: the proofs of `Ps2` and of `Ide`; `HostFsProofs`.

Five modules are promises, written from the outside and without the code's
variables: `ArmBanks` (a register file per mode), `I2cMemory` (a byte memory on a
bus), `Floppy` (a controller), `FilingSystem` (a catalogue), `BlockDevice` (a
channel that moves whole blocks). Each detailed module has a mapping to its
promise, and a run checks the promise as a property.

`IoBus` and `Ps2` compose parts of which a behaviour exercises one: they share
nothing but the interrupt bits, and every part sets only its own.

What could come next: a module for the order of shutdown in `muimain.c`
(the memories are freed while threads that were cancelled may still run), and SWP
and coprocessor transfers in `Transfers`.

## 3. Modules

### Mmu (translation caches)

A 4 KB page is the unit; a section is the set of its pages. A host pointer is
the frame it points into. `tables` is what the guest wrote in RAM; `Desc` is a
walk. Variables have the code's names; `memcache` gathers `readmemcache`,
`writememcache` and `writemembcache`. `legit` is a history variable: what the
tables granted each page since the last `cp15_tlb_flush_all`. Actions: `Read`,
`ReadUnmapped`, `Write`, `Fetch` (accesses), `TakeAbort`, `updatemode`, the
registers of `cp15_write` (`Control`, `TranslationTableBase`,
`DomainAccessControl`, `TlbOperation`, `FlushCache`), `StoreDescriptor` (the
guest edits its tables without a flush) and `cp15_tlb_invalidate_physical`,
called by `drawscr`. Statics start as zero where the code leaves them so. Falling
off the end of `getpccache` returns whatever the register held: a free choice.
Names with a suffix (`vwadd_KeepPhys`) are the wrong forms the mutants use, here
and in every module.

Two things the model shows and no run asserts. A hit in `vraddrl`, `vwaddrl` or
`tlbcache` is used without a check of permissions (`mem.h:72`), so a page cached
in a privileged mode can be used in another until it is evicted or flushed (a
mode change flushes nothing); `Fresh` is about what the tables granted to some mode. And
`cp15_tlb_invalidate_physical` uses the mark of an empty slot, 0xffffffff, as an
index (`cp15.c:123`); `stray` records it.

### Vidc (display)

`drawscr` is one step per access to shared state (`Copy` to
`vidcwakeupthread`), for each thread that calls it; `vidcthread` is `Row`,
`Plot`, `Finish`, `Update`. A page of the screen is one value; `vidpLive` says
whether the row pointer still points into the bitmap. The guest stores, loads
palette entries, changes the mode and clears the flyback bit at any time its
thread is in `execarm`. `Threads` may hold `"ui"`: `main` draws and runs a slice
itself after it has started the machine thread (`muimain.c:724-725`). Two swaps
of the buffers then cross and `BuffersApart` fails; the runs and the theorems are
for the time after start-up, `Threads = {"emu"}`.

### ArmTypes, ArmBanks, ArmModes (processor)

A word has the four fields R15 has in a 26-bit mode, so that a register holding
a status, a link and R15 are all one type. `ArmModes` has `updatemode`'s copies
in and out of the banks and one action per way an instruction writes registers
or status. Data processing, loads and branches write R15 through `r15_mask`
(`WritePc`), S-bit writes and TEQP as privilege allows, and four kinds of
instruction write it raw, in any mode and without `updatemode`: multiplies, MRS
and the writeback of a base (`WriteR15`), and MRC, which replaces the bits outside
the mask (`CoprocessorR15`, `arm.c:1873`). In a 26-bit mode such a write changes
flags and interrupt masks at once and names a mode that is not yet in force: the
banks, `cpsr`, `usrregs` and `memmode` stay with `arm.mode` until a TEQP, an S-bit
write or an MRS followed by an MSR compares the two. So the promise tells the mode
in force from the mode that is named (in the status, and in `reg[16]`, its `noted`),
and `UserModeConfined` says what is so: User mode code can itself change the masks and
name a privileged mode by a raw write, and by nothing else but an exception.
An instruction that sets flags or writes back its base besides its destination
is two steps. `ArmBanks` is the promise: one cell per register and bank, a status,
an address. `Abstract` in `ArmModes` is the refinement mapping: a User cell is
where `usrregs` points, a current bank is live, the status is where `cpsr` says.

### CmosTypes, I2cMemory, Cmos (I2C bus, CMOS memory and clock)

`Cmos` has one action per branch of `cmosi2cchange`, with the levels the guest
writes as its inputs and the calls into the PCF8583 inside the action that makes
them; `Restart` is the end of the process and the start-up sequence of `main`
(`cmos_init`, `cmos_reset`, `reseti2c`). `bug` records that one of the paths
whose messages say "Bug" was taken, or a null slave called. `I2cMemory` is
written from the other side, as a master sees a memory on an I2C bus: frames of
bits, an acknowledge, a pointer that counts up, the line sampled while the clock
is high. The mapping reads the frame and the bits so far off the serialiser's
state; while a byte is sent the code counts a bit when it puts it out, the
promise when the master has sampled it, so the clock level enters the mapping
(`PosOf`). `i2cclock` never changes and is left out; the slave of the second
address is not attached (`muimain.c:692`); only a refusing slave would reach
`I2C_STATE_NACK_WRITE`.

### FdcTypes, Floppy, Fdc (floppy disc controller)

`Fdc` has one action per access of the guest (`WriteDor`, `WriteCommand`,
`WriteParameter`, `ReadStatus`, `ReadData`, `SetRate`, the two DMA accesses) and
one per case of `fdc_callback`. A countdown is a flag: `fdccallback` says that a
callback is due, and it happens at any later time, before or after whatever
else the guest does. The guest heeds RQM and DIO of the main status register,
answers requests and interrupts before it writes to the DOR, names sectors and
drives that exist and transfers at the disc's rate; terminal count comes with any
byte. Results are their names, and of `st0` the drive is kept. `dor` is never
stored, so each write with bit 2 arms a reset (`fdc.c:327`). After a reset pulse
the guest waits for the interrupt (`awaiting`); after a write that means the motor
(`pulse` false), in whatever phase it comes, the guest goes on: the commands,
parameters and reads of results behind it are taken, and forgotten when
`fdc_callback` finds the armed reset, unless DUMPREG has stopped the countdown
(`fdc.c:460`). `Floppy` is the promise: idle, parameters, execution,
results; a transfer counts bytes from its first sector, and has no notion of a
position in a sector, of `commandpos`, or of a countdown. It says of the armed reset
that it is on its way (`doomed`): nothing is executed any more, and when it comes
everything is forgotten. The mapping reads the
phase off `reset`, `status`, `incommand` and the parameter count, and the bytes
moved off `sector` and `commandpos` (`oldpos` after terminal count).

Two things the promise had to allow: the first result of SENSE INTERRUPT STATUS
is replaced by the track if it is not read in time (`fdc.c:613-622`), and
READ ID at the wrong density ends silent, busy until a reset (`fdc.c:760`). One
thing it does not allow: terminal count clears `st0`, so the last byte of a
write to drive 1 goes to drive 0 (`fdc.c:846`); `FloppyController` is therefore
checked and proved for drive 0, and `Drives = {0, 1}` shows the misplaced byte.

### FilingSystem, HostFs (the guest's filing system on the host)

`HostFs` has one action per call of `hostfs` (`open`, `putbytes`, `args`, `close`,
`file`, `func`, `gbpb` and registration) with everything the handler does:
finding the object by scanning directories, renaming, closing. `tree` maps host
paths to files and directories; the type of a RISC OS file exists only in the
suffix of its host name. `open_file` has the code's entries; `put` is what stdio
has not written yet, so that a write reaches the host at a seek, a close, a
reset, or never. `held` and `listing` are what the guest remembers: its handles
and a directory listing in progress. `FilingSystem` is a catalogue from paths to
objects, in which an operation changes the object it names. `Retypes` says
whether the guest saves a file over one of another type: the code then leaves
two host files with one RISC OS name (the rename announced by the comment at
`hostfs.c:1103` is commented out). The runs take `Retypes = FALSE`; with `TRUE`
`NamesUnique` and `Filing` do not hold. `Process` is the set of ends that the walk
of `hostfs_path_process` may come to (`Walked`: each component is a name that a scan
of the directory before it may return). Contents read back, time stamps, disc names
and free space are left out.

`LeavesAssumption` says which leaves the guest may use: those without the
characters that the exchange does not bring back (`$`, `#`, `^` and the space, none of
which can be part of a RISC OS leaf), and without an end that reads as a suffix,
which `hostfs_read_object_info` would take for the type. Of the spellings of one leaf
in upper and lower case `Paths` has one.

### BlockDevice, Ide (IDE channel, hard disc and CD-ROM)

The registers are one record, `ide`, with the code's field names; `idecallback` is
a flag, as in `Fdc`. Actions are the driver's (`StartTransfer`, `StartOther`,
`Specify`, `Interrupt`, `ReadWord`, `WriteWord`, `SoftReset`, `Polled`), the
`Callback` of each command, and `resetide`. The driver is driven by interrupts:
it polls only where no interrupt is promised. A word stands for two bytes, a
block has `BlockSize` of them. The promise `BlockDevice` moves named blocks in order
and changes a block when all of it was given; its mapping reads the transfer off
the registers. The blocks of a transfer are those the registers name when its
command is given, and these are what the code leaves in them: a write of the drive
and head register that changes the drive clears the task file and the head just
written with it (`ide.c:457-465`), so a driver that names drive and head in one
write (`Selections`, which has one write and two) reads and writes head 0.
`Abandons` says whether a reset may come in the data phase of
MODE SELECT: `packetstatus` then survives the reset and diverts the words of the
next WRITE (`ide.c:390`), so `Transfers` is checked for drivers that do not.
This port attaches no disc image (the calls of `loadhd` are commented out) and
calls `resetide` once; the model is of the channel with an image and with the
resets of `resetrpc` (`rpcemu.c:188`).

### Ps2Queue, Keyboard, Mouse, MouseHack, Ps2 (input)

`Keyboard` interleaves the user interface thread (`keyboard_key_press`) and the
machine thread (countdown, callback, guest) at every access of a field both use:
`queue.count`, `command`, `kcallback`. The values of bytes are dropped, the ring
keeps its pointers and its count. `Mouse` is the PS/2 mouse as the machine thread
uses it: the guest's commands and arguments, the callback. A byte that is no command
meets the default case (`keyboard.c:582`), where `fatal` only prints: TX_BUSY is set
and no callback is asked for; `ms.known` is history, and tells these bytes from the
others. Delays keep their order: 20 and 4 are `Long` and `Short` iterations, 150 is
`Resend`. In `mouse_ps2_callback` the sending of queued bytes is commented out
(`keyboard.c:695`), so `msqueue` never empties. The mouse captured by the window is
dead code in this port: `mousehack` is defined as 1 (`rpcemu.h:87`), so `mouse_process`
and the packets of movements it queues are never reached, and the machine thread is
the only one that uses `msqueue`. They are not modelled. `MouseHack` has the pointer
calls that `opSWI` takes away from the ROM, the cursor and the host's position, whose
two coordinates arrive as two assignments.

### IrqLines, Iomd, IomdRegisters, SuperIo, Podules, PoduleRom, IoBus (I/O)

`IrqLines` has the status and mask bits of all groups as two sets, and `armirq`.
`Iomd` runs `gentimerirq` in the machine thread and in the video thread, each
`|=`, `&=`, `-=` a read and a write that the other thread may cross, and the
guest's writes to timers, masks and status; an abort that sets a bit of `armirq` may be
stored over (`EndOfInstruction`). `IomdRegisters` has the registers that keep what
they are given, on the four variants of the chip, as wide as the fields of `struct
iomd`: eight bits, sixteen, a DMA address without the bits the chip ignores.
VIDCR reads with two bits set (`iomd.c:794`). `SuperIo` has the key
sequence, the GP registers with the SMI interrupt, the printer and serial
interrupts, and the i8042 of the 672, which this port does not set up.
`Podules` has the slots and `rethinkpoduleints`; the handlers of cards are
external and may set the lines of their card. `PoduleRom` counts the image as
`initpodulerom` lays it out. A file that is too large, or makes the image too large,
is complained of and added all the same. `readpodulerom` takes 24 bits of the address
and one byte in four, so that 4 MB of the image are reached and addresses beyond read
the start again. A file that goes between the scan and `fopen` leaves `fseek` without
a file (`podulerom.c:201`): undefined behaviour, taken to end the program.

### Transfers (loads and stores with data aborts)

One instruction, with its own repetition and perhaps the pop that undoes it, is
a behaviour: `Execute` is LDR, STR, LDM or STM up to its first abort, `Handle`
the guest's abort handler, `Pop` the opposite load. A word stands for what one
transfer moves. The abort handler is external: it undoes the write-back on the
processors that do not (`sa110` false), grants the page, and may take another
page away, `MaxTaken` times. `access` is how much of a page each mode may do.
`before` and `want` are history: where the instruction began and what it would
have done with every page there. SWP and coprocessor transfers are left out.

## 4. Runs

| Run | Question | Result |
|---|---|---|
| `mmu_caches` | is any cache older than the last flush? is every entry in exactly one slot, with its frame? does the screen invalidation find every pointer? | holds |
| `vidc_dirty` | is a changed page always marked, are the buffers apart? | holds |
| `vidc_live` | does the window catch up, do flyback interrupts keep coming? | holds |
| `vidc_resize` | is the bitmap left alone while it is drawn? | violated: realloc under the video thread |
| `arm` | do the copies of the mode agree, is it a register file, what can User mode reach, with modes of both widths and raw writes to R15? | holds |
| `cmos` | is the serialiser with the PCF8583 a byte memory on an I2C bus, and are its "bug" paths never taken? | holds |
| `fdc` | is the code a floppy controller to its guest, also when a motor write arms a reset, are its error paths never taken, does a begun command end? | holds |
| `hostfs` | is the host directory a RISC OS catalogue, are names unique, handles in step, listings complete? | holds |
| `ide` | do transfers move the blocks the registers name and only those, does every command end? | holds |
| `ps2` | are bytes announced, cursors still, do transmissions end and keys flow? | holds |
| `iomd` | do `armirq` and the timers recover from every race, do registers, key sequence, i8042, cards and the extension ROM do as promised? | holds |
| `transfers` | does an aborted and repeated transfer come to the same end, does a pop undo a push? | holds |

The one violation is a disagreement with a comment of the repository, quoted in
`PROJECT.json` with the line.

Bounds. `Mmu`: a TLB of one entry evicts on every second page, FIFOs of two
slots have an order and a second entry to be missed; a domain that opens and
closes and a descriptor that comes and goes give each access its grant and its
refusal. Everything else a proof covers for all sizes. `Vidc`: two pages are
needed for page 0, which borders treat specially, and another; liveness uses one
page since pages are independent there.

`ArmModes`: one register of each class stands for its class, since `updatemode`
copies them alike; two words that differ in every field tell any two sources
apart. `Values` and `Psrs` bound what guests compute, and `MaxChanged` how many
registers, banks, SPSRs, flags and named modes differ from their start (the modes:
from the one in force) at once: two, so that a value can be in one bank while
another is written, or a mode be named while a bank holds a value. The proofs have no
such bound and also have the other modes, which the run leaves out.

`Cmos`: bytes of two bits give each frame a first and a last bit, and four cells:
a clock register, the checksum, a setting and an ordinary cell; `Words` bounds
the bytes stored. The proofs are for any width of two bits or more.

`Fdc`: a sector has a first and a last byte, a transfer a first and a last
sector; `MaxChanged` bounds what is unusual at once: a byte of the disc that is not
zero, the wrong rate, or an armed reset the guest does not wait for. One byte in
each of the four places tells a misplaced byte from a lost one. The proofs are
for any geometry, any bytes and all of these together.

`HostFs`: a directory with a file below, a name of one character and one with a
character that is exchanged, two types, two handles: an open file can be
renamed, hidden or deleted while another is written. `Bound` keeps listings and
open files apart, which no call relates.

`Ide`: transfers of up to two of three blocks of two words have a first and a
last word and block, and `Spts` and `Hpcs` make sectors, heads and cylinders
carry. `Bound` has at most `MaxWritten` words of the disc that are not zero, one, in
any place: a word that is stored where it does not belong is seen. A packet of
each kind stands for its kind.

`Ps2`: buffers of two bytes are full, empty and wrap around; `MaxCommands` is one
host command among any number of keys, and is needed since commands can hold
keys up for ever.

`IoBus`: one timer and one other device race for the status word; `Floor` holds
a timer without a latch at a depth from which it is never due; two slots give a
card and another; three files an odd and an even length. `OneAtATime` keeps the
printer and the serial port, which do not meet the i8042, out of the runs with
it. The two words written to registers differ from themselves in every width: one
has bits above the eighth and the sixteenth, the other the 29th. `Held` has a register
of each kind and variant. The lengths of files in `Lengths` are around a word, zero,
and past 4 MB and 16 MB.

`Transfers`: four registers hold the base, others, a banked one and the PC, so
that the base is first, in the middle, last or absent; eight words in four pages
make every transfer of four cross a page and wrap around; one page taken away by
the handler aborts an instruction again that had passed. The proofs have no bound.

The deadlock check is on in every run but `transfers`, whose instruction ends:
the machine never stops.

## 5. Fairness

`VidcFairSpec` of `Vidc` asks that each thread in `drawscr` and the video thread
take steps: the operating system schedules both, and `drawscre` is counted up
by the clock so the machine thread comes back to `drawscr` (`muimain.c:899`).
Nothing is asked of the guest, and signals may be lost.

`Spec` of `Fdc` and `IdeSpec` of `Ide` ask that a countdown runs out, which the machine
thread sees to between slices of `execarm` (`muimain.c:878`, `arm.c:1964`), and
that a guest that has begun a command answers its requests, sends its parameters
and words and reads its results: a controller waits for its driver, here as in
the real machine. Nothing makes the guest begin a command, and it may reset at
any time.

`Ps2`: the machine thread and the user interface thread take their next step when
they can, the callback of the mouse comes when its countdown is out, and the
guest reads a byte it is told of again and again (strong fairness, since another
step may take the byte's interrupt back in between). `KeysFlow` is for users
that go on pressing keys and keyboards whose callback comes, for a key press
that comes faster than the delay puts the callback off each time; `TransmitEnds`
likewise for a driver that does not put off the callback by writing on and on, and
for the bytes the mouse knows: of any other it is false.

`IoBus`: the machine thread goes on and comes to `gentimerirq` again, as its loop
does; a driver told of a byte reads it. Nothing is asked of the video thread: it
may stop for ever between any two of its steps.

`Transfers`: the interpreter and the handler go on.

## 6. Proofs

`MemoryProofs`, translation caches: the inductive invariant is `CacheInv`:
types, `Covered` (each entry is in a FIFO slot), `HistoryCurrent` (the history
includes what is granted now) and `Fresh`. `Fresh` alone is not inductive: a
flush only empties the entries that FIFO slots name, which needs `Covered`, and
a fill is fresh only because the present grant is in the history.
`SlotsDistinct` needs `SlotsLive`: a named slot's entry is in use, and a page is
added only when its entry is empty. All hold for any set of pages, frames and
descriptors and any FIFO size.

`MemoryProofs`, frames: with one drawing thread (`MachineOnly`), `NothingMissed` and
`BuffersApart` follow from an invariant that ties `thr.dirtybuffer` and
`dirtybuffer` to the step `drawscr` has reached, for any number of pages.

`ArmProofs`: the types with `BanksSwitched` are inductive: `cpsr`, `usrregs` and
`memmode` go with the mode in force, and in a 32-bit mode `reg[16]` names it. In a
26-bit mode nothing ties what R15 names to it, and nothing needs to: from the two
each action of `ArmModes` is shown to be the action of the same name in `ArmBanks`,
for any register classes, words and status words, from the state that `resetarm`
leaves, with interrupts taken in any mode. One restriction is in the model: a guest
clears PROG32 only in modes that have a 26-bit form (`cp15.c:226` would form mode
numbers that are none from the others). `UserModeIsConfined` takes the raw writes as
a case of its own (`Ordinary` is what the other instructions are).

`CmosProofs`: `ByteMemoryImplemented` says that `Cmos` implements `I2cMemory`,
for bytes of any width of two bits or more. It uses `BusInv`: with the types, how far a
read has come for each clock level (`InStep`), that a transfer keeps its slave,
and that no bug path was taken. `InStep` is needed because the code looks at
edges only: nothing else says that a byte being read has a bit left at a falling
edge. The lemmas `Map...` take one branch of `cmosi2cchange` each to one action
of `I2cMemory`.

`FdcProofs`: `FdcInv` says what holds in each phase: where a transfer is
(`Transferring`), that a DMA request and a countdown exclude each other, so guest
and callback take turns (`Working`), and how many results are out (`Answering`).
While a reset is armed that the guest does not wait for, guest and countdown take no
turns; the invariant then says that no DMA request is up and that the countdown runs,
unless DUMPREG has stopped it between commands.
Types alone are not inductive: that a callback meets no position without a case
needs the turns. From it follow the types, `NeverFatal` and, with `Drives = {0}`,
`FloppyImplemented`: each action of `Fdc` is one of `Floppy` or invisible. The
arithmetic of the mapping (which byte of which sector the n-th byte is, and
which one is the last) is in `DivMod`, `LastByte` and `PlaceMaps`, for any
sector size and number of sectors.

`TransfersProofs`: the inductive invariant `TransferInv` adds to the two
properties that a running or, after the handler's undoing, an aborted
instruction can start again (`Resumable`): base, PC, mode and every register it
will not load are as at first, memory is as at first outside the words it
stores. `Restartable` alone says nothing before the end. The lemmas show that
what an instruction does with every page there depends on nothing else; the
addresses of a list are shown to be distinct (`AddressesDiffer`, by counting
in finite sets), for any registers, memory, layout of pages and instructions, on
both kinds of processor. `PopsWhatItPushed` joins two instructions: `PopWanted`
says, from the moment the pop begins, that what it would do with every page there
is to put back what was saved. That is where the four directions meet
(`SameWords`: the opposite load starts at the same word and ends with the old
base), with the bank the words go to (`Popped`).

`IoBusProofs`: `BusInv` joins one invariant per part, and each part's steps are
shown to keep it while the others leave it alone. For the timers it must say what
a thread carries from a read to its write (`Carries`): that the word it read
holds the bits that force an interrupt (`Forced`), and which timer it is at, for
either thread may be stopped there for any time. Cards agree with the lines of
all of them (`CardsAgree`) only where a handler's changes are followed by
`rethinkpoduleints`. `KeyOpens` is an action property and needs that the first of
two keys is the last write while the second is awaited. `ChunksApart` needs that
the three counters of the image advance together and that the chunks lie in order.
`ReadsBack` needs more than its own words: a register the fitted chip has holds what
its field keeps of the last write, and one it lacks stays as at power-on. `BytesSignalled`
is about a step, so each handler of the i8042 is shown to leave the SMI bits as
`i8042_irq_update` computes them. All hold for any interrupt bits, timers, latches,
cards and files.

`DeviceProofs`, keyboard and mouse: `DeviceInv` joins an invariant of each of the
three parts. `Ps2Inv` alone is not inductive: the interface thread counts a byte
that it stored earlier, so what it read (`ui.seen`) must still leave room while the
machine thread only takes bytes away, and `machine.seen` must be at least one where
it counts down. The mouse's queue has one writer. `CursorStays` holds because each call that unlinks computes the place from the
pointer it had before.

`DeviceProofs`, IDE: `IdeInv` relates the registers to what the driver waits for.
Between commands no countdown runs and no packet is half done; while the driver
waits, exactly one of the interrupt and the countdown is there (`Waiting`), and the
registers are those from which the callback goes on (`Due`, `PacketDue`): a `READ`
with all its blocks on the disc, a packet with the packet in the buffer, a `READ CD`
with its block there. In the data phase (`Moving`) the buffer is the block the
registers name and the words already given are words of the driver. Then each
handler is taken through its branches, first for the invariant (`...Step`,
`...Awaits`) and then for the mapping (`...Xfer`): a word is `Take` or `Give` of
`BlockDevice`, a command is `Begin`, everything else abandons the transfer or
leaves it alone. That the carry of `ide_next_sector` is the successor in the order
of `ide_get_sector` is `NextSectorType`, for any geometry. The theorems on the
channel have the hypothesis `~Abandons`, as the run has it: with a reset in the
data phase of MODE SELECT the channel is not a block device, as described above.
They need no bound: `Cap`, `BlockSize`, `MaxCount`, the geometries and the packets
are any.

`HostFsProofs`: the inductive invariant is `HostFsIInv`. `TreeOK` says that the host's
objects are finitely many, each in a directory that is there, under names that HostFS
made (`Made`); `FilesOK` that a handle without a file is `NULL` and that only a file
open for update has anything buffered, and is no directory; `HandlesMatch` that the
used handles are the guest's. `Unique` says that a directory shares its RISC OS name
with nothing and, unless the guest saves files over others of another type
(`Retypes`), that no two objects share one. `DirsUnique` is needed even then: a
rename would otherwise move one of two directories of a name, and what it finds would
depend on the order of `readdir`. So `HandlesAgree` holds for every guest, and
`OneNameOneFile`, `ListingsAreComplete` and `HostFsIsAFilingSystem` have the hypothesis
`~Retypes`, as the run has it.

The argument goes in four steps. `NameBack` and `RoPathFacts`: the conversion of names
and its reverse give every leaf and type back. `WalkedIs`, `FoundIs`, `MissingIs` and
`MissingNowhere`: a walk that ends, found or not, ends at the object of that path or
shows that there is none, whichever match each scan returns. `PutKeeps`, `DeleteKeeps`,
`RetypeIs`, `RenameKeeps` and `FlushedIs`: the five ways in which a call changes the
tree, the hardest being a rename of a directory, which must neither lose an object nor
give two of them one name (`MovedNames`). Then one lemma per call, first for the
invariant (`...Keeps`) and then for the mapping (`Filing...`): the catalogue of the new
tree is what `FilingSystem` makes of the old one (`MovedPath`: a host path moved and
converted is the RISC OS path moved).

For listings `ListingOK` is inductive: what the guest has is the first `off` entries of
the one sorted list of the directory (`OneListing`: there is only one, since `Rank`
tells leaves apart), and a change of the directory ends what is said (`DisturbKeeps`).

The sequences are of any length, and three arguments need induction: over the length of
a path, over the handles that a flush writes out, and over the entries of a listing.
They use `SetInduction`, a theorem about a set of numbers instead of a predicate, which
follows from the well-foundedness of the finite subsets of the naturals; `Flushed` is a
recursive function, and `FlushedIs` proves of it that it changes data only, and only of
files open for update.

The assumptions on constants say what the code needs of its sizes, and TLC
evaluates them: blocks of two words or more, a disc that is not empty, sectors and
heads that are not zero; the resend delay and the cursor numbers that are naturals;
no more than sixteen files of 128 MB, so that the 32-bit counters of the extension ROM
hold their sum; registers that `struct iomd` has.

Only model-checked: liveness, which the prover cannot do (`CommandsEnd`,
`TransmitEnds`, `KeysFlow`, `Completes` and those of `Fdc`, `Vidc` and `IoBus`), and
what is listed as violated. Of `HostFs` with `Retypes` true only `HandlesAgree` is
proved: the other three properties rest on one object having a name, which is
false then.

## 7. What is left out

Contents of memory, arithmetic and decoding of instructions (data to the
properties); guests that write mode numbers outside the seven; the expansion of
pixels, the cursor layer and scrolling of the screen. Not modelled at all:

* Floating point (`fpa.c`): a pure interpreter over the host's doubles, with no
  state but its registers.
* ROM, disc and CD image loading: file reading at start.
* Window, key code translation, configuration file: input and output.
* Shutdown: `main` cancels the threads and frees the memories without joining
  them (`muimain.c:783-802`); nothing in the repository says in which order they
  must end.
* The ICS card: its registration is commented out. The quadrature mouse:
  a function of the host's buttons. The mouse captured by the window, which
  `mousehack` makes unreachable. Sound: compiled out (`#if 0`).
* The other front ends and code generators, and the JIT of `arm.cc`: not compiled
  by this port's Makefile.

Memory is sequentially consistent in every module: the code has no atomics, so
a real machine may do more than the models say.
