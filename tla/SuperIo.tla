------------------------------ MODULE SuperIo ------------------------------
(***************************************************************************)
(* The Super I/O chip (superio.c) and the keyboard controller the FDC37C672 *)
(* embeds (i8042.c): the sequence that opens the configuration registers,   *)
(* the two GP registers pairs whose bits make the SMI interrupt, and the    *)
(* bytes of keyboard and mouse that share one data port and one interrupt.  *)
(* Keyboard and mouse themselves are keyboard.c; here they are the calls    *)
(* they make.  Floppy and IDE ports lead to fdc.c and ide.c.                *)
(***************************************************************************)
EXTENDS IrqLines

CONSTANTS
    GpIndexes,      \* the GP registers the guest selects, of "c" .. "f"
    ConfigRegs      \* the configuration registers it selects: "c", "d", "plain"
ASSUME SuperAssumption == /\ GpIndexes \subseteq {"c", "d", "e", "f"}
                          /\ ConfigRegs \subseteq {"c", "d", "plain"}
                          /\ {"SMI", "PARALLEL", "SERIAL"} \subseteq Bits

VARIABLES
    super, config,      \* super_type; configmode and configreg
    gp, gp_index,       \* c and d are masks of the requests e and f
    printstat,
    i8042,
    last,               \* was the last write the key 0x55 to port 0x3f0
    exited              \* the emulator has called exit

svars == <<super, config, gp, gp_index, printstat, i8042, last, exited>>

Sources == {"KINT", "MINT"}

i8042_reset == [command |-> "none", mode |-> {}, irq_kbd |-> FALSE, irq_mouse |-> FALSE]

SuperInit ==
    /\ super \in {"FDC37C665GT", "FDC37C672"}
    /\ config = [mode |-> "normal", reg |-> "plain"]
    /\ gp = [r \in {"c", "d", "e", "f"} |-> {}] /\ gp_index = "c"
    /\ printstat = {} /\ i8042 = i8042_reset
    /\ last = "other" /\ exited = FALSE

\* superio_smi_update with the GP registers g.
smi_update(g) ==
    /\ gp' = g
    /\ Update((status \ {"SMI"}) \cup
              {b \in {"SMI"} : g["e"] \cap g["c"] # {} \/ g["f"] \cap g["d"] # {}})
-----------------------------------------------------------------------------
(* i8042.c *)

\* Mutant of Asked: the mouse goes first.
Asked_MouseFirst(k) == IF k.irq_mouse /\ "DISABLE_MOUSE" \notin k.mode THEN {"MINT"}
            ELSE IF k.irq_kbd /\ "DISABLE_KBD" \notin k.mode THEN {"KINT"} ELSE {}

\* i8042_irq_update: the keyboard goes first, a disabled device does not ask.
Asked(k) == IF k.irq_kbd /\ "DISABLE_KBD" \notin k.mode THEN {"KINT"}
            ELSE IF k.irq_mouse /\ "DISABLE_MOUSE" \notin k.mode THEN {"MINT"} ELSE {}

irq_update(k) ==
    /\ i8042' = k
    /\ smi_update([gp EXCEPT !["f"] = Asked(k)])

\* What the port of the guest leaves alone.
Elsewhere == UNCHANGED <<super, config, gp_index, printstat, last, exited>>

keyboard_irq_raise == irq_update([i8042 EXCEPT !.irq_kbd = TRUE]) /\ Elsewhere
mouse_irq_raise == irq_update([i8042 EXCEPT !.irq_mouse = TRUE]) /\ Elsewhere

\* Mutant of data_read: the interrupt read is cleared and no other considered.
data_read_ClearsOnly ==
    /\ \/ i8042.irq_kbd /\ i8042' = [i8042 EXCEPT !.irq_kbd = FALSE] /\ smi_update([gp EXCEPT !["f"] = @ \ {"KINT"}])
       \/ ~i8042.irq_kbd /\ i8042.irq_mouse /\ irq_update([i8042 EXCEPT !.irq_mouse = FALSE])
       \/ ~i8042.irq_kbd /\ ~i8042.irq_mouse /\ UNCHANGED <<i8042, gp, lines>>
    /\ Elsewhere

\* keyboard_data_read and mouse_data_read lower their interrupt.
data_read ==
    /\ \/ i8042.irq_kbd /\ irq_update([i8042 EXCEPT !.irq_kbd = FALSE])
       \/ ~i8042.irq_kbd /\ i8042.irq_mouse /\ irq_update([i8042 EXCEPT !.irq_mouse = FALSE])
       \/ ~i8042.irq_kbd /\ ~i8042.irq_mouse /\ UNCHANGED <<i8042, gp, lines>>
    /\ Elsewhere

\* The byte goes to the keyboard, to the mouse or into the mode.
data_write(mode) ==
    i8042' = [i8042 EXCEPT !.command = "none", !.mode = IF i8042.command = "WRITE_MODE" THEN mode ELSE @]

command_write ==
    \/ UNCHANGED i8042      \* READ_MODE, SELF_TEST: a byte in the controller itself
    \/ \E c \in {"WRITE_MODE", "WRITE_MOUSE"} : i8042' = [i8042 EXCEPT !.command = c]
    \/ \E d \in {"DISABLE_KBD", "DISABLE_MOUSE"} :
         \/ i8042' = [i8042 EXCEPT !.mode = @ \cup {d}]
         \/ i8042' = [i8042 EXCEPT !.mode = @ \ {d}]
-----------------------------------------------------------------------------
(* superio.c *)

\* The key opens the registers of a 665 when it comes twice, of a 672 at once.
Knock ==
    /\ config.mode # "configuration"
    /\ config' = [config EXCEPT !.mode = IF super = "FDC37C665GT" /\ config.mode = "normal"
                                          THEN "intermediate" ELSE "configuration"]
    /\ last' = "key"
    /\ UNCHANGED <<super, gp, gp_index, printstat, i8042, exited, lines>>

Closed == [config EXCEPT !.mode = "normal"]

\* In configuration mode port 0x3f0 selects a register or leaves the mode.
Select ==
    /\ config.mode = "configuration"
    /\ \/ config' = Closed
       \/ \E r \in ConfigRegs :
            config' = [config EXCEPT !.reg = IF super = "FDC37C665GT" THEN "plain" ELSE r]
    /\ last' = "other"
    /\ UNCHANGED <<super, gp, gp_index, printstat, i8042, exited, lines>>

\* superio_config_reg_write: b4 and b5 of a 672 are the GP masks; a plain
\* register only holds data.
config_reg_write ==
    /\ config.mode = "configuration"
    /\ \E v \in {{}, Sources} :
         gp' = IF config.reg = "plain" THEN gp ELSE [gp EXCEPT ![config.reg] = v]
    /\ last' = "other"
    /\ UNCHANGED <<super, config, gp_index, printstat, i8042, exited, lines>>

\* Mutant of Port: other writes do not end the sequence.
Port_KeepsMode ==
    /\ config.mode # "configuration"
    /\ UNCHANGED config /\ last' = "other"
    /\ UNCHANGED super

\* Every other write ends a sequence of keys that is not complete.
Port ==
    /\ config.mode # "configuration"
    /\ config' = Closed /\ last' = "other"
    /\ UNCHANGED super

Port672 ==
    /\ super = "FDC37C672" /\ Port
    /\ \/ (\E mode \in SUBSET {"DISABLE_KBD", "DISABLE_MOUSE"} : data_write(mode))
          /\ UNCHANGED <<gp, gp_index, exited, lines>>
       \/ command_write /\ UNCHANGED <<gp, gp_index, exited, lines>>
       \/ exited' = TRUE /\ UNCHANGED <<i8042, gp, gp_index, lines>>   \* an unknown command
       \/ (\E i \in GpIndexes : gp_index' = i) /\ UNCHANGED <<i8042, gp, exited, lines>>
       \/ (\E v \in {{}, Sources} : gp' = [gp EXCEPT ![gp_index] = v])
          /\ UNCHANGED <<i8042, gp_index, exited, lines>>
    /\ UNCHANGED printstat

\* 0x27a: an interrupt at the falling strobe or with the interrupt enabled.
Parallel ==
    /\ Port
    /\ \E v \in SUBSET {"strobe", "enable"} :
         /\ printstat' = v \cap {"strobe"}
         /\ IF "enable" \in v \/ ("strobe" \in printstat /\ "strobe" \notin v)
            THEN Update(status \cup {"PARALLEL"}) ELSE UNCHANGED lines
    /\ UNCHANGED <<gp, gp_index, i8042, exited>>

\* 0x3f9 with bit 1, the transmit interrupt, and other ports.
Serial ==
    /\ Port
    /\ (Update(status \cup {"SERIAL"}) \/ UNCHANGED lines)
    /\ UNCHANGED <<gp, gp_index, printstat, i8042, exited>>

\* The interrupt identification clears it, except where 0x3f1 is meant.
SerialRead ==
    /\ Update(status \ {"SERIAL"})
    /\ UNCHANGED svars

\* The mask of group B in the IOMD, and its write of 0x314, which clears SMI.
GuestIomd ==
    /\ \/ \E on \in BOOLEAN : /\ mask' = IF on THEN mask \cup {"SMI"} ELSE mask \ {"SMI"}
                              /\ armirq' = Updated(status, mask', armirq) /\ UNCHANGED status
       \/ Update(status \ {"SMI"})
    /\ UNCHANGED svars

superio_write == Knock \/ Select \/ config_reg_write \/ Port672 \/ Parallel \/ Serial

SuperRead == (super = "FDC37C672" /\ data_read) \/ SerialRead

Devices == super = "FDC37C672" /\ (keyboard_irq_raise \/ mouse_irq_raise)

SuperNext ==
    \/ ~exited /\ (superio_write \/ SuperRead \/ Devices \/ GuestIomd)
    \/ exited /\ UNCHANGED <<svars, lines>>
=============================================================================
