------------------------------ MODULE Keyboard ------------------------------
(***************************************************************************)
(* The PS/2 keyboard of keyboard.c.  The user interface thread queues the   *)
(* scan codes of a key and asks for a callback; the machine thread counts   *)
(* the callback down, shifts one byte out at a time and runs the guest,     *)
(* which reads the byte and writes commands.  Nothing is locked: each read  *)
(* and each write of a shared field is a step of its own.  The fields only  *)
(* the machine thread touches are kbd and rptr, only the user interface     *)
(* thread's is wptr; the queue's count, kcommand and kcallback are shared.  *)
(***************************************************************************)
EXTENDS Ps2Queue

CONSTANTS
    Keys,           \* the kinds of keys: of one, two (e0) and eight (e1) codes
    Long, Short,    \* what the delays 20 and 4 count down from here
    MaxCommands     \* how many commands, resets and enables the guest sends
ASSUME DelayAssumption == Keys \subseteq {"plain", "extended", "pause"} /\ Long \in Nat \ {0} /\ Short \in 1 .. Long

VARIABLES
    kbd,            \* reset and stat, the set of the flags that are 1
    kcommand,       \* kbd.command: 0, 1 (1 and KBD_CMD_ENABLE) or 254
    kcallback,      \* iterations of the machine thread until the callback
    queue,          \* kbd.queue
    ui,             \* where the user interface thread is in a key's handler
    machine,        \* where the machine thread is in its loop
    commands        \* how many commands the guest may still send

kvars == <<kbd, kcommand, kcallback, queue, ui, machine, commands>>

SendKeys == 254

KeyboardInit ==
    /\ kbd = [reset |-> 0, stat |-> {}]
    /\ kcommand = 0
    /\ kcallback = 0
    /\ queue = EmptyQueue
    /\ ui = [pc |-> "idle", todo |-> 0, seen |-> 0]
    /\ machine = [pc |-> "idle", seen |-> 0]
    /\ commands = MaxCommands

-----------------------------------------------------------------------------
(* The user interface thread. *)

PressCodes == [plain |-> 1, extended |-> 2, pause |-> 8]
ReleaseCodes == [plain |-> 2, extended |-> 3]

keyboard_key_press(key) ==
    /\ ui.pc = "idle"
    /\ ui' = [ui EXCEPT !.pc = "store", !.todo = PressCodes[key]]
    /\ UNCHANGED <<kbd, kcommand, kcallback, queue, machine, commands, irq>>

\* The release of the pause key has no code.
keyboard_key_release(key) ==
    /\ ui.pc = "idle"
    /\ key # "pause"
    /\ ui' = [ui EXCEPT !.pc = "store", !.todo = ReleaseCodes[key]]
    /\ UNCHANGED <<kbd, kcommand, kcallback, queue, machine, commands, irq>>

\* Where the handler goes after a byte: the next byte, or the callback.
AfterByte == IF ui.todo = 1 THEN "delay" ELSE "store"

\* ps2_queue: nothing if the buffer is full, else the byte and wptr.
QueueStore ==
    /\ ui.pc = "store"
    /\ \/ /\ queue.count >= Size
          /\ ui' = [ui EXCEPT !.pc = AfterByte, !.todo = @ - 1]
          /\ UNCHANGED queue
       \/ /\ queue.count < Size
          /\ queue' = Stored(queue)
          /\ ui' = [ui EXCEPT !.pc = "load"]
    /\ UNCHANGED <<kbd, kcommand, kcallback, machine, commands, irq>>

\* count++ is a read and a write.
CountLoad ==
    /\ ui.pc = "load"
    /\ ui' = [ui EXCEPT !.pc = "count", !.seen = queue.count]
    /\ UNCHANGED <<kbd, kcommand, kcallback, queue, machine, commands, irq>>

CountStore ==
    /\ ui.pc = "count"
    /\ queue' = [queue EXCEPT !.count = ui.seen + 1]
    /\ ui' = [ui EXCEPT !.pc = AfterByte, !.todo = @ - 1, !.seen = 0]
    /\ UNCHANGED <<kbd, kcommand, kcallback, machine, commands, irq>>

SetDelay ==
    /\ ui.pc = "delay"
    /\ kcallback' = Long
    /\ ui' = [ui EXCEPT !.pc = "command"]
    /\ UNCHANGED <<kbd, kcommand, queue, machine, commands, irq>>

SetCommand ==
    /\ ui.pc = "command"
    /\ kcommand' = SendKeys
    /\ ui' = [ui EXCEPT !.pc = "idle"]
    /\ UNCHANGED <<kbd, kcallback, queue, machine, commands, irq>>

UserStep == QueueStore \/ CountLoad \/ CountStore \/ SetDelay \/ SetCommand
UserKey == \E key \in Keys : keyboard_key_press(key) \/ keyboard_key_release(key)

-----------------------------------------------------------------------------
(* The machine thread: one count of kcallback, and the callback. *)

TickLoad ==
    /\ machine.pc = "idle"
    /\ kcallback # 0
    /\ machine' = [pc |-> "tick", seen |-> kcallback]
    /\ UNCHANGED <<kbd, kcommand, kcallback, queue, ui, commands, irq>>

TickStore ==
    /\ machine.pc = "tick"
    /\ kcallback' = machine.seen - 1
    /\ machine' = [pc |-> IF machine.seen = 1 THEN "callback" ELSE "idle", seen |-> 0]
    /\ UNCHANGED <<kbd, kcommand, queue, ui, commands, irq>>

keyboardsend ==
    /\ kbd' = [kbd EXCEPT !.stat = @ \cup {"RX_FULL"}]
    /\ Raise("KEYBOARD_RX")

\* Mutant: the last step of a reset does not end it.
CallbackReset_Stays ==
    /\ machine.pc = "callback"
    /\ kbd.reset # 0
    /\ kbd' = [kbd EXCEPT !.reset = IF @ = 1 THEN 0 ELSE 3]
    /\ kcallback' = IF kbd.reset = 2 THEN Long ELSE kcallback
    /\ machine' = [machine EXCEPT !.pc = "idle"]
    /\ UNCHANGED <<kcommand, queue, ui, commands, irq>>

\* The three steps of a reset; the machine thread is the only one that looks at them.
CallbackReset ==
    /\ machine.pc = "callback"
    /\ \/ /\ kbd.reset = 1
          /\ kbd' = [kbd EXCEPT !.reset = 0, !.stat = {"TX_EMPTY"}]
          /\ Raise("KEYBOARD_TX")
          /\ UNCHANGED kcallback
       \/ /\ kbd.reset = 2
          /\ kbd' = [kbd EXCEPT !.reset = 3]
          /\ kcallback' = Long
          /\ UNCHANGED irq
       \/ /\ kbd.reset = 3
          /\ kcallback' = 0
          /\ kbd' = [kbd EXCEPT !.reset = 0, !.stat = @ \cup {"RX_FULL"}]
          /\ Raise("KEYBOARD_RX")
    /\ machine' = [machine EXCEPT !.pc = "idle"]
    /\ UNCHANGED <<kcommand, queue, ui, commands>>

CallbackCommand ==
    /\ machine.pc = "callback"
    /\ kbd.reset = 0
    /\ \/ /\ kcommand = 0
          /\ machine' = [machine EXCEPT !.pc = "idle"]
          /\ UNCHANGED <<kbd, irq, queue>>
       \/ /\ kcommand = 1
          /\ keyboardsend
          /\ machine' = [machine EXCEPT !.pc = "clear"]
          /\ UNCHANGED queue
       \/ /\ kcommand = SendKeys
          /\ keyboardsend
          /\ \/ /\ queue.count = 0
                /\ machine' = [machine EXCEPT !.pc = "done"]
                /\ UNCHANGED queue
             \/ /\ queue.count # 0
                /\ queue' = [queue EXCEPT !.rptr = Successor(@)]
                /\ machine' = [pc |-> "count", seen |-> queue.count]
    /\ UNCHANGED <<kcommand, kcallback, ui, commands>>

\* The write of count--.
CallbackCount ==
    /\ machine.pc = "count"
    /\ queue' = [queue EXCEPT !.count = machine.seen - 1]
    /\ machine' = [pc |-> "done", seen |-> 0]
    /\ UNCHANGED <<kbd, kcommand, kcallback, ui, commands, irq>>

\* kcallback = 0, after a byte of a key or after an acknowledgement.
CallbackDone ==
    /\ machine.pc \in {"done", "clear"}
    /\ kcallback' = 0
    /\ machine' = [machine EXCEPT !.pc = IF @ = "done" THEN "test" ELSE "end"]
    /\ UNCHANGED <<kbd, kcommand, queue, ui, commands, irq>>

CallbackTest ==
    /\ machine.pc = "test"
    /\ machine' = [machine EXCEPT !.pc = IF queue.count = 0 THEN "end" ELSE "idle"]
    /\ UNCHANGED <<kbd, kcommand, kcallback, queue, ui, commands, irq>>

CallbackEnd ==
    /\ machine.pc = "end"
    /\ kcommand' = 0
    /\ machine' = [machine EXCEPT !.pc = "idle"]
    /\ UNCHANGED <<kbd, kcallback, queue, ui, commands, irq>>

MachineStep ==
    \/ TickLoad \/ TickStore \/ CallbackReset \/ CallbackCommand
    \/ CallbackCount \/ CallbackDone \/ CallbackTest \/ CallbackEnd
-----------------------------------------------------------------------------
(* The guest, run by the machine thread between two counts. *)

\* The guest reads the byte when the interrupt tells it to.
keyboard_data_read ==
    /\ machine.pc = "idle"
    /\ "KEYBOARD_RX" \in irq
    /\ Lower("KEYBOARD_RX")
    /\ kbd' = [kbd EXCEPT !.stat = @ \ {"RX_FULL"}]
    /\ kcallback' = IF kcommand = SendKeys THEN Long ELSE kcallback
    /\ UNCHANGED <<kcommand, queue, ui, machine, commands>>

GuestMay == machine.pc = "idle" /\ commands > 0 /\ commands' = commands - 1

\* KBD_CMD_RESET; the other commands also end a reset and leave their number.
keyboard_data_write(reset) ==
    /\ GuestMay
    /\ \/ /\ reset
          /\ kbd' = [kbd EXCEPT !.reset = 2]
          /\ kcallback' = Long
          /\ UNCHANGED kcommand
       \/ /\ ~reset
          /\ kbd' = [kbd EXCEPT !.reset = 0]
          /\ kcommand' = 1
          /\ kcallback' = Short
    /\ UNCHANGED <<queue, ui, machine, irq>>

\* kbd.enable is never set: every write that enables resets.
keyboard_control_write(enable) ==
    /\ GuestMay
    /\ \/ /\ enable
          /\ kbd' = [kbd EXCEPT !.reset = 1, !.stat = @ \cup {"ENABLE"}]
          /\ kcallback' = Long
       \/ /\ ~enable
          /\ kbd' = [kbd EXCEPT !.stat = @ \ {"ENABLE"}]
          /\ UNCHANGED kcallback
    /\ UNCHANGED <<kcommand, queue, ui, machine, irq>>

\* resetrpc calls keyboard_reset and iomd_reset, which clears the interrupt bits.
keyboard_reset ==
    /\ GuestMay
    /\ kcallback' = 0
    /\ kcommand' = 0
    /\ kbd' = [reset |-> 0, stat |-> {}]
    /\ queue' = EmptyQueue
    /\ irq' = irq \ {"KEYBOARD_RX", "KEYBOARD_TX"}
    /\ UNCHANGED <<ui, machine>>

KeyboardGuest ==
    \/ \E b \in BOOLEAN : keyboard_data_write(b) \/ keyboard_control_write(b)
    \/ keyboard_reset

KeyboardNext == UserKey \/ UserStep \/ MachineStep \/ keyboard_data_read \/ KeyboardGuest
=============================================================================
