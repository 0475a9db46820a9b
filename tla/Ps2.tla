-------------------------------- MODULE Ps2 --------------------------------
(***************************************************************************)
(* The input devices of keyboard.c.  The three parts share no state but the *)
(* interrupt bits, so a behaviour exercises one of them: the keyboard, the  *)
(* PS/2 mouse, or the pointer that follows the host's.                      *)
(***************************************************************************)
EXTENDS Keyboard, Mouse, MouseHack

CONSTANT Devices    \* the parts a behaviour may be of
VARIABLE device

vars == <<device, irq, kvars, mvars, hvars>>

Init ==
    /\ device \in Devices
    /\ irq = {}
    /\ KeyboardInit /\ MouseInit
    /\ HackInit
    /\ device # "hack" => screen = CHOOSE s \in Screens : TRUE

KeyboardPart == device = "keyboard" /\ KeyboardNext /\ UNCHANGED <<device, mvars, hvars>>
MousePart == device = "mouse" /\ MouseNext /\ UNCHANGED <<device, kvars, hvars>>
HackPart == device = "hack" /\ HackNext /\ UNCHANGED <<device, irq, kvars, mvars>>

Next == KeyboardPart \/ MousePart \/ HackPart

(***************************************************************************)
(* A thread that can take its next step takes it, and the guest reads the   *)
(* byte an interrupt tells it of.                                           *)
(***************************************************************************)
Fairness ==
    /\ WF_vars(KeyboardPart /\ MachineStep)
    /\ WF_vars(KeyboardPart /\ UserStep)
    /\ SF_vars(KeyboardPart /\ keyboard_data_read)
    /\ WF_vars(MousePart /\ MouseCallback)

Spec == Init /\ [][Next]_vars /\ Fairness
-----------------------------------------------------------------------------
(* Properties. *)

(* Every field of keyboard.c holds a value of its kind.  The counts of both *)
(* queues stay within the buffer although two threads change the keyboard's *)
(* without a lock: an update may be lost, but it is lost within the bounds. *)
(* The mouse's queue is written by the machine thread alone.                *)
TypeOK ==
    /\ irq \subseteq Sources
    /\ kbd.reset \in 0 .. 3 /\ kbd.stat \subseteq {"ENABLE", "RX_FULL", "TX_EMPTY"}
    /\ kcommand \in {0, 1, SendKeys} /\ kcallback \in 0 .. Long
    /\ \A q \in {queue, msqueue} : q.count \in 0 .. Size /\ {q.rptr, q.wptr} \subseteq 0 .. Size - 1
    /\ ms.reset \in 0 .. 4 /\ mcallback \in 0 .. 4 \cup 0 .. Resend /\ ms.type \in {0, 3, 4} /\ ms.detect \in 0 .. 3
    /\ ms.stat \subseteq {"RX_FULL", "TX_EMPTY", "TX_BUSY"}
    /\ hack.pointer \in Pointers /\ DOMAIN hack.active = Pointers

(* A byte in the receive register always has its interrupt: through resets, *)
(* enables, acknowledgements and keys, in whatever order they overlap, no   *)
(* byte waits that the guest is not told of (keyboardsend, mouse_send).     *)
ByteInterrupts ==
    /\ "RX_FULL" \in kbd.stat => "KEYBOARD_RX" \in irq
    /\ "RX_FULL" \in ms.stat => "MOUSE_RX" \in irq

(* What every state satisfies: a queue's count and pointers inside it, with *)
(* two threads that count the keyboard's, and an interrupt for every byte.  *)
Ps2Inv == TypeOK /\ ByteInterrupts

(* Unlinking the cursor leaves it where it is drawn when the pointer stays  *)
(* the same, and an unlinked cursor stays put whatever the mouse, the box,  *)
(* the screen and further calls do, until it is linked again (OS_Byte 106). *)
CursorStays ==
    [][~hack'.linked /\ (hack.linked => hack'.pointer = hack.pointer) =>
         mouse_hack_get_pos(hack)' = mouse_hack_get_pos(hack)]_<<hack>>

(* A byte the mouse knows, command or argument, is acknowledged as          *)
(* transmitted, also when resets and further bytes come in between: the     *)
(* driver that waits for TX_BUSY to clear never waits forever, provided     *)
(* further bytes do not put off the callback for ever.  A command the mouse *)
(* does not know asks for no callback: TX_BUSY stays until one is asked for.*)
TransmitEnds ==
    []<>(calling \/ mcallback = 0) =>
        ("TX_BUSY" \in ms.stat /\ ms.known ~> "TX_BUSY" \notin ms.stat)

(* Keys are never stuck for good.  A key may be left in the queue, its      *)
(* callback or its command overwritten by the machine thread between two    *)
(* assignments of keyboard_key_press; but if the user goes on pressing keys,*)
(* slowly enough for callbacks to come, bytes go on being shifted out.      *)
KeysFlow ==
    []<>(ui.pc = "command") /\ []<>(machine.pc = "callback") => \A r \in 0 .. Size - 1 :
        (queue.count > 0 /\ queue.rptr = r) ~> (queue.rptr # r \/ queue.count = 0)
=============================================================================
