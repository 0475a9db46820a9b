---------------------------- MODULE DeviceProofs ----------------------------
(***************************************************************************)
(* The safety of devices that a driver talks to: keyboard and mouse, for   *)
(* any keys, commands and lengths of queues and delays, and the            *)
(* IDE channel, for any disc, geometry and packets, with the steps by      *)
(* which it implements a block device.                                     *)
(***************************************************************************)
EXTENDS Ps2, Ide, TLAPS

-----------------------------------------------------------------------------
(* Keyboard and mouse: what their registers hold.                            *)

QueueType == [rptr : 0 .. Size - 1, wptr : 0 .. Size - 1, count : 0 .. Size]

Flags == {"ENABLE", "RX_FULL", "TX_EMPTY"}
KbdType == [reset : 0 .. 3, stat : SUBSET Flags]
UiType == [pc : {"idle", "store", "load", "count", "delay", "command"}, todo : Int, seen : Int]
MachineType == [pc : {"idle", "tick", "callback", "count", "done", "clear", "test", "end"}, seen : Int]

(* What the two threads of the keyboard carry from a read to a write: the  *)
(* user interface thread counts up from less than Size, since it saw room   *)
(* and the machine thread only makes more of it.                            *)
KeyboardInv ==
    /\ kbd \in KbdType
    /\ kcommand \in {0, 1, SendKeys} /\ kcallback \in 0 .. Long /\ queue \in QueueType
    /\ ui \in UiType /\ machine \in MachineType
    /\ ui.pc = "load" => queue.count < Size
    /\ ui.pc = "count" => ui.seen \in 0 .. Size - 1
    /\ machine.pc = "tick" => machine.seen \in 1 .. Long
    /\ machine.pc = "count" => machine.seen \in 1 .. Size

MouseFlags == {"RX_FULL", "TX_EMPTY", "TX_BUSY"}
MouseType == [reset : 0 .. 4, stat : SUBSET MouseFlags,
              command : {"none", "SET_RES", "SET_SAMPLE"}, poll : BOOLEAN, justsent : BOOLEAN,
              type : {0, 3, 4}, detect : 0 .. 3, known : BOOLEAN]
MouseInv == ms \in MouseType /\ mcallback \in 0 .. 4 \cup 0 .. Resend /\ msqueue \in QueueType

HackInv ==
    /\ hack = [pointer |-> hack.pointer, linked |-> hack.linked, unlinked |-> hack.unlinked,
               active |-> hack.active, box |-> hack.box]
    /\ hack.pointer \in Pointers /\ DOMAIN hack.active = Pointers

DeviceInv == irq \subseteq Sources /\ KeyboardInv /\ MouseInv /\ HackInv /\ ByteInterrupts

-----------------------------------------------------------------------------
(* The queue. *)

LEMMA SuccessorType == ASSUME NEW i \in 0 .. Size - 1 PROVE Successor(i) \in 0 .. Size - 1
BY SizeAssumption DEF Successor

LEMMA QueueKept ==
    ASSUME NEW q \in QueueType, NEW n \in Nat
    PROVE  ps2_queue(q, n) \in QueueType
<1> DEFINE fits == IF q.count + n > Size THEN Size - q.count ELSE n
<1>1. q.count \in 0 .. Size /\ q.wptr \in 0 .. Size - 1 /\ Size \in Nat \ {0}
  BY SizeAssumption DEF QueueType
<1>2. fits \in Nat /\ q.count + fits \in 0 .. Size
  BY <1>1
<1> HIDE DEF fits
<1>3. (q.wptr + fits) % Size \in 0 .. Size - 1
  BY <1>1, <1>2
<1> QED BY <1>2, <1>3 DEF ps2_queue, fits, QueueType

-----------------------------------------------------------------------------
(* The initial states. *)

LEMMA InitDevices == Init => DeviceInv
<1> SUFFICES ASSUME Init PROVE DeviceInv
  OBVIOUS
<1>1. EmptyQueue \in QueueType
  BY SizeAssumption DEF EmptyQueue, QueueType
<1>2. KeyboardInv
  BY <1>1, DelayAssumption DEF Init, KeyboardInit, KeyboardInv, KbdType, UiType, MachineType
<1>3. MouseInv
  <2>1. ms \in MouseType
    BY DEF Init, MouseInit, MouseReset, MouseType, MouseFlags
  <2> QED BY <1>1, <2>1, MouseAssumption DEF Init, MouseInit, MouseInv
<1>4. HackInv
  BY DEF Init, HackInit, HackInv, Pointers
<1> QED BY <1>2, <1>3, <1>4 DEF Init, KeyboardInit, MouseInit, MouseReset, DeviceInv, ByteInterrupts

-----------------------------------------------------------------------------
(* The keyboard. *)

(* Every assignment of kbd, one or both of its fields. *)
LEMMA KbdBoth ==
    ASSUME kbd \in KbdType, NEW r \in 0 .. 3, NEW s \in SUBSET Flags,
           kbd' = [kbd EXCEPT !.reset = r, !.stat = s]
    PROVE  kbd' \in KbdType /\ kbd'.stat = s
<1>1. kbd' \in KbdType
  BY DEF KbdType
<1>2. kbd'.stat = s
  BY Zenon DEF KbdType
<1> QED BY <1>1, <1>2

LEMMA KbdWhole ==
    ASSUME kbd \in KbdType, NEW r \in 0 .. 3, NEW s \in SUBSET Flags,
           kbd' = [reset |-> r, stat |-> s]
    PROVE  kbd' \in KbdType /\ kbd'.stat = s
<1>1. kbd' \in KbdType
  BY DEF KbdType
<1>2. kbd'.stat = s
  BY Zenon DEF KbdType
<1> QED BY <1>1, <1>2

LEMMA KbdFlags ==
    ASSUME kbd \in KbdType, NEW s \in SUBSET Flags, kbd' = [kbd EXCEPT !.stat = s]
    PROVE  kbd' \in KbdType /\ kbd'.stat = s
<1>1. kbd' \in KbdType
  BY DEF KbdType
<1>2. kbd'.stat = s
  BY Zenon DEF KbdType
<1> QED BY <1>1, <1>2

LEMMA KbdReset ==
    ASSUME kbd \in KbdType, NEW r \in 0 .. 3, kbd' = [kbd EXCEPT !.reset = r]
    PROVE  kbd' \in KbdType /\ kbd'.stat = kbd.stat
<1>1. kbd' \in KbdType
  BY DEF KbdType
<1>2. kbd'.stat = kbd.stat
  BY Zenon DEF KbdType
<1> QED BY <1>1, <1>2

(* An interrupt of the keyboard raised or cleared, or both at a reset. *)
LEMMA BitsChanged ==
    ASSUME irq \subseteq Sources, NEW b \in {"KEYBOARD_RX", "KEYBOARD_TX"}
    PROVE  /\ Raise(b) => irq' \subseteq Sources /\ irq \subseteq irq' /\ b \in irq'
           /\ Lower(b) => irq' \subseteq Sources /\ irq \ irq' \subseteq {b}
BY Zenon DEF Raise, Lower, Sources

(* What a step of the keyboard leaves to the mouse, and the keyboard's bytes. *)
Heard ==
    /\ irq' \subseteq Sources /\ irq \ irq' \subseteq {"KEYBOARD_RX", "KEYBOARD_TX"}
    /\ "RX_FULL" \in kbd'.stat => "KEYBOARD_RX" \in irq'

LEMMA KeyboardStep ==
    ASSUME KeyboardInv, irq \subseteq Sources, "RX_FULL" \in kbd.stat => "KEYBOARD_RX" \in irq, KeyboardNext
    PROVE  KeyboardInv' /\ Heard
<1> USE DelayAssumption, SizeAssumption
<1>a. kbd \in KbdType /\ ui \in UiType /\ machine \in MachineType /\ queue \in QueueType
  BY DEF KeyboardInv
<1>b. ui.todo - 1 \in Int /\ kbd.stat \subseteq Flags
  BY <1>a DEF UiType, KbdType
<1>c. UNCHANGED <<irq, kbd>> => Heard
  BY Zenon DEF Heard
<1> DEFINE Quiet == KeyboardInv' /\ UNCHANGED <<irq, kbd>>
           Kept == KeyboardInv' /\ Heard
<1>1. ASSUME NEW key \in Keys, keyboard_key_press(key) \/ keyboard_key_release(key) PROVE Quiet
  <2>1. key \in {"plain", "extended", "pause"}
    OBVIOUS
  <2>2. PressCodes[key] \in Int /\ (key # "pause" => ReleaseCodes[key] \in Int)
    BY <2>1 DEF PressCodes, ReleaseCodes
  <2>3. \E n \in Int : ui' = [ui EXCEPT !.pc = "store", !.todo = n]
    BY <1>1, <2>2 DEF keyboard_key_press, keyboard_key_release
  <2>4. ui' \in UiType /\ ui'.pc = "store"
    BY <1>a, <2>3 DEF UiType
  <2> QED BY <1>1, <2>4 DEF keyboard_key_press, keyboard_key_release, KeyboardInv
<1>2. ASSUME QueueStore PROVE Quiet
  <2>1. queue.count < Size => Stored(queue) \in QueueType /\ Stored(queue).count = queue.count
    BY <1>a, SuccessorType DEF Stored, QueueType
  <2>2. ui' \in UiType /\ ui'.pc \in {"delay", "store", "load"} /\ (ui'.pc = "load" => queue.count < Size)
    <3>1. CASE ui' = [ui EXCEPT !.pc = AfterByte, !.todo = @ - 1]
      <4>1. AfterByte \in {"delay", "store"}
        BY DEF AfterByte
      <4> QED BY <1>a, <1>b, <3>1, <4>1 DEF UiType
    <3>2. CASE queue.count < Size /\ ui' = [ui EXCEPT !.pc = "load"]
      BY <1>a, <3>2 DEF UiType
    <3> QED BY <1>2, <3>1, <3>2 DEF QueueStore
  <2>3. queue' \in QueueType /\ queue'.count = queue.count
    BY <1>2, <1>a, <2>1 DEF QueueStore
  <2> QED BY <1>2, <2>2, <2>3 DEF QueueStore, KeyboardInv
<1>3. ASSUME CountLoad PROVE Quiet
  <2>1. ui.pc = "load" /\ ui' = [ui EXCEPT !.pc = "count", !.seen = queue.count]
    BY <1>3 DEF CountLoad
  <2>2. queue.count \in 0 .. Size - 1 /\ queue.count \in Int
    BY <1>a, <2>1 DEF QueueType, KeyboardInv
  <2>3. ui' \in UiType /\ ui'.pc = "count" /\ ui'.seen \in 0 .. Size - 1
    BY <1>a, <2>1, <2>2 DEF UiType
  <2> QED BY <1>3, <2>3 DEF CountLoad, KeyboardInv
<1>4. ASSUME CountStore PROVE Quiet
  <2>1. AfterByte \in {"delay", "store"}
    BY DEF AfterByte
  <2>2. ui.pc = "count" /\ ui' = [ui EXCEPT !.pc = AfterByte, !.todo = ui.todo - 1, !.seen = 0]
    BY <1>4 DEF CountStore
  <2>3. ui' \in UiType /\ ui'.pc \in {"delay", "store"}
    <3>1. ui' \in UiType
      <4>0. 0 \in Int
        OBVIOUS
      <4>1. PICK p \in {"delay", "store"}, n \in Int, m \in Int : ui' = [ui EXCEPT !.pc = p, !.todo = n, !.seen = m]
        BY <1>b, <2>1, <2>2, <4>0, Zenon
      <4> QED BY <1>a, <4>1 DEF UiType
    <3>2. ui'.pc = AfterByte
      BY <1>a, <2>2, Zenon DEF UiType
    <3> QED BY <2>1, <3>1, <3>2
  <2>4. ui.seen + 1 \in 0 .. Size
    BY <2>2 DEF KeyboardInv
  <2>5. queue' \in QueueType
    BY <1>4, <1>a, <2>4 DEF CountStore, QueueType
  <2> QED BY <1>4, <2>3, <2>5 DEF CountStore, KeyboardInv
<1>5. ASSUME SetDelay \/ SetCommand PROVE Quiet
  <2>1. ui' \in UiType /\ ui'.pc \in {"command", "idle"}
    BY <1>5, <1>a DEF SetDelay, SetCommand, UiType
  <2> QED BY <1>5, <2>1 DEF SetDelay, SetCommand, KeyboardInv
<1>6. ASSUME TickLoad PROVE Quiet
  <2>1. machine' \in MachineType /\ machine'.pc = "tick" /\ machine'.seen \in 1 .. Long
    BY <1>6 DEF TickLoad, MachineType, KeyboardInv
  <2> QED BY <1>6, <2>1 DEF TickLoad, KeyboardInv
<1>7. ASSUME TickStore PROVE Quiet
  <2>1. machine' \in MachineType /\ machine'.pc \in {"callback", "idle"}
    BY <1>7 DEF TickStore, MachineType
  <2> QED BY <1>7, <2>1 DEF TickStore, KeyboardInv
<1>8. ASSUME CallbackReset PROVE Kept
  <2>1. machine' \in MachineType /\ machine'.pc = "idle"
    BY <1>8, <1>a DEF CallbackReset, MachineType
  <2> DEFINE Changed == kbd' \in KbdType /\ kcallback' \in 0 .. Long /\ Heard
  <2>2. ASSUME kbd' = [kbd EXCEPT !.reset = 0, !.stat = {"TX_EMPTY"}] /\ Raise("KEYBOARD_TX") /\ UNCHANGED kcallback
        PROVE  Changed
    <3>1. {"TX_EMPTY"} \in SUBSET Flags /\ 0 \in 0 .. 3
      BY DEF Flags
    <3>2. kbd' = [kbd EXCEPT !.reset = 0, !.stat = {"TX_EMPTY"}]
      BY <2>2
    <3>3. kbd' \in KbdType /\ kbd'.stat = {"TX_EMPTY"}
      BY <1>a, <3>1, <3>2, KbdBoth
    <3>4. irq' \subseteq Sources /\ irq \subseteq irq'
      BY <2>2, BitsChanged
    <3>5. kcallback' \in 0 .. Long
      BY <2>2 DEF KeyboardInv
    <3> QED BY <3>3, <3>4, <3>5 DEF Heard
  <2>3. ASSUME kbd' = [kbd EXCEPT !.reset = 3] /\ kcallback' = Long /\ UNCHANGED irq PROVE Changed
    <3>1. kbd' \in KbdType /\ kbd'.stat = kbd.stat
      BY <1>a, <2>3, KbdReset
    <3> QED BY <2>3, <3>1 DEF Heard
  <2>4. ASSUME kcallback' = 0 /\ kbd' = [kbd EXCEPT !.reset = 0, !.stat = @ \cup {"RX_FULL"}] /\ Raise("KEYBOARD_RX")
        PROVE  Changed
    <3>1. kbd.stat \cup {"RX_FULL"} \in SUBSET Flags /\ 0 \in 0 .. 3
      BY <1>b DEF Flags
    <3>2. kbd' \in KbdType
      BY <1>a, <2>4, <3>1, KbdBoth
    <3>3. irq' \subseteq Sources /\ irq \subseteq irq' /\ "KEYBOARD_RX" \in irq'
      BY <2>4, BitsChanged
    <3> QED BY <2>4, <3>2, <3>3 DEF Heard
  <2>5. Changed
    BY <1>8, <2>2, <2>3, <2>4 DEF CallbackReset
  <2> QED BY <1>8, <2>1, <2>5 DEF CallbackReset, KeyboardInv
<1>9. ASSUME CallbackCommand PROVE Kept
  <2>1. UNCHANGED <<kbd, irq>> \/ keyboardsend
    BY <1>9 DEF CallbackCommand
  <2>2. kbd.stat \cup {"RX_FULL"} \in SUBSET Flags
    BY <1>b DEF Flags
  <2>3. keyboardsend => kbd' \in KbdType
    BY <1>a, <2>2, KbdFlags DEF keyboardsend
  <2>4. kbd' \in KbdType /\ Heard
    <3>1. CASE UNCHANGED <<kbd, irq>>
      BY <1>a, <1>c, <3>1
    <3>2. CASE keyboardsend
      <4>1. irq' \subseteq Sources /\ irq \subseteq irq' /\ "KEYBOARD_RX" \in irq'
        BY <3>2, BitsChanged DEF keyboardsend
      <4> QED BY <2>3, <3>2, <4>1 DEF Heard
    <3> QED BY <2>1, <3>1, <3>2
  <2>5. queue' = queue \/ queue' = [queue EXCEPT !.rptr = Successor(@)]
    BY <1>9 DEF CallbackCommand
  <2>6. queue' \in QueueType /\ queue'.count = queue.count
    BY <1>a, <2>5, SuccessorType DEF QueueType
  <2>7. UNCHANGED <<kcommand, kcallback, ui>>
    BY <1>9 DEF CallbackCommand
  <2>8. /\ machine' \in MachineType /\ machine'.pc # "tick"
        /\ machine'.pc = "count" => machine'.seen \in 1 .. Size
    BY <1>9, <1>a DEF CallbackCommand, QueueType, MachineType
  <2> QED BY <2>4, <2>6, <2>7, <2>8 DEF KeyboardInv
<1>10. ASSUME CallbackCount PROVE Quiet
  <2>1. machine' \in MachineType /\ machine'.pc = "done" /\ queue' \in QueueType /\ queue'.count < Size
    BY <1>10, <1>a DEF CallbackCount, QueueType, MachineType, KeyboardInv
  <2> QED BY <1>10, <2>1 DEF CallbackCount, KeyboardInv
<1>11. ASSUME CallbackDone \/ CallbackTest \/ CallbackEnd PROVE Quiet
  <2>1. machine' \in MachineType /\ machine'.pc \in {"idle", "test", "end"}
    BY <1>11, <1>a DEF CallbackDone, CallbackTest, CallbackEnd, MachineType
  <2> QED BY <1>11, <2>1 DEF CallbackDone, CallbackTest, CallbackEnd, KeyboardInv
<1>12. ASSUME keyboard_data_read PROVE Kept
  <2>1. kbd.stat \ {"RX_FULL"} \in SUBSET Flags
    BY <1>b
  <2>2. kbd' \in KbdType /\ kbd'.stat = kbd.stat \ {"RX_FULL"}
    BY <1>12, <1>a, <2>1, KbdFlags DEF keyboard_data_read
  <2>3. Heard
    <3>1. irq' \subseteq Sources /\ irq \ irq' \subseteq {"KEYBOARD_RX"}
      BY <1>12, BitsChanged DEF keyboard_data_read
    <3> QED BY <2>2, <3>1 DEF Heard
  <2> QED BY <1>12, <2>2, <2>3 DEF keyboard_data_read, KeyboardInv
<1>13. ASSUME KeyboardGuest PROVE Kept
  <2>1. EmptyQueue \in QueueType /\ EmptyQueue.count = 0
    BY DEF EmptyQueue, QueueType
  <2>2. CASE keyboard_reset
    <3>1. {} \in SUBSET Flags /\ 0 \in 0 .. 3 /\ kbd' = [reset |-> 0, stat |-> {}]
      BY <2>2 DEF keyboard_reset
    <3>2. kbd' \in KbdType /\ kbd'.stat = {}
      BY <1>a, <3>1, KbdWhole
    <3>3. Heard
      BY <2>2, <3>2 DEF keyboard_reset, Heard
    <3> QED BY <2>1, <2>2, <3>2, <3>3 DEF keyboard_reset, GuestMay, KeyboardInv
  <2>3. ASSUME NEW b \in BOOLEAN, keyboard_data_write(b) PROVE Kept
    <3>1. kbd' \in KbdType /\ kbd'.stat = kbd.stat
      BY <2>3, <1>a, KbdReset DEF keyboard_data_write
    <3>2. Heard
      BY <2>3, <3>1 DEF keyboard_data_write, Heard
    <3> QED BY <2>3, <3>1, <3>2 DEF keyboard_data_write, GuestMay, KeyboardInv
  <2>4. ASSUME NEW b \in BOOLEAN, keyboard_control_write(b) PROVE Kept
    <3>1. kbd.stat \cup {"ENABLE"} \in SUBSET Flags /\ kbd.stat \ {"ENABLE"} \in SUBSET Flags /\ 1 \in 0 .. 3
      BY <1>b DEF Flags
    <3>2. kbd' \in KbdType /\ ("RX_FULL" \in kbd'.stat => "RX_FULL" \in kbd.stat)
      <4>1. CASE kbd' = [kbd EXCEPT !.reset = 1, !.stat = @ \cup {"ENABLE"}]
        <5>1. kbd' \in KbdType /\ kbd'.stat = kbd.stat \cup {"ENABLE"}
          BY <1>a, <3>1, <4>1, KbdBoth
        <5> QED BY <5>1
      <4>2. CASE kbd' = [kbd EXCEPT !.stat = @ \ {"ENABLE"}]
        <5>1. kbd' \in KbdType /\ kbd'.stat = kbd.stat \ {"ENABLE"}
          BY <1>a, <3>1, <4>2, KbdFlags
        <5> QED BY <5>1
      <4> QED BY <2>4, <4>1, <4>2 DEF keyboard_control_write
    <3>3. Heard
      BY <2>4, <3>2 DEF keyboard_control_write, Heard
    <3> QED BY <2>4, <3>2, <3>3 DEF keyboard_control_write, GuestMay, KeyboardInv
  <2> QED BY <1>13, <2>2, <2>3, <2>4 DEF KeyboardGuest
<1> HIDE DEF Kept, Quiet
<1>14. Quiet => Kept
  BY <1>c DEF Kept, Quiet
<1>15. Kept
  BY <1>1, <1>2, <1>3, <1>4, <1>5, <1>6, <1>7, <1>8, <1>9, <1>10, <1>11, <1>12, <1>13, <1>14
  DEF KeyboardNext, UserKey, UserStep, MachineStep
<1> QED BY <1>15 DEF Kept

-----------------------------------------------------------------------------
(* The mouse. *)

LEMMA MsSent ==
    ASSUME ms \in MouseType, NEW r \in 0 .. 4, NEW j \in BOOLEAN, NEW s \in SUBSET MouseFlags,
           ms' = [ms EXCEPT !.reset = r, !.justsent = j, !.stat = s]
    PROVE  ms' \in MouseType /\ ms'.stat = s
<1>1. ms' \in MouseType
  BY DEF MouseType
<1>2. ms'.stat = s
  BY Zenon DEF MouseType
<1> QED BY <1>1, <1>2

LEMMA SendingType == ms \in MouseType =>
    Sending \in MouseType /\ ("RX_FULL" \in Sending.stat => "RX_FULL" \in ms.stat)
<1> SUFFICES ASSUME ms \in MouseType
             PROVE  Sending \in MouseType /\ ("RX_FULL" \in Sending.stat => "RX_FULL" \in ms.stat)
  OBVIOUS
<1> DEFINE s == (ms.stat \ {"TX_EMPTY"}) \cup {"TX_BUSY"}
<1>1. s \in SUBSET MouseFlags /\ ("RX_FULL" \in s => "RX_FULL" \in ms.stat) /\ TRUE \in BOOLEAN
  BY DEF MouseType, MouseFlags
<1>2. Sending = [ms EXCEPT !.stat = s, !.justsent = TRUE, !.known = TRUE]
  BY DEF Sending
<1> HIDE DEF s
<1>3. Sending \in MouseType
  BY <1>1, <1>2 DEF MouseType
<1>4. Sending.stat = s
  BY <1>2, Zenon DEF MouseType
<1> QED BY <1>1, <1>3, <1>4

(* What a command adds to the flags of a byte on its way. *)
LEMMA MsCommand ==
    ASSUME NEW m \in MouseType, NEW c \in {"none", "SET_RES", "SET_SAMPLE"},
           ms' = [m EXCEPT !.command = c]
    PROVE  ms' \in MouseType /\ ms'.stat = m.stat
<1>1. ms' \in MouseType
  BY DEF MouseType
<1>2. ms'.stat = m.stat
  BY Zenon DEF MouseType
<1> QED BY <1>1, <1>2

LEMMA MsArgument ==
    ASSUME NEW m \in MouseType, NEW c \in {"none", "SET_RES", "SET_SAMPLE"}, NEW d \in 0 .. 3, NEW t \in {0, 3, 4},
           ms' = [m EXCEPT !.command = c, !.detect = d, !.type = t]
    PROVE  ms' \in MouseType /\ ms'.stat = m.stat
<1>1. ms' \in MouseType
  BY DEF MouseType
<1>2. ms'.stat = m.stat
  BY Zenon DEF MouseType
<1> QED BY <1>1, <1>2

LEMMA MsReset ==
    ASSUME NEW m \in MouseType, NEW r \in 0 .. 4,
           ms' = [m EXCEPT !.reset = r]
    PROVE  ms' \in MouseType /\ ms'.stat = m.stat
<1>1. ms' \in MouseType
  BY DEF MouseType
<1>2. ms'.stat = m.stat
  BY Zenon DEF MouseType
<1> QED BY <1>1, <1>2

LEMMA MsResetPoll ==
    ASSUME NEW m \in MouseType, NEW r \in 0 .. 4, NEW p \in BOOLEAN,
           ms' = [m EXCEPT !.reset = r, !.poll = p]
    PROVE  ms' \in MouseType /\ ms'.stat = m.stat
<1>1. ms' \in MouseType
  BY DEF MouseType
<1>2. ms'.stat = m.stat
  BY Zenon DEF MouseType
<1> QED BY <1>1, <1>2

LEMMA MsKnown ==
    ASSUME NEW m \in MouseType, NEW k \in BOOLEAN,
           ms' = [m EXCEPT !.known = k]
    PROVE  ms' \in MouseType /\ ms'.stat = m.stat
<1>1. ms' \in MouseType
  BY DEF MouseType
<1>2. ms'.stat = m.stat
  BY Zenon DEF MouseType
<1> QED BY <1>1, <1>2

LEMMA MsPoll ==
    ASSUME NEW m \in MouseType, NEW p \in BOOLEAN,
           ms' = [m EXCEPT !.poll = p]
    PROVE  ms' \in MouseType /\ ms'.stat = m.stat
<1>1. ms' \in MouseType
  BY DEF MouseType
<1>2. ms'.stat = m.stat
  BY Zenon DEF MouseType
<1> QED BY <1>1, <1>2

(* What a step of the mouse leaves to the keyboard, and the mouse's bytes. *)
Told ==
    /\ irq' \subseteq Sources /\ irq \ irq' \subseteq {"MOUSE_RX", "MOUSE_TX"}
    /\ "RX_FULL" \in ms'.stat => "MOUSE_RX" \in irq'

LEMMA MouseStep ==
    ASSUME MouseInv, irq \subseteq Sources, "RX_FULL" \in ms.stat => "MOUSE_RX" \in irq, MouseNext
    PROVE  MouseInv' /\ Told
<1> USE MouseAssumption, SizeAssumption
<1>a. ms \in MouseType /\ msqueue \in QueueType /\ ms.stat \subseteq MouseFlags
  BY DEF MouseInv, MouseType
<1>b. UNCHANGED <<irq, ms>> => Told
  BY Zenon DEF Told
<1> DEFINE Quiet == MouseInv' /\ UNCHANGED <<irq, ms>>
           Kept == MouseInv' /\ Told
<1>1. ASSUME MouseCount PROVE Quiet
  BY <1>1 DEF MouseCount, MouseInv
<1>2. ASSUME mouse_ps2_callback PROVE Kept
  <2> DEFINE on == (ms.stat \ {"TX_BUSY"}) \cup {"TX_EMPTY", "RX_FULL"}
             off == (ms.stat \ {"TX_BUSY"}) \cup {"TX_EMPTY"}
             bits == irq \cup Transmitted
  <2>1. on \in SUBSET MouseFlags /\ off \in SUBSET MouseFlags /\ ("RX_FULL" \in off => "RX_FULL" \in ms.stat)
    BY <1>a DEF MouseFlags
  <2>2. /\ FALSE \in BOOLEAN
        /\ \A r \in 0 .. 4 : Send(r) => ms' = [ms EXCEPT !.reset = r, !.justsent = FALSE, !.stat = on]
    BY DEF Send
  <2>3. \A r \in 0 .. 4 : Idle(r) => ms' = [ms EXCEPT !.reset = r, !.justsent = FALSE, !.stat = off]
    BY DEF Idle
  <2>4. bits \subseteq Sources /\ bits \cup {"MOUSE_RX"} \subseteq Sources /\ irq \cup {"MOUSE_TX"} \subseteq Sources
    BY DEF Transmitted, Sources
  <2> HIDE DEF on, off
  <2>5. \A r \in 0 .. 4 : Send(r) => ms' \in MouseType
    BY <1>a, <2>1, <2>2, MsSent
  <2>6. \A r \in 0 .. 4 : Idle(r) => ms' \in MouseType /\ ms'.stat = off
    BY <1>a, <2>1, <2>2, <2>3, MsSent
  <2>7. \/ /\ \E r \in 0 .. 4 : Send(r)
           /\ irq' = bits \cup {"MOUSE_RX"}
        \/ /\ \E r \in 0 .. 4 : Idle(r)
           /\ irq' \in {bits, irq \cup {"MOUSE_TX"}}
    <3>1. \A r \in {0, 3, 4} : r \in 0 .. 4
      OBVIOUS
    <3> QED BY <1>2, <3>1, Zenon DEF mouse_ps2_callback
  <2>8. ms' \in MouseType /\ Told
    <3>1. CASE (\E r \in 0 .. 4 : Send(r)) /\ irq' = bits \cup {"MOUSE_RX"}
      BY <2>4, <2>5, <3>1 DEF Told
    <3>2. CASE (\E r \in 0 .. 4 : Idle(r)) /\ irq' \in {bits, irq \cup {"MOUSE_TX"}}
      <4>1. ms' \in MouseType /\ ("RX_FULL" \in ms'.stat => "RX_FULL" \in ms.stat)
        BY <2>1, <2>6, <3>2
      <4> QED BY <2>4, <3>2, <4>1 DEF Told
    <3> QED BY <2>7, <3>1, <3>2
  <2>9. mcallback' \in 0 .. 4 \cup 0 .. Resend
    BY <1>2 DEF mouse_ps2_callback, MouseInv
  <2> QED BY <1>2, <2>8, <2>9 DEF mouse_ps2_callback, MouseInv
<1>3. ASSUME mouse_control_write PROVE Kept
  <2>1. ms' = [ms EXCEPT !.reset = 1] /\ 1 \in 0 .. 4
    BY <1>3 DEF mouse_control_write
  <2>2. ms' \in MouseType /\ ms'.stat = ms.stat
    BY <1>a, <2>1, MsReset
  <2> QED BY <1>3, <2>2 DEF mouse_control_write, MouseInv, Told
<1>4. ASSUME mouse_data_write PROVE Kept
  <2>1. Sending \in MouseType /\ ("RX_FULL" \in Sending.stat => "RX_FULL" \in ms.stat)
    BY <1>a, SendingType
  <2>2. /\ ms' \in MouseType /\ ms'.stat = Sending.stat
        /\ mcallback' \in {2, Resend, mcallback} /\ msqueue' \in QueueType
    <3>1. ps2_queue(msqueue, 1) \in QueueType /\ ps2_queue(msqueue, 2) \in QueueType
      BY <1>a, QueueKept
    <3>2. ASSUME NEW val \in Rates, Argument(val)
          PROVE  /\ ms' \in MouseType /\ ms'.stat = Sending.stat
                 /\ mcallback' \in {2, Resend, mcallback} /\ msqueue' \in QueueType
      <4>1. Knock(val) \in 0 .. 3 /\ Knocked(val) \in {0, 3, 4} /\ "none" \in {"none", "SET_RES", "SET_SAMPLE"}
        BY <1>a DEF Knock, Knocked, MouseType
      <4>2. CASE ms' = [Sending EXCEPT !.command = "none"]
        <5>1. ms' \in MouseType /\ ms'.stat = Sending.stat
          BY <2>1, <4>1, <4>2, MsCommand
        <5> QED BY <3>1, <3>2, <5>1 DEF Argument
      <4>3. CASE ms' = [Sending EXCEPT !.command = "none", !.detect = Knock(val), !.type = Knocked(val)]
        <5>1. ms' \in MouseType /\ ms'.stat = Sending.stat
          BY <2>1, <4>1, <4>3, MsArgument
        <5> QED BY <3>1, <3>2, <5>1 DEF Argument
      <4> QED BY <3>2, <4>2, <4>3 DEF Argument
    <3>3. ASSUME NEW val \in Orders, Order(val)
          PROVE  /\ ms' \in MouseType /\ ms'.stat = Sending.stat
                 /\ mcallback' \in {2, Resend, mcallback} /\ msqueue' \in QueueType
      <4>1. 2 \in 0 .. 4 /\ TRUE \in BOOLEAN /\ FALSE \in BOOLEAN
        OBVIOUS
      <4>2. \/ ms' = [Sending EXCEPT !.reset = 2, !.poll = FALSE]
            \/ ms' = Sending
            \/ ms' = [Sending EXCEPT !.poll = TRUE]
            \/ ms' = [Sending EXCEPT !.known = FALSE]
            \/ val \in {"SET_SAMPLE", "SET_RES"} /\ ms' = [Sending EXCEPT !.command = val]
        BY <3>3, Zenon DEF Order
      <4>3. ms' \in MouseType /\ ms'.stat = Sending.stat
        <5>1. CASE ms' = [Sending EXCEPT !.reset = 2, !.poll = FALSE]
          BY <2>1, <4>1, <5>1, MsResetPoll
        <5>2. CASE ms' = Sending
          BY <2>1, <5>2
        <5>3. CASE ms' = [Sending EXCEPT !.poll = TRUE]
          BY <2>1, <4>1, <5>3, MsPoll
        <5>4. CASE val \in {"SET_SAMPLE", "SET_RES"} /\ ms' = [Sending EXCEPT !.command = val]
          <6>1. val \in {"none", "SET_RES", "SET_SAMPLE"} /\ ms' = [Sending EXCEPT !.command = val]
            BY <5>4
          <6> QED BY <2>1, <6>1, MsCommand
        <5>5. CASE ms' = [Sending EXCEPT !.known = FALSE]
          BY <2>1, <4>1, <5>5, MsKnown
        <5> QED BY <4>2, <5>1, <5>2, <5>3, <5>4, <5>5
      <4>4. mcallback' \in {2, Resend, mcallback}
        BY <3>3 DEF Order
      <4>5. msqueue' \in {msqueue, ps2_queue(msqueue, 1), ps2_queue(msqueue, 2)}
        BY <3>3, Zenon DEF Order
      <4> QED BY <1>a, <3>1, <4>3, <4>4, <4>5
    <3> QED BY <1>4, <3>2, <3>3 DEF mouse_data_write
  <2>3. irq' \subseteq Sources /\ irq \ irq' \subseteq {"MOUSE_TX"}
    BY <1>4, Zenon DEF mouse_data_write, Lower
  <2>4. Told
    BY <2>1, <2>2, <2>3 DEF Told
  <2> QED BY <2>2, <2>4 DEF MouseInv
<1>5. ASSUME mouse_data_read PROVE Kept
  <2>1. ms' = [ms EXCEPT !.stat = @ \ {"RX_FULL"}]
    BY <1>5 DEF mouse_data_read
  <2>2. ms' \in MouseType
    BY <1>a, <2>1 DEF MouseType
  <2>3. ms'.stat = ms.stat \ {"RX_FULL"}
    BY <2>1, <1>a, Zenon DEF MouseType
  <2>4. irq' \subseteq Sources /\ irq \ irq' \subseteq {"MOUSE_RX"}
    BY <1>5, Zenon DEF mouse_data_read, Lower
  <2>5. Told
    BY <2>3, <2>4 DEF Told
  <2>6. mcallback' \in 0 .. 4 \cup 0 .. Resend
    BY <1>5 DEF mouse_data_read, MouseInv
  <2> QED BY <1>5, <2>2, <2>5, <2>6 DEF mouse_data_read, MouseInv
<1>6. ASSUME mouse_reset PROVE Kept
  <2>1. ms' \in MouseType /\ ms'.stat = {}
    BY <1>6 DEF mouse_reset, MouseReset, MouseType, MouseFlags
  <2>2. irq' \subseteq Sources /\ irq \ irq' \subseteq {"MOUSE_RX", "MOUSE_TX"}
    BY <1>6, Zenon DEF mouse_reset
  <2>3. msqueue' \in QueueType
    BY <1>6 DEF mouse_reset, EmptyQueue, QueueType
  <2>4. Told
    BY <2>1, <2>2 DEF Told
  <2> QED BY <1>6, <2>1, <2>3, <2>4 DEF mouse_reset, MouseInv
<1> HIDE DEF Kept, Quiet
<1>7. Quiet => Kept
  BY <1>b DEF Kept, Quiet
<1>8. Kept
  BY <1>1, <1>2, <1>3, <1>4, <1>5, <1>6, <1>7 DEF MouseNext, MouseCallback
<1> QED BY <1>8 DEF Kept

-----------------------------------------------------------------------------
(* The pointer that follows the host's mouse. *)

(* The step of every call, as CursorStays says it of a step that changes    *)
(* the pointer's record.                                                    *)
Stays == ~hack'.linked /\ (hack.linked => hack'.pointer = hack.pointer) =>
             mouse_hack_get_pos(hack)' = mouse_hack_get_pos(hack)

LEMMA PosUnlinked == (~hack'.linked => mouse_hack_get_pos(hack)' = hack'.unlinked)
                     /\ \A h : ~h.linked => mouse_hack_get_pos(h) = h.unlinked
BY DEF mouse_hack_get_pos

LEMMA PosSame == ASSUME NEW g, NEW h, g.linked = h.linked, g.pointer = h.pointer, g.active = h.active,
                        g.unlinked = h.unlinked
                 PROVE  mouse_hack_get_pos(g) = mouse_hack_get_pos(h)
BY DEF mouse_hack_get_pos

LEMMA HackStep == HackInv /\ HackNext => HackInv' /\ (hack' = hack \/ Stays)
<1> SUFFICES ASSUME HackInv, HackNext PROVE HackInv' /\ (hack' = hack \/ Stays)
  OBVIOUS
<1>1. CASE hack' = hack
  BY <1>1 DEF HackInv
<1>2. ASSUME NEW b, hack' = [hack EXCEPT !.box = b] PROVE HackInv' /\ Stays
  <2>1. HackInv'
    BY <1>2 DEF HackInv
  <2>2. hack'.linked = hack.linked /\ hack'.unlinked = hack.unlinked
    BY <1>2 DEF HackInv
  <2> QED BY <2>1, <2>2, PosUnlinked DEF Stays
<1>3. ASSUME NEW p \in Numbers, NEW at, p <= 4, hack' = [hack EXCEPT !.active[p] = at] PROVE HackInv' /\ Stays
  <2>1. HackInv'
    BY <1>3 DEF HackInv
  <2>2. hack'.linked = hack.linked /\ hack'.unlinked = hack.unlinked
    BY <1>3 DEF HackInv
  <2> QED BY <2>1, <2>2, PosUnlinked DEF Stays
<1>4. ASSUME NEW p \in Numbers, p <= 4, hack' = [hack EXCEPT !.pointer = p, !.linked = TRUE] PROVE HackInv' /\ Stays
  <2>1. p \in Pointers
    BY <1>4, HackAssumption DEF Pointers
  <2> QED BY <1>4, <2>1 DEF HackInv, Stays
<1>5. ASSUME NEW p \in Numbers, p <= 4, NEW h, h = [hack EXCEPT !.pointer = p],
             hack' = [h EXCEPT !.unlinked = mouse_hack_get_pos(h), !.linked = FALSE]
      PROVE  HackInv' /\ Stays
  <2> DEFINE u == mouse_hack_get_pos(h)
  <2> HIDE DEF u
  <2>1. p \in Pointers
    BY <1>5, HackAssumption DEF Pointers
  <2>2. h = [pointer |-> p, linked |-> hack.linked, unlinked |-> hack.unlinked,
             active |-> hack.active, box |-> hack.box]
    BY <1>5 DEF HackInv
  <2>3. hack' = [h EXCEPT !.unlinked = u, !.linked = FALSE]
    BY <1>5 DEF u
  <2>4. hack' = [pointer |-> p, linked |-> FALSE, unlinked |-> u,
                 active |-> hack.active, box |-> hack.box]
    BY <2>2, <2>3
  <2>5. HackInv'
    BY <2>1, <2>4 DEF HackInv
  <2>6. hack'.pointer = p /\ hack'.unlinked = u /\ ~hack'.linked
    BY <2>4
  <2>7. CASE hack.linked /\ p = hack.pointer
    <3>1. h.linked = hack.linked /\ h.pointer = hack.pointer /\ h.active = hack.active /\ h.unlinked = hack.unlinked
      BY <2>2, <2>7
    <3>2. u = mouse_hack_get_pos(hack)
      BY <3>1, PosSame DEF u
    <3> QED BY <2>5, <2>6, <3>2, PosUnlinked DEF Stays
  <2>8. CASE ~hack.linked
    <3>1. ~h.linked /\ h.unlinked = hack.unlinked
      BY <2>2, <2>8
    <3>2. u = mouse_hack_get_pos(hack)
      BY <2>8, <3>1, PosUnlinked DEF u
    <3> QED BY <2>5, <2>6, <3>2, PosUnlinked DEF Stays
  <2>9. CASE hack.linked /\ p # hack.pointer
    BY <2>5, <2>6, <2>9 DEF Stays
  <2> QED BY <2>7, <2>8, <2>9
<1>6. CASE MoveX \/ MoveY \/ Buttons \/ NewScreen \/ osword_21_4 \/ mouse_hack_osmouse \/ osword_21_3 \/ OtherSwi
  BY <1>1, <1>6 DEF MoveX, MoveY, Buttons, NewScreen, osword_21_4, mouse_hack_osmouse, osword_21_3, OtherSwi
<1>7. CASE osword_21_1
  BY <1>2, <1>7 DEF osword_21_1
<1>8. CASE osword_21_0
  BY <1>1, <1>3, <1>8 DEF osword_21_0
<1>9. CASE osbyte_106
  <2>1. PICK p \in Numbers, unlink \in BOOLEAN :
           hack' = IF p > 4 THEN hack
                   ELSE IF unlink THEN
                       LET h == [hack EXCEPT !.pointer = p]
                       IN [h EXCEPT !.unlinked = mouse_hack_get_pos(h), !.linked = FALSE]
                   ELSE [hack EXCEPT !.pointer = p, !.linked = TRUE]
    BY <1>9, Zenon DEF osbyte_106
  <2>2. CASE p > 4
    BY <1>1, <2>1, <2>2
  <2>3. CASE ~(p > 4) /\ unlink
    <3>1. p <= 4
      BY <2>3, HackAssumption
    <3>2. hack' = [[hack EXCEPT !.pointer = p]
                       EXCEPT !.unlinked = mouse_hack_get_pos([hack EXCEPT !.pointer = p]), !.linked = FALSE]
      BY <2>1, <2>3
    <3> QED BY <1>5, <3>1, <3>2
  <2>4. CASE ~(p > 4) /\ ~unlink
    <3>1. p <= 4
      BY <2>4, HackAssumption
    <3> QED BY <1>4, <2>1, <2>4, <3>1
  <2> QED BY <2>2, <2>3, <2>4
<1>10. CASE hack_reset
  <2>1. hack' = [pointer |-> 0, linked |-> TRUE, unlinked |-> hack.unlinked,
                 active |-> hack.active, box |-> hack.box]
    BY <1>10 DEF hack_reset, HackInv
  <2> QED BY <2>1 DEF HackInv, Stays, Pointers
<1> QED BY <1>6, <1>7, <1>8, <1>9, <1>10 DEF HackNext, opSWI

-----------------------------------------------------------------------------
(* The three together. *)

LEMMA DeviceStep == DeviceInv /\ [Next]_vars => DeviceInv'
<1> SUFFICES ASSUME DeviceInv, [Next]_vars PROVE DeviceInv'
  OBVIOUS
<1>1. CASE KeyboardPart
  <2>1. KeyboardInv' /\ Heard
    BY <1>1, KeyboardStep DEF KeyboardPart, DeviceInv, ByteInterrupts
  <2>2. MouseInv' /\ ms' = ms
    BY <1>1 DEF KeyboardPart, DeviceInv, MouseInv, mvars
  <2>3. HackInv'
    BY <1>1 DEF KeyboardPart, DeviceInv, HackInv, hvars
  <2> QED BY <2>1, <2>2, <2>3 DEF DeviceInv, ByteInterrupts, Heard
<1>2. CASE MousePart
  <2>1. MouseInv' /\ Told
    BY <1>2, MouseStep DEF MousePart, DeviceInv, ByteInterrupts
  <2>2. KeyboardInv' /\ kbd' = kbd
    BY <1>2 DEF MousePart, DeviceInv, KeyboardInv, kvars
  <2>3. HackInv'
    BY <1>2 DEF MousePart, DeviceInv, HackInv, hvars
  <2> QED BY <2>1, <2>2, <2>3 DEF DeviceInv, ByteInterrupts, Told
<1>3. CASE HackPart
  <2>1. HackInv'
    BY <1>3, HackStep DEF HackPart, DeviceInv
  <2> QED BY <1>3, <2>1 DEF HackPart, DeviceInv, KeyboardInv, MouseInv, ByteInterrupts, kvars, mvars
<1>4. CASE UNCHANGED vars
  BY <1>4 DEF vars, kvars, mvars, hvars, DeviceInv, KeyboardInv, MouseInv, HackInv, ByteInterrupts
<1> QED BY <1>1, <1>2, <1>3, <1>4 DEF Next

LEMMA DeviceAlways == Spec => []DeviceInv
<1>1. Init => DeviceInv
  BY InitDevices
<1>2. DeviceInv /\ [Next]_vars => DeviceInv'
  BY DeviceStep
<1> QED BY <1>1, <1>2, PTL DEF Spec

(* A queue's count and pointers stay inside it and every byte in a receive  *)
(* register has its interrupt, for every size of the queue, every length of *)
(* the delays and all keys and commands.                                    *)
THEOREM BytesAreAnnounced == Spec => []Ps2Inv
<1>1. DeviceInv => Ps2Inv
  BY DEF DeviceInv, KeyboardInv, KbdType, Flags, QueueType, MouseInv, MouseType, MouseFlags, HackInv, Ps2Inv, TypeOK
<1> QED BY <1>1, DeviceAlways, PTL

(* Unlinking leaves the cursor where it is drawn, and nothing but linking it*)
(* moves it again, for all places, boxes, pointers and screens.             *)
THEOREM UnlinkedCursorsStay == Spec => CursorStays
<1>1. DeviceInv /\ [Next]_vars => [Stays]_<<hack>>
  BY HackStep DEF DeviceInv, Next, KeyboardPart, MousePart, HackPart, vars, hvars
<1> QED BY <1>1, DeviceAlways, PTL DEF Spec, CursorStays, Stays

-----------------------------------------------------------------------------
(* The IDE channel: its registers.                                          *)

Statuses == {"READY", "BUSY", "DRQ", "ERR", "NONE"}
Commands == {"READ", "WRITE", "FORMAT", "SRST", "RESTORE", "VERIFY", "PIDENTIFY", "SETIDLE1",
             "IDENTIFY", "PACKETCMD", "SPECIFY", "NONE"}
Counts == 0 .. 2 + MaxCount \cup Spts
PacketStates == 0 .. 6 \cup {128, 255}
Cells == Words \cup Packets \cup {Cd(b)[k] : b \in Blocks, k \in 1 .. BlockSize}
Registers ==
    [atastat : Statuses, command : Commands, secount : Counts, sector : Nat, cylinder : Nat,
     head : Nat, drive : {0, 1}, reset : BOOLEAN, pos : 0 .. BlockSize,
     buffer : [0 .. BlockSize -> Cells], packetstatus : PacketStates, packlen : Nat,
     cdpos : Nat, cdlen : 0 .. Cap, spt : Nat \ {0}, hpc : Nat \ {0}]
Image == [Blocks -> [1 .. BlockSize -> Words]]

(* The rest of a transfer lies on the disc, the registers name a sector.    *)
Fits(i) == /\ i.secount \in 1 .. MaxCount /\ i.sector \in 1 .. i.spt /\ i.head < i.hpc
           /\ ide_get_sector(i) + i.secount <= Cap
OnDisc(i) == i.drive = 0 => Fits(i)
(* The same of READ CD, whose block is in the buffer.                       *)
CdFits(i) == /\ i.cdpos >= 1 /\ i.cdpos + i.cdlen <= Cap /\ i.packlen = BlockSize
             /\ BufferWords(i) = Cd(i.cdpos - 1)
Selecting(i) == i.packlen = 1 /\ i.buffer[0] \in Packets /\ i.buffer[0][1] = "MODE_SELECT_10"

(* What the registers say while a callback is due.                          *)
PacketDue(i) ==
    /\ i.packetstatus # 255
    /\ i.packetstatus = 1 => i.buffer[0] \in Packets
    /\ i.packetstatus = 3 => i.packlen = 1 /\ i.pos = 0
    /\ i.packetstatus \in {4, 5} => Selecting(i)
    /\ i.packetstatus = 6 => i.pos = 0 /\ i.atastat = "BUSY" /\ CdFits(i)
Due(i) ==
    /\ i.command \notin {"WRITE", "FORMAT", "NONE"}
    /\ i.command = "READ" => i.atastat = "BUSY" /\ OnDisc(i)
    /\ i.command = "SPECIFY" => i.secount \in Spts
    /\ i.command = "PACKETCMD" => PacketDue(i)

(* What they say while the driver moves words.                              *)
PacketData(i) ==
    \/ i.packetstatus = 0 /\ i.pos = 0
    \/ i.packetstatus = 255 /\ i.pos = 0 /\ i.packlen = 1
    \/ i.packetstatus = 4 /\ i.pos = 1 /\ Selecting(i)
    \/ i.packetstatus = 6 /\ CdFits(i)
DataPhase(i, d) ==
    /\ i.pos < BlockSize
    /\ i.command \in {"READ", "WRITE", "FORMAT", "IDENTIFY", "PIDENTIFY", "PACKETCMD"}
    /\ i.command = "READ" => i.drive = 0 /\ Fits(i) /\ BufferWords(i) = d[ide_get_sector(i)]
    /\ i.command \in {"WRITE", "FORMAT"} => OnDisc(i) /\ \A k \in 0 .. i.pos - 1 : i.buffer[k] \in Words
    /\ i.command = "PACKETCMD" => PacketData(i)

Unselected(i) == i.packetstatus \notin {4, 5}

Well(i, d) == i \in Registers /\ d \in Image /\ (i.command # "PACKETCMD" => Unselected(i))

(* In the data phase, and while the driver waits for an interrupt.          *)
Moving(i, cb, q, d) == ~cb /\ ~q /\ i.atastat = "DRQ" /\ DataPhase(i, d)
Waiting(i, cb, q, d) ==
    /\ q = ~cb
    /\ cb => Due(i)
    /\ q => i.atastat # "BUSY" /\ IF i.atastat = "DRQ" THEN DataPhase(i, d) ELSE Unselected(i)

IdeInv ==
    /\ Well(ide, disc) /\ idecallback \in BOOLEAN /\ ideirq \in BOOLEAN
    /\ guest \in {"idle", "irq", "data", "reset", "boot"}
    /\ ide.reset => guest \in {"reset", "boot"}
    /\ guest \in {"idle", "boot"} => ~idecallback /\ Unselected(ide)
    /\ guest = "reset" => Unselected(ide) /\ idecallback = ide.reset /\ (ide.reset => ide.atastat = "BUSY")
    /\ guest = "data" => Moving(ide, idecallback, ideirq, disc)
    /\ guest = "irq" => Waiting(ide, idecallback, ideirq, disc)

-----------------------------------------------------------------------------
(* Registers. *)

LEMMA Literals ==
    /\ {"READY", "BUSY", "DRQ", "ERR", "NONE"} \subseteq Statuses
    /\ 0 \in 0 .. BlockSize /\ 1 \in 0 .. BlockSize /\ 2 \in 0 .. BlockSize
    /\ 0 \in Counts /\ 1 \in Counts /\ 2 \in Counts /\ 0 \in 0 .. Cap
    /\ {0, 1, 2, 3, 4, 5, 6, 128, 255} \subseteq PacketStates
    /\ TRUE \in BOOLEAN /\ FALSE \in BOOLEAN /\ 0 \in Nat /\ 1 \in Nat /\ 0 \in {0, 1}
    /\ BlockSize \in Nat /\ BlockSize >= 2 /\ Cap \in Nat /\ MaxCount \in Nat
BY IdeAssumption DEF Statuses, Counts, PacketStates

(* The registers that name a sector, and those a transfer goes by.          *)
Place(i, j) == /\ j.sector = i.sector /\ j.cylinder = i.cylinder /\ j.head = i.head
               /\ j.spt = i.spt /\ j.hpc = i.hpc
Rest(i, j) == /\ Place(i, j) /\ j.command = i.command /\ j.drive = i.drive /\ j.reset = i.reset
              /\ j.secount = i.secount

LEMMA SectorType == ASSUME NEW i \in Registers, i.sector >= 1 PROVE ide_get_sector(i) \in Nat
<1>1. i.cylinder \in Nat /\ i.hpc \in Nat /\ i.head \in Nat /\ i.spt \in Nat /\ i.sector - 1 \in Nat
  BY DEF Registers
<1>2. i.cylinder * i.hpc + i.head \in Nat
  BY <1>1
<1>3. (i.cylinder * i.hpc + i.head) * i.spt \in Nat
  BY <1>1, <1>2
<1> QED BY <1>1, <1>3 DEF ide_get_sector

LEMMA FitsBlocks == ASSUME NEW i \in Registers, Fits(i)
                    PROVE  ide_get_sector(i) \in Blocks /\ ide_get_sector(i) + i.secount \in 1 .. Cap
BY SectorType, Literals DEF Fits, Blocks

LEMMA FitsSame == ASSUME NEW i \in Registers, NEW j, Place(i, j), j.secount = i.secount, Fits(i)
                  PROVE  Fits(j) /\ ide_get_sector(j) = ide_get_sector(i)
BY DEF Place, Fits, ide_get_sector

LEMMA ZerosType == Zeros \in [1 .. BlockSize -> Words] /\ Words \subseteq Cells
BY DEF Zeros, Words, Cells

LEMMA FillType ==
    ASSUME NEW i \in Registers, NEW words \in [1 .. BlockSize -> Cells]
    PROVE  /\ Fill(i, words) \in Registers /\ Rest(i, Fill(i, words)) /\ BufferWords(Fill(i, words)) = words
           /\ Fill(i, words).pos = i.pos /\ Fill(i, words).atastat = i.atastat
           /\ Fill(i, words).packetstatus = i.packetstatus /\ Fill(i, words).packlen = i.packlen
           /\ Fill(i, words).cdpos = i.cdpos /\ Fill(i, words).cdlen = i.cdlen
<1> DEFINE b == [k \in 0 .. BlockSize |-> IF k < BlockSize THEN words[k + 1] ELSE i.buffer[k]]
           f == Fill(i, words)
<1>0. i.buffer \in [0 .. BlockSize -> Cells] /\ BlockSize \in Nat
  BY Literals DEF Registers
<1>1. b \in [0 .. BlockSize -> Cells]
  <2>1. ASSUME NEW k \in 0 .. BlockSize PROVE (IF k < BlockSize THEN words[k + 1] ELSE i.buffer[k]) \in Cells
    <3>1. CASE k < BlockSize
      <4>1. k + 1 \in 1 .. BlockSize
        BY <1>0, <3>1
      <4> QED BY <3>1, <4>1
    <3>2. CASE ~(k < BlockSize)
      BY <1>0, <3>2
    <3> QED BY <3>1, <3>2
  <2> QED BY <2>1
<1>2. f = [i EXCEPT !.buffer = b]
  BY DEF Fill
<1>3. \A k \in 1 .. BlockSize : b[k - 1] = words[k]
  BY Literals
<1> HIDE DEF b, f
<1>4. f \in Registers
  BY <1>1, <1>2 DEF Registers
<1>5. Rest(i, f)
  BY <1>2 DEF Rest, Place, Registers
<1>6. f.buffer = b
  BY <1>2 DEF Registers
<1>7. BufferWords(f) = words
  BY <1>3, <1>6 DEF BufferWords
<1>8. f.pos = i.pos /\ f.atastat = i.atastat /\ f.packetstatus = i.packetstatus /\ f.packlen = i.packlen
      /\ f.cdpos = i.cdpos /\ f.cdlen = i.cdlen
  BY <1>2 DEF Registers
<1> QED BY <1>4, <1>5, <1>7, <1>8 DEF f

LEMMA DrqType ==
    ASSUME NEW i \in Registers
    PROVE  /\ Drq(i) \in Registers /\ Rest(i, Drq(i)) /\ Drq(i).atastat = "DRQ" /\ Drq(i).pos = 0
           /\ Drq(i).packetstatus = i.packetstatus /\ Drq(i).buffer = i.buffer
<1>1. Drq(i) \in Registers
  BY Literals, ZenonT(30) DEF Drq, Registers
<1> QED BY <1>1 DEF Drq, Registers, Rest, Place

LEMMA DataInType ==
    ASSUME NEW i \in Registers, NEW status \in PacketStates, NEW len \in Nat
    PROVE  /\ DataIn(i, status, len) \in Registers /\ Place(i, DataIn(i, status, len))
           /\ DataIn(i, status, len).packetstatus = status /\ DataIn(i, status, len).packlen = len
           /\ DataIn(i, status, len).pos = 0 /\ DataIn(i, status, len).atastat = i.atastat
           /\ DataIn(i, status, len).command = i.command /\ DataIn(i, status, len).reset = i.reset
           /\ DataIn(i, status, len).buffer = i.buffer
<1>0. 2 \in Counts /\ 0 \in 0 .. BlockSize
  BY Literals
<1>1. DataIn(i, status, len) \in Registers
  BY <1>0 DEF DataIn, Registers
<1> QED BY <1>1 DEF DataIn, Registers, Place

LEMMA CdType == ASSUME NEW b \in Blocks PROVE Cd(b) \in [1 .. BlockSize -> Cells]
<1>1. DOMAIN Cd(b) = 1 .. BlockSize /\ Cd(b) = [k \in 1 .. BlockSize |-> Cd(b)[k]]
  BY DEF Cd
<1>2. \A k \in 1 .. BlockSize : Cd(b)[k] \in Cells
  BY DEF Cells
<1> QED BY <1>1, <1>2

LEMMA ReadCdType ==
    ASSUME NEW i \in Registers, NEW at \in Blocks, NEW n \in 1 .. Cap - at
    PROVE  /\ ReadCd(i, at, n) \in Registers /\ CdFits(ReadCd(i, at, n))
           /\ ReadCd(i, at, n).packetstatus = 6 /\ ReadCd(i, at, n).pos = 0
           /\ ReadCd(i, at, n).cdpos = at + 1 /\ ReadCd(i, at, n).cdlen = n - 1
           /\ ReadCd(i, at, n).atastat = i.atastat
           /\ ReadCd(i, at, n).command = i.command /\ ReadCd(i, at, n).reset = i.reset
<1> DEFINE j == DataIn(i, 6, BlockSize)
           k == [j EXCEPT !.cdpos = at + 1, !.cdlen = n - 1]
<1>0. 6 \in PacketStates /\ BlockSize \in Nat
  BY Literals
<1>1. /\ j \in Registers /\ j.packetstatus = 6 /\ j.packlen = BlockSize /\ j.pos = 0
      /\ j.atastat = i.atastat /\ j.command = i.command /\ j.reset = i.reset
  BY <1>0, DataInType
<1> HIDE DEF j
<1>2. at + 1 \in Nat /\ n - 1 \in 0 .. Cap /\ at + 1 + (n - 1) <= Cap /\ (at + 1) - 1 = at /\ at + 1 >= 1
  BY Literals DEF Blocks
<1>3. k \in Registers
  BY <1>1, <1>2, ZenonT(30) DEF Registers
<1>4. /\ k.packetstatus = 6 /\ k.packlen = BlockSize /\ k.pos = 0 /\ k.cdpos = at + 1 /\ k.cdlen = n - 1
      /\ k.atastat = i.atastat /\ k.command = i.command /\ k.reset = i.reset
  BY <1>1 DEF Registers
<1> HIDE DEF k
<1>5. ReadCd(i, at, n) = Fill(k, Cd(at))
  BY DEF ReadCd, k, j
<1> QED BY <1>2, <1>3, <1>4, <1>5, CdType, FillType DEF CdFits, Rest

LEMMA NextSectorType ==
    ASSUME NEW i \in Registers, i.sector \in 1 .. i.spt, i.head < i.hpc
    PROVE  /\ ide_next_sector(i) \in Registers
           /\ ide_next_sector(i).sector \in 1 .. i.spt /\ ide_next_sector(i).head < i.hpc
           /\ ide_get_sector(ide_next_sector(i)) = ide_get_sector(i) + 1
           /\ ide_next_sector(i).spt = i.spt /\ ide_next_sector(i).hpc = i.hpc
           /\ ide_next_sector(i).secount = i.secount /\ ide_next_sector(i).command = i.command
           /\ ide_next_sector(i).drive = i.drive /\ ide_next_sector(i).reset = i.reset
           /\ ide_next_sector(i).packetstatus = i.packetstatus /\ ide_next_sector(i).pos = i.pos
<1> DEFINE j == ide_next_sector(i)
<1>0. /\ i.cylinder \in Nat /\ i.hpc \in Nat /\ i.head \in Nat /\ i.spt \in Nat /\ i.sector \in Nat
      /\ i.sector + 1 \in Nat /\ i.head + 1 \in Nat /\ i.cylinder + 1 \in Nat /\ i.cylinder * i.hpc \in Nat
      /\ 1 \in Nat /\ 0 \in Nat /\ i.hpc > 0 /\ i.spt > 0
  BY DEF Registers
<1>1. CASE i.sector # i.spt
  <2>1. j = [i EXCEPT !.sector = i.sector + 1]
    BY <1>1 DEF ide_next_sector
  <2>2. j \in Registers
    BY <1>0, <2>1 DEF Registers
  <2>3. /\ j.sector = i.sector + 1 /\ j.head = i.head /\ j.cylinder = i.cylinder /\ j.spt = i.spt /\ j.hpc = i.hpc
        /\ j.secount = i.secount /\ j.command = i.command /\ j.drive = i.drive /\ j.reset = i.reset
        /\ j.packetstatus = i.packetstatus /\ j.pos = i.pos
    BY <2>1 DEF Registers
  <2> HIDE DEF j
  <2> DEFINE x == (i.cylinder * i.hpc + i.head) * i.spt
  <2>4. x \in Nat /\ ide_get_sector(i) = x + i.sector - 1 /\ ide_get_sector(j) = x + j.sector - 1
    BY <1>0, <2>3 DEF ide_get_sector
  <2> HIDE DEF x
  <2>5. i.sector + 1 \in 1 .. i.spt
    BY <1>0, <1>1
  <2>6. x + (i.sector + 1) - 1 = (x + i.sector - 1) + 1
    BY <1>0, <2>4
  <2>7. j.sector \in 1 .. i.spt /\ ide_get_sector(j) = ide_get_sector(i) + 1
    BY <2>3, <2>4, <2>5, <2>6
  <2> QED BY <2>2, <2>3, <2>7 DEF j
<1>2. CASE i.sector = i.spt /\ i.head + 1 # i.hpc
  <2>1. j = [i EXCEPT !.sector = 1, !.head = i.head + 1]
    BY <1>2 DEF ide_next_sector
  <2>2. j \in Registers
    BY <1>0, <2>1 DEF Registers
  <2>3. /\ j.sector = 1 /\ j.head = i.head + 1 /\ j.cylinder = i.cylinder /\ j.spt = i.spt /\ j.hpc = i.hpc
        /\ j.secount = i.secount /\ j.command = i.command /\ j.drive = i.drive /\ j.reset = i.reset
        /\ j.packetstatus = i.packetstatus /\ j.pos = i.pos
    BY <2>1 DEF Registers
  <2> HIDE DEF j
  <2> DEFINE x == i.cylinder * i.hpc + i.head
  <2>4. x \in Nat /\ (x + 1) * i.spt = x * i.spt + i.spt /\ x * i.spt \in Nat
    BY <1>0
  <2>5. ide_get_sector(i) = x * i.spt + i.spt - 1
    BY <1>0, <1>2 DEF ide_get_sector
  <2>6. i.cylinder * i.hpc + j.head = x + 1
    BY <1>0, <2>3
  <2>7. ide_get_sector(j) = (x + 1) * i.spt + 1 - 1
    BY <2>3, <2>6 DEF ide_get_sector
  <2> HIDE DEF x
  <2>8. j.sector \in 1 .. i.spt /\ j.head < i.hpc
    <3>1. 1 \in 1 .. i.spt /\ i.head + 1 < i.hpc
      BY <1>0, <1>2
    <3> QED BY <2>3, <3>1
  <2>9. ide_get_sector(j) = ide_get_sector(i) + 1
    BY <1>0, <2>4, <2>5, <2>7
  <2> QED BY <2>2, <2>3, <2>8, <2>9 DEF j
<1>3. CASE i.sector = i.spt /\ i.head + 1 = i.hpc
  <2>1. j = [i EXCEPT !.sector = 1, !.head = 0, !.cylinder = i.cylinder + 1]
    BY <1>3 DEF ide_next_sector
  <2>2. j \in Registers
    BY <1>0, <2>1 DEF Registers
  <2>3. /\ j.sector = 1 /\ j.head = 0 /\ j.cylinder = i.cylinder + 1 /\ j.spt = i.spt /\ j.hpc = i.hpc
        /\ j.secount = i.secount /\ j.command = i.command /\ j.drive = i.drive /\ j.reset = i.reset
        /\ j.packetstatus = i.packetstatus /\ j.pos = i.pos
    BY <2>1 DEF Registers
  <2> HIDE DEF j
  <2> DEFINE x == i.cylinder * i.hpc + i.head
  <2>4. x \in Nat /\ (x + 1) * i.spt = x * i.spt + i.spt /\ x * i.spt \in Nat
    BY <1>0
  <2>5. ide_get_sector(i) = x * i.spt + i.spt - 1
    BY <1>0, <1>3 DEF ide_get_sector
  <2>6. (i.cylinder + 1) * i.hpc + 0 = x + 1
    BY <1>0, <1>3
  <2>7. ide_get_sector(j) = (x + 1) * i.spt + 1 - 1
    BY <2>3, <2>6 DEF ide_get_sector
  <2> HIDE DEF x
  <2>8. j.sector \in 1 .. i.spt /\ j.head < i.hpc
    BY <1>0, <1>3, <2>3
  <2>9. ide_get_sector(j) = ide_get_sector(i) + 1
    BY <1>0, <2>4, <2>5, <2>7
  <2> QED BY <2>2, <2>3, <2>8, <2>9 DEF j
<1> QED BY <1>1, <1>2, <1>3

-----------------------------------------------------------------------------
(* Outcomes of device code, and what they leave the driver with. *)

LEMMA Outcome == ASSUME NEW i, NEW cb, NEW q, NEW d
                 PROVE  /\ Out(i, cb, q, d).ide = i /\ Out(i, cb, q, d).cb = cb
                        /\ Out(i, cb, q, d).irq = q /\ Out(i, cb, q, d).disc = d
BY DEF Out

LEMMA Lowered == ASSUME NEW i, NEW cb, NEW q, NEW d, NEW z
                 PROVE  [Out(i, cb, q, d) EXCEPT !.irq = z] = Out(i, cb, z, d)
BY DEF Out

Fine(o) == Well(o.ide, o.disc) /\ ~o.ide.reset /\ o.cb \in BOOLEAN /\ o.irq \in BOOLEAN
Awaits(o) == Fine(o) /\ Waiting(o.ide, o.cb, o.irq, o.disc)
Moves(o) == Fine(o) /\ Moving(o.ide, o.cb, o.irq, o.disc)
Ends(o) == Fine(o) /\ ~o.cb /\ Unselected(o.ide)

LEMMA AwaitsInv == ASSUME NEW o, Take(o), Awaits(o), guest' = "irq" PROVE IdeInv'
BY DEF Take, Awaits, Fine, IdeInv

LEMMA MovesInv == ASSUME NEW o, Take(o), Moves(o), guest' = "data" PROVE IdeInv'
BY DEF Take, Moves, Fine, IdeInv

LEMMA EndsInv == ASSUME NEW o, Take(o), Ends(o), guest' = "idle" PROVE IdeInv'
BY DEF Take, Ends, Fine, IdeInv

(* An interrupt at the end of a command, and one for words to move.         *)
LEMMA RaiseEnds ==
    ASSUME NEW i, NEW d, Well(i, d), ~i.reset, Unselected(i), i.atastat \notin {"BUSY", "DRQ"}
    PROVE  Awaits(Out(i, FALSE, TRUE, d))
<1> DEFINE o == Out(i, FALSE, TRUE, d)
<1>1. o.ide = i /\ o.cb = FALSE /\ o.irq = TRUE /\ o.disc = d
  BY DEF Out
<1> HIDE DEF o
<1>2. Fine(o)
  BY <1>1 DEF Fine
<1>3. Waiting(o.ide, o.cb, o.irq, o.disc)
  BY <1>1 DEF Waiting
<1> QED BY <1>2, <1>3 DEF Awaits, o

LEMMA RaiseData ==
    ASSUME NEW i, NEW d, Well(i, d), ~i.reset, i.atastat = "DRQ", DataPhase(i, d)
    PROVE  Awaits(Out(i, FALSE, TRUE, d))
<1> DEFINE o == Out(i, FALSE, TRUE, d)
<1>1. o.ide = i /\ o.cb = FALSE /\ o.irq = TRUE /\ o.disc = d
  BY DEF Out
<1> HIDE DEF o
<1>2. Fine(o)
  BY <1>1 DEF Fine
<1>3. Waiting(o.ide, o.cb, o.irq, o.disc)
  BY <1>1 DEF Waiting
<1> QED BY <1>2, <1>3 DEF Awaits, o

(* A callback for later.                                                    *)
LEMMA LaterDue ==
    ASSUME NEW i, NEW d, Well(i, d), ~i.reset, Due(i)
    PROVE  Awaits(Out(i, TRUE, FALSE, d))
<1> DEFINE o == Out(i, TRUE, FALSE, d)
<1>1. o.ide = i /\ o.cb = TRUE /\ o.irq = FALSE /\ o.disc = d
  BY DEF Out
<1> HIDE DEF o
<1>2. Fine(o)
  BY <1>1 DEF Fine
<1>3. Waiting(o.ide, o.cb, o.irq, o.disc)
  BY <1>1 DEF Waiting
<1> QED BY <1>2, <1>3 DEF Awaits, o

-----------------------------------------------------------------------------
(* The driver gives a command. *)

LEMMA SelectType ==
    ASSUME NEW i \in Registers, NEW d \in {0, 1}, NEW h \in Nat, ~i.reset, Unselected(i)
    PROVE  /\ Select(i, d, h) \in Registers /\ ~Select(i, d, h).reset /\ Unselected(Select(i, d, h))
           /\ Select(i, d, h).drive = d /\ Select(i, d, h).head \in {0, h} /\ Select(i, d, h).pos = 0
           /\ Select(i, d, h).spt = i.spt /\ Select(i, d, h).hpc = i.hpc
<1>0. /\ "READY" \in Statuses /\ "NONE" \in Commands /\ 0 \in PacketStates /\ 0 \in 0 .. BlockSize /\ 1 \in Counts
      /\ 0 \in 0 .. Cap /\ 0 \in Nat /\ 1 \in Nat /\ FALSE \in BOOLEAN
  BY Literals DEF Commands
<1>1. CASE d = i.drive
  <2> DEFINE j == [i EXCEPT !.head = h, !.pos = 0, !.atastat = "READY"]
  <2>1. j \in Registers
    BY <1>0 DEF Registers
  <2>2. /\ j.reset = i.reset /\ j.packetstatus = i.packetstatus /\ j.drive = i.drive /\ j.head = h /\ j.pos = 0
        /\ j.spt = i.spt /\ j.hpc = i.hpc
    BY DEF Registers
  <2>3. Select(i, d, h) = j
    BY <1>1 DEF Select
  <2> HIDE DEF j
  <2> QED BY <1>1, <2>1, <2>2, <2>3 DEF Unselected
<1>2. CASE d # i.drive
  <2> DEFINE b == [k \in 0 .. BlockSize |-> IF k < BlockSize THEN Zero ELSE i.buffer[k]]
             j == [i EXCEPT !.head = 0, !.drive = d, !.pos = 0, !.atastat = "READY", !.reset = FALSE,
                            !.secount = 1, !.sector = 1, !.cylinder = 0, !.command = "NONE",
                            !.packetstatus = 0, !.packlen = 0, !.cdpos = 0, !.cdlen = 0, !.buffer = b]
  <2>0. i.buffer \in [0 .. BlockSize -> Cells] /\ Zero \in Cells
    BY DEF Registers, Cells, Words
  <2>1. b \in [0 .. BlockSize -> Cells]
    BY <2>0
  <2> HIDE DEF b
  <2>2. j \in Registers
    BY <1>0, <2>1 DEF Registers
  <2>3. /\ j.reset = FALSE /\ j.packetstatus = 0 /\ j.drive = d /\ j.head = 0 /\ j.pos = 0
        /\ j.spt = i.spt /\ j.hpc = i.hpc
    BY DEF Registers
  <2>4. Select(i, d, h) = j
    BY <1>2 DEF Select, b
  <2> HIDE DEF j
  <2> QED BY <2>2, <2>3, <2>4 DEF Unselected
<1> QED BY <1>1, <1>2

(* What a driver that is idle has selected.                                 *)
Addressed(i, d) ==
    /\ i \in Registers /\ ~i.reset /\ Unselected(i) /\ i.drive = d /\ i.head \in Nat /\ i.pos = 0
    /\ i.spt = ide.spt /\ i.hpc = ide.hpc

LEMMA SelectionsType ==
    ASSUME IdeInv, guest = "idle", NEW d \in {0, 1}, NEW h \in Nat, NEW i \in Selections(d, h)
    PROVE  Addressed(i, d) /\ i.head \in {0, h}
<1> DEFINE once == Select(ide, d, h)
<1>1. ide \in Registers /\ ~ide.reset /\ Unselected(ide)
  BY DEF IdeInv, Well
<1>2. /\ once \in Registers /\ ~once.reset /\ Unselected(once) /\ once.drive = d /\ once.head \in {0, h}
      /\ once.pos = 0 /\ once.spt = ide.spt /\ once.hpc = ide.hpc
  BY <1>1, SelectType
<1>3. i = once \/ i = Select(once, d, h)
  BY DEF Selections
<1> HIDE DEF once
<1>4. CASE i = once
  BY <1>2, <1>4 DEF Addressed
<1>5. CASE i = Select(once, d, h)
  <2>1. /\ i \in Registers /\ ~i.reset /\ Unselected(i) /\ i.drive = d /\ i.head \in {0, h}
        /\ i.pos = 0 /\ i.spt = once.spt /\ i.hpc = once.hpc
    BY <1>2, <1>5, SelectType
  <2> QED BY <1>2, <2>1 DEF Addressed
<1> QED BY <1>3, <1>4, <1>5

LEMMA CommandType ==
    ASSUME NEW i \in Registers, NEW c \in Commands \ {"NONE"}, i.pos = 0
    PROVE  /\ Command(i, c).ide \in Registers /\ Command(i, c).ide.command = c
           /\ Place(i, Command(i, c).ide) /\ Command(i, c).ide.secount = i.secount
           /\ Command(i, c).ide.drive = i.drive /\ Command(i, c).ide.reset = i.reset
           /\ Command(i, c).ide.pos = 0 /\ Command(i, c).disc = disc
           /\ Command(i, c).ide.packetstatus = IF c = "PACKETCMD" THEN 0 ELSE i.packetstatus
           /\ Command(i, c).cb = IF c \in {"WRITE", "FORMAT"} THEN idecallback ELSE TRUE
           /\ c \in {"WRITE", "FORMAT"} => Command(i, c).ide.atastat = "DRQ"
           /\ c = "READ" => Command(i, c).ide.atastat = "BUSY"
<1>0. /\ {"READY", "BUSY", "DRQ"} \subseteq Statuses /\ 0 \in PacketStates /\ 0 \in 0 .. BlockSize
  BY Literals
<1> DEFINE o == Command(i, c)
<1>1. CASE c \in {"SRST", "RESTORE"}
  <2> DEFINE j == [i EXCEPT !.command = c, !.atastat = "READY"]
  <2>1. j \in Registers
    BY <1>0 DEF Registers
  <2>2. /\ j.command = c /\ Place(i, j) /\ j.secount = i.secount /\ j.drive = i.drive /\ j.reset = i.reset
        /\ j.pos = 0 /\ j.packetstatus = i.packetstatus
    BY DEF Registers, Place
  <2>3. o = Out(j, TRUE, ideirq, disc)
    BY <1>1 DEF Command
  <2> HIDE DEF j, o
  <2>4. o.ide = j /\ o.cb = TRUE /\ o.disc = disc
    BY <2>3 DEF Out
  <2> QED BY <1>1, <2>1, <2>2, <2>4 DEF o
<1>2. CASE c \in {"WRITE", "FORMAT"}
  <2> DEFINE k == Drq(i)
             j == [k EXCEPT !.command = c]
  <2>0. k \in Registers /\ Rest(i, k) /\ k.atastat = "DRQ" /\ k.pos = 0 /\ k.packetstatus = i.packetstatus
    BY DrqType
  <2>3. o = Out(j, idecallback, ideirq, disc)
    BY <1>2 DEF Command
  <2> HIDE DEF k
  <2>1. j \in Registers
    BY <2>0 DEF Registers
  <2>2. /\ j.command = c /\ Place(k, j) /\ j.secount = k.secount /\ j.drive = k.drive /\ j.reset = k.reset
        /\ j.pos = k.pos /\ j.packetstatus = k.packetstatus /\ j.atastat = k.atastat
    BY <2>0 DEF Registers, Place
  <2> HIDE DEF j, o
  <2>4. o.ide = j /\ o.cb = idecallback /\ o.disc = disc
    BY <2>3, Outcome
  <2> QED BY <1>2, <2>0, <2>1, <2>2, <2>4 DEF o, Rest, Place
<1>3. CASE c = "PACKETCMD"
  <2> DEFINE j == [i EXCEPT !.command = c, !.atastat = "BUSY", !.packetstatus = 0, !.pos = 0]
  <2>1. j \in Registers
    BY <1>0 DEF Registers
  <2>2. /\ j.command = c /\ Place(i, j) /\ j.secount = i.secount /\ j.drive = i.drive /\ j.reset = i.reset
        /\ j.pos = 0 /\ j.packetstatus = 0
    BY DEF Registers, Place
  <2>3. o = Out(j, TRUE, ideirq, disc)
    BY <1>3 DEF Command
  <2> HIDE DEF j, o
  <2>4. o.ide = j /\ o.cb = TRUE /\ o.disc = disc
    BY <2>3 DEF Out
  <2> QED BY <1>3, <2>1, <2>2, <2>4 DEF o
<1>4. CASE c \notin {"SRST", "RESTORE", "WRITE", "FORMAT", "PACKETCMD"}
  <2> DEFINE j == [i EXCEPT !.command = c, !.atastat = "BUSY"]
  <2>1. j \in Registers
    BY <1>0 DEF Registers
  <2>2. /\ j.command = c /\ Place(i, j) /\ j.secount = i.secount /\ j.drive = i.drive /\ j.reset = i.reset
        /\ j.pos = 0 /\ j.packetstatus = i.packetstatus /\ j.atastat = "BUSY"
    BY DEF Registers, Place
  <2>3. o = Out(j, TRUE, ideirq, disc)
    BY <1>4 DEF Command
  <2> HIDE DEF j, o
  <2>4. o.ide = j /\ o.cb = TRUE /\ o.disc = disc
    BY <2>3 DEF Out
  <2> QED BY <1>4, <2>1, <2>2, <2>4 DEF o
<1> QED BY <1>1, <1>2, <1>3, <1>4

LEMMA IssueFacts ==
    ASSUME IdeInv, NEW d \in {0, 1}, NEW i, Addressed(i, d), NEW n \in Counts, NEW s \in Nat, NEW cyl \in Nat,
           NEW c \in Commands \ {"NONE"}, Issue(i, n, s, cyl, c)
    PROVE  /\ guest = "idle" /\ disc \in Image /\ disc' = disc /\ ide' \in Registers
           /\ ide'.command = c /\ ide'.secount = n /\ ide'.sector = s /\ ide'.cylinder = cyl /\ ide'.head = i.head
           /\ ide'.spt = ide.spt /\ ide'.hpc = ide.hpc /\ ide'.drive = d /\ ~ide'.reset /\ ide'.pos = 0
           /\ Unselected(ide') /\ (c = "PACKETCMD" => ide'.packetstatus = 0)
           /\ c \in {"WRITE", "FORMAT"} => ide'.atastat = "DRQ"
           /\ c = "READ" => ide'.atastat = "BUSY"
           /\ ideirq' = FALSE /\ idecallback' = IF c \in {"WRITE", "FORMAT"} THEN FALSE ELSE TRUE
           /\ guest' = IF c \in {"WRITE", "FORMAT"} THEN "data" ELSE "irq"
<1> DEFINE t == TaskFile(i, n, s, cyl)
           o == Command(t, c)
           r == [o EXCEPT !.irq = FALSE]
<1>1. guest = "idle" /\ ide \in Registers /\ disc \in Image /\ idecallback = FALSE /\ Unselected(ide) /\ ~ide.reset
  BY DEF Issue, IdeInv, Well
<1>2. /\ i \in Registers /\ ~i.reset /\ Unselected(i) /\ i.drive = d /\ i.pos = 0
      /\ i.spt = ide.spt /\ i.hpc = ide.hpc
  BY DEF Addressed
<1>3. t \in Registers
  BY <1>2 DEF TaskFile, Registers
<1>4. /\ t.secount = n /\ t.sector = s /\ t.cylinder = cyl /\ t.drive = i.drive /\ t.head = i.head /\ t.pos = i.pos
      /\ t.spt = i.spt /\ t.hpc = i.hpc /\ t.reset = i.reset /\ t.packetstatus = i.packetstatus
  BY <1>2 DEF TaskFile, Registers
<1>5. Take(r) /\ guest' = IF c \in {"WRITE", "FORMAT"} THEN "data" ELSE "irq"
  BY DEF Issue
<1>6. \E x, cb, q, e : o = Out(x, cb, q, e)
  <2> HIDE DEF t
  <2> QED BY DEF Command
<1>7. /\ o.ide \in Registers /\ o.ide.command = c
      /\ Place(t, o.ide) /\ o.ide.secount = t.secount
      /\ o.ide.drive = t.drive /\ o.ide.reset = t.reset
      /\ o.ide.pos = 0 /\ o.disc = disc
      /\ o.ide.packetstatus = IF c = "PACKETCMD" THEN 0 ELSE t.packetstatus
      /\ o.cb = IF c \in {"WRITE", "FORMAT"} THEN idecallback ELSE TRUE
      /\ c \in {"WRITE", "FORMAT"} => o.ide.atastat = "DRQ"
      /\ c = "READ" => o.ide.atastat = "BUSY"
  <2> HIDE DEF t
  <2> QED BY <1>2, <1>3, <1>4, CommandType
<1> HIDE DEF t, o
<1>8. r = Out(o.ide, o.cb, FALSE, o.disc)
  <2>1. PICK x, cb, q, e : o = Out(x, cb, q, e)
    BY <1>6
  <2>2. o.ide = x /\ o.cb = cb /\ o.disc = e
    BY <2>1, Outcome
  <2> DEFINE low == FALSE
  <2>3. r = [Out(x, cb, q, e) EXCEPT !.irq = low]
    BY <2>1
  <2> HIDE DEF low
  <2>4. r = Out(x, cb, low, e)
    BY <2>3, Lowered
  <2> QED BY <2>2, <2>4 DEF low
<1> HIDE DEF r
<1>9. r.ide = o.ide /\ r.cb = o.cb /\ r.irq = FALSE /\ r.disc = disc
  BY <1>7, <1>8 DEF Out
<1> DEFINE j == r.ide
<1>10. /\ j \in Registers /\ j.command = c /\ j.secount = n /\ j.sector = s /\ j.cylinder = cyl /\ j.head = i.head
       /\ j.spt = ide.spt /\ j.hpc = ide.hpc /\ j.drive = d /\ ~j.reset /\ j.pos = 0
       /\ Unselected(j) /\ (c = "PACKETCMD" => j.packetstatus = 0)
  BY <1>2, <1>4, <1>7, <1>9 DEF Place, Unselected
<1>11. /\ r.cb = IF c \in {"WRITE", "FORMAT"} THEN FALSE ELSE TRUE
       /\ c \in {"WRITE", "FORMAT"} => j.atastat = "DRQ"
       /\ c = "READ" => j.atastat = "BUSY"
  BY <1>1, <1>7, <1>9
<1>12. ide' = j /\ idecallback' = r.cb /\ ideirq' = FALSE /\ disc' = disc
  BY <1>5, <1>9 DEF Take
<1> HIDE DEF j
<1> QED BY <1>1, <1>5, <1>10, <1>11, <1>12

(* A command as the driver gives it: a transfer inside the part of the disc *)
(* it uses, or another command.                                             *)
Given(i, d, n, s, cyl, c) ==
    /\ Addressed(i, d) /\ Issue(i, n, s, cyl, c)
    /\ c \in {"READ", "WRITE", "FORMAT"} =>
         /\ n \in 1 .. MaxCount /\ s \in 1 .. ide.spt /\ i.head < ide.hpc
         /\ (cyl * ide.hpc + i.head) * ide.spt + s - 1 + n <= Cap
    /\ c = "SPECIFY" => n \in Spts

LEMMA IssueStep ==
    ASSUME IdeInv, NEW d \in {0, 1}, NEW i, NEW n \in Counts, NEW s \in Nat, NEW cyl \in Nat,
           NEW c \in Commands \ {"NONE"}, Given(i, d, n, s, cyl, c)
    PROVE  IdeInv'
<1> DEFINE j == ide'
<1>0. /\ Addressed(i, d) /\ Issue(i, n, s, cyl, c) /\ i.head \in Nat
      /\ c \in {"READ", "WRITE", "FORMAT"} =>
           /\ n \in 1 .. MaxCount /\ s \in 1 .. ide.spt /\ i.head < ide.hpc
           /\ (cyl * ide.hpc + i.head) * ide.spt + s - 1 + n <= Cap
      /\ c = "SPECIFY" => n \in Spts
  BY DEF Given, Addressed
<1>1. /\ guest = "idle" /\ disc \in Image /\ disc' = disc /\ j \in Registers
      /\ j.command = c /\ j.secount = n /\ j.sector = s /\ j.cylinder = cyl /\ j.head = i.head
      /\ j.spt = ide.spt /\ j.hpc = ide.hpc /\ j.drive = d /\ ~j.reset /\ j.pos = 0
      /\ Unselected(j) /\ (c = "PACKETCMD" => j.packetstatus = 0)
      /\ c \in {"WRITE", "FORMAT"} => j.atastat = "DRQ"
      /\ c = "READ" => j.atastat = "BUSY"
      /\ ideirq' = FALSE /\ idecallback' = IF c \in {"WRITE", "FORMAT"} THEN FALSE ELSE TRUE
      /\ guest' = IF c \in {"WRITE", "FORMAT"} THEN "data" ELSE "irq"
  BY <1>0, IssueFacts
<1>2. c \in {"READ", "WRITE", "FORMAT"} => Fits(j)
  BY <1>0, <1>1 DEF Fits, ide_get_sector
<1>3. Well(j, disc)
  BY <1>1 DEF Well
<1>4. CASE c \in {"WRITE", "FORMAT"}
  <2>1. DataPhase(j, disc)
    BY <1>0, <1>1, <1>2, <1>4, Literals DEF DataPhase, OnDisc
  <2>2. Moving(j, FALSE, FALSE, disc)
    BY <1>1, <1>4, <2>1 DEF Moving
  <2> QED BY <1>1, <1>3, <1>4, <2>2 DEF IdeInv
<1>5. CASE c \notin {"WRITE", "FORMAT"}
  <2>1. Due(j)
    BY <1>0, <1>1, <1>2, <1>5 DEF Due, OnDisc, PacketDue, Unselected
  <2>2. Waiting(j, TRUE, FALSE, disc)
    BY <1>1, <1>5, <2>1 DEF Waiting
  <2> QED BY <1>1, <1>3, <1>5, <2>2 DEF IdeInv
<1> QED BY <1>4, <1>5

LEMMA StartGives ==
    ASSUME IdeInv, StartTransfer \/ StartOther \/ Specify
    PROVE  \E i : \E d \in {0, 1}, n \in Counts, s \in Nat, cyl \in Nat, c \in Commands \ {"NONE"} :
             Given(i, d, n, s, cyl, c)
<1>0. ide \in Registers
  BY DEF IdeInv, Well
<1>1. CASE StartTransfer
  <2>1. PICK c \in DataCommands, d \in {0, 1}, n \in 1 .. MaxCount, s \in Spts, h \in Hpcs, cyl \in Blocks :
          \E i \in Selections(d, h - 1) :
            /\ s <= ide.spt /\ h <= ide.hpc
            /\ ide_get_sector(TaskFile(i, n, s, cyl)) + n <= Cap
            /\ Issue(i, n, s, cyl, c)
    BY <1>1 DEF StartTransfer
  <2>2. PICK i \in Selections(d, h - 1) :
          /\ s <= ide.spt /\ h <= ide.hpc
          /\ ide_get_sector(TaskFile(i, n, s, cyl)) + n <= Cap
          /\ Issue(i, n, s, cyl, c)
    BY <2>1
  <2>3. /\ n \in Counts /\ s \in Nat /\ s >= 1 /\ h \in Nat /\ h >= 1 /\ h - 1 \in Nat /\ cyl \in Nat
        /\ c \in Commands \ {"NONE"} /\ c # "SPECIFY"
    BY IdeAssumption DEF Counts, Blocks, Commands, DataCommands
  <2>4. ide.spt \in Nat /\ ide.hpc \in Nat
    BY <1>0 DEF Registers
  <2>5. guest = "idle"
    BY <2>2 DEF Issue
  <2>6. Addressed(i, d) /\ i.head \in {0, h - 1}
    BY <2>2, <2>3, <2>5, SelectionsType
  <2> DEFINE t == TaskFile(i, n, s, cyl)
  <2>7. /\ t.cylinder = cyl /\ t.head = i.head /\ t.sector = s /\ t.hpc = ide.hpc /\ t.spt = ide.spt
    BY <2>6 DEF Addressed, TaskFile, Registers
  <2>8. ide_get_sector(t) + n <= Cap
    BY <2>2
  <2> HIDE DEF t
  <2>9. (cyl * ide.hpc + i.head) * ide.spt + s - 1 + n <= Cap
    BY <2>7, <2>8 DEF ide_get_sector
  <2>10. i.head < ide.hpc /\ s \in 1 .. ide.spt
    BY <2>2, <2>3, <2>4, <2>6
  <2>11. Given(i, d, n, s, cyl, c)
    BY <2>2, <2>3, <2>6, <2>9, <2>10 DEF Given
  <2> QED BY <2>3, <2>11
<1>2. CASE StartOther
  <2>1. PICK c \in OtherCommands, d \in {0, 1} : Issue(Select(ide, d, 0), 1, 1, 0, c)
    BY <1>2 DEF StartOther
  <2>2. c \in Commands \ {"NONE"} /\ c \notin {"READ", "WRITE", "FORMAT", "SPECIFY"}
    BY DEF OtherCommands, Commands
  <2>3. 1 \in Counts /\ 0 \in Nat /\ 1 \in Nat
    BY Literals
  <2>4. guest = "idle" /\ Select(ide, d, 0) \in Selections(d, 0)
    BY <2>1 DEF Issue, Selections
  <2>5. Addressed(Select(ide, d, 0), d)
    BY <2>3, <2>4, SelectionsType
  <2>6. Given(Select(ide, d, 0), d, 1, 1, 0, c)
    BY <2>1, <2>2, <2>5 DEF Given
  <2> QED BY <2>2, <2>3, <2>6
<1>3. CASE Specify
  <2>1. PICK s \in Spts, h \in Hpcs, d \in {0, 1} :
          \E i \in Selections(d, h - 1) : Issue(i, s, 1, 0, "SPECIFY")
    BY <1>3 DEF Specify
  <2>2. PICK i \in Selections(d, h - 1) : Issue(i, s, 1, 0, "SPECIFY")
    BY <2>1
  <2>3. h - 1 \in Nat /\ s \in Counts /\ "SPECIFY" \in Commands \ {"NONE"} /\ 0 \in Nat /\ 1 \in Nat
    BY IdeAssumption DEF Counts, Commands
  <2>4. guest = "idle"
    BY <2>2 DEF Issue
  <2>5. Addressed(i, d)
    BY <2>2, <2>3, <2>4, SelectionsType
  <2>6. Given(i, d, s, 1, 0, "SPECIFY")
    BY <2>2, <2>5 DEF Given
  <2> QED BY <2>3, <2>6
<1> QED BY <1>1, <1>2, <1>3

LEMMA StartStep == ASSUME IdeInv, StartTransfer \/ StartOther \/ Specify PROVE IdeInv'
<1>1. PICK i : \E d \in {0, 1}, n \in Counts, s \in Nat, cyl \in Nat, c \in Commands \ {"NONE"} :
        Given(i, d, n, s, cyl, c)
  BY StartGives
<1> QED BY <1>1, IssueStep

-----------------------------------------------------------------------------
(* Interrupts and resets. *)

LEMMA InterruptStep == ASSUME IdeInv, Interrupt PROVE IdeInv'
<1>1. /\ guest = "irq" /\ ideirq /\ ideirq' = FALSE /\ ide' = ide /\ idecallback' = idecallback /\ disc' = disc
      /\ guest' = Settled([ide |-> ide])
  BY DEF Interrupt
<1>2. /\ Well(ide, disc) /\ ~ide.reset /\ idecallback = FALSE /\ ide.atastat # "BUSY"
      /\ IF ide.atastat = "DRQ" THEN DataPhase(ide, disc) ELSE Unselected(ide)
  BY <1>1 DEF IdeInv, Waiting
<1>3. guest' = IF ide.atastat = "DRQ" THEN "data" ELSE "idle"
  BY <1>1, <1>2 DEF Settled
<1>4. CASE ide.atastat = "DRQ"
  <2>1. Moving(ide, FALSE, FALSE, disc)
    BY <1>2, <1>4 DEF Moving
  <2> QED BY <1>1, <1>2, <1>3, <1>4, <2>1 DEF IdeInv
<1>5. CASE ide.atastat # "DRQ"
  BY <1>1, <1>2, <1>3, <1>5 DEF IdeInv
<1> QED BY <1>4, <1>5

LEMMA SoftResetStep == ASSUME IdeInv, ~Abandons, SoftReset PROVE IdeInv'
<1> DEFINE j == [ide EXCEPT !.reset = TRUE, !.atastat = "BUSY"]
<1>1. /\ Well(ide, disc) /\ Unselected(ide) /\ guest' = "reset" /\ ide' = j /\ idecallback' = TRUE
      /\ ideirq' = ideirq /\ disc' = disc /\ ideirq \in BOOLEAN
  BY DEF IdeInv, SoftReset, Resettable, Unselected
<1>2. "BUSY" \in Statuses /\ TRUE \in BOOLEAN
  BY Literals
<1>3. ide \in Registers
  BY <1>1 DEF Well
<1>4. j \in Registers
  BY <1>2, <1>3 DEF Registers
<1>5. j.reset = TRUE /\ j.atastat = "BUSY" /\ j.command = ide.command /\ j.packetstatus = ide.packetstatus
  BY <1>3 DEF Registers
<1> HIDE DEF j
<1>6. Well(j, disc) /\ Unselected(j)
  BY <1>1, <1>4, <1>5 DEF Well, Unselected
<1> QED BY <1>1, <1>5, <1>6 DEF IdeInv

LEMMA MachineResetStep == ASSUME IdeInv, ~Abandons, resetide PROVE IdeInv'
<1> DEFINE j == [ide EXCEPT !.atastat = "READY"]
<1>1. /\ Well(ide, disc) /\ Unselected(ide) /\ guest' = "boot" /\ ide' = j /\ idecallback' = FALSE
      /\ ideirq' = FALSE /\ disc' = disc
  BY DEF IdeInv, resetide, Resettable, Unselected
<1>2. "READY" \in Statuses
  BY Literals
<1>3. ide \in Registers
  BY <1>1 DEF Well
<1>4. j \in Registers
  BY <1>2, <1>3 DEF Registers
<1>5. j.command = ide.command /\ j.packetstatus = ide.packetstatus
  BY <1>3 DEF Registers
<1> HIDE DEF j
<1>6. Well(j, disc) /\ Unselected(j)
  BY <1>1, <1>4, <1>5 DEF Well, Unselected
<1> QED BY <1>1, <1>6 DEF IdeInv

LEMMA PolledStep == ASSUME IdeInv, Polled PROVE IdeInv'
<1>1. /\ guest = "reset" /\ ide.atastat # "BUSY" /\ guest' = "idle" /\ ideirq' = FALSE /\ ide' = ide
      /\ idecallback' = idecallback /\ disc' = disc
  BY DEF Polled
<1>2. Well(ide, disc) /\ Unselected(ide) /\ ~ide.reset /\ idecallback = ide.reset
  BY <1>1 DEF IdeInv
<1> QED BY <1>1, <1>2 DEF IdeInv

-----------------------------------------------------------------------------
(* What callbackide does for the disc. *)

LEMMA ReadFill ==
    ASSUME NEW i, Well(i, disc), i.command = "READ", i.drive = 0, Fits(i),
           NEW f, f = Fill(Drq(i), disc[ide_get_sector(i)])
    PROVE  /\ f \in Registers /\ Rest(i, f) /\ f.pos = 0 /\ f.atastat = "DRQ" /\ f.packetstatus = i.packetstatus
           /\ Fits(f) /\ ide_get_sector(f) = ide_get_sector(i) /\ BufferWords(f) = disc[ide_get_sector(i)]
<1> DEFINE at == ide_get_sector(i)
           j == Drq(i)
<1>1. i \in Registers /\ disc \in Image
  BY DEF Well
<1>2. at \in Blocks
  BY <1>1, FitsBlocks
<1>3. disc[at] \in [1 .. BlockSize -> Cells]
  BY <1>1, <1>2, ZerosType DEF Image
<1>4. /\ j \in Registers /\ Rest(i, j) /\ j.atastat = "DRQ" /\ j.pos = 0 /\ j.packetstatus = i.packetstatus
  BY <1>1, DrqType
<1>5. f = Fill(j, disc[at])
  OBVIOUS
<1> HIDE DEF j, at
<1>6. /\ f \in Registers /\ Rest(j, f) /\ BufferWords(f) = disc[at] /\ f.pos = j.pos /\ f.atastat = j.atastat
      /\ f.packetstatus = j.packetstatus
  BY <1>3, <1>4, <1>5, FillType
<1>7. Rest(i, f) /\ f.pos = 0 /\ f.atastat = "DRQ" /\ f.packetstatus = i.packetstatus
  BY <1>4, <1>6 DEF Rest, Place
<1>8. Fits(f) /\ ide_get_sector(f) = at
  BY <1>1, <1>7, FitsSame DEF Rest, at
<1> QED BY <1>6, <1>7, <1>8 DEF at

LEMMA ReadCallback ==
    ASSUME NEW i, Well(i, disc), ~i.reset, i.command = "READ", i.drive = 0, Fits(i)
    PROVE  Awaits(ide_irq_raise(Fill(Drq(i), disc[ide_get_sector(i)])))
<1> DEFINE f == Fill(Drq(i), disc[ide_get_sector(i)])
<1> HIDE DEF f
<1>1. i \in Registers /\ disc \in Image
  BY DEF Well
<1>2. /\ f \in Registers /\ Rest(i, f) /\ f.pos = 0 /\ f.atastat = "DRQ" /\ f.packetstatus = i.packetstatus
      /\ Fits(f) /\ ide_get_sector(f) = ide_get_sector(i) /\ BufferWords(f) = disc[ide_get_sector(i)]
  BY ReadFill DEF f
<1>3. DataPhase(f, disc)
  BY <1>2, Literals DEF DataPhase, Rest
<1>4. Well(f, disc) /\ ~f.reset
  BY <1>1, <1>2 DEF Well, Rest, Unselected
<1> QED BY <1>2, <1>3, <1>4, RaiseData DEF ide_irq_raise, f

LEMMA AbortEnds ==
    ASSUME NEW i, Well(i, disc), ~i.reset, i.command # "PACKETCMD"
    PROVE  Awaits(Abort(i))
<1> DEFINE j == [i EXCEPT !.atastat = "ERR"]
<1>1. i \in Registers /\ disc \in Image /\ Unselected(i) /\ "ERR" \in Statuses
  BY Literals DEF Well
<1>2. j \in Registers
  BY <1>1 DEF Registers
<1>3. j.atastat = "ERR" /\ j.reset = i.reset /\ j.packetstatus = i.packetstatus
  BY <1>1 DEF Registers
<1> HIDE DEF j
<1>4. Well(j, disc) /\ Unselected(j)
  BY <1>1, <1>2, <1>3 DEF Well, Unselected
<1> QED BY <1>3, <1>4, RaiseEnds DEF Abort, ide_irq_raise, j

LEMMA ReadyEnds ==
    ASSUME NEW i, NEW d, Well(i, d), ~i.reset, Unselected(i)
    PROVE  Awaits(Out([i EXCEPT !.atastat = "READY"], FALSE, TRUE, d))
<1> DEFINE j == [i EXCEPT !.atastat = "READY"]
<1>1. i \in Registers /\ d \in Image /\ "READY" \in Statuses
  BY Literals DEF Well
<1>2. j \in Registers
  BY <1>1 DEF Registers
<1>3. j.atastat = "READY" /\ j.reset = i.reset /\ j.packetstatus = i.packetstatus
  BY <1>1 DEF Registers
<1> HIDE DEF j
<1>4. Well(j, d) /\ Unselected(j)
  BY <1>1, <1>2, <1>3 DEF Well, Unselected
<1> QED BY <1>3, <1>4, RaiseEnds DEF j

LEMMA IdentifyData ==
    ASSUME NEW i, Well(i, disc), ~i.reset, i.command \in {"IDENTIFY", "PIDENTIFY"}
    PROVE  Awaits(ide_irq_raise(Fill(Drq(i), Zeros)))
<1> DEFINE j == Drq(i)
           f == Fill(j, Zeros)
<1>1. i \in Registers /\ disc \in Image /\ Unselected(i) /\ Zeros \in [1 .. BlockSize -> Cells]
  BY ZerosType DEF Well
<1>2. j \in Registers /\ Rest(i, j) /\ j.atastat = "DRQ" /\ j.pos = 0 /\ j.packetstatus = i.packetstatus
  BY <1>1, DrqType
<1> HIDE DEF j
<1>3. /\ f \in Registers /\ Rest(j, f) /\ f.pos = j.pos /\ f.atastat = j.atastat
      /\ f.packetstatus = j.packetstatus
  BY <1>1, <1>2, FillType
<1> HIDE DEF f
<1>4. DataPhase(f, disc)
  BY <1>2, <1>3, Literals DEF DataPhase, Rest
<1>5. Well(f, disc) /\ ~f.reset /\ f.atastat = "DRQ"
  BY <1>1, <1>2, <1>3 DEF Well, Rest, Unselected
<1> QED BY <1>4, <1>5, RaiseData DEF ide_irq_raise, f, j

LEMMA ImageWritten ==
    ASSUME NEW i \in Registers, disc \in Image, NEW at \in Blocks, \A k \in 0 .. BlockSize - 1 : i.buffer[k] \in Words
    PROVE  [disc EXCEPT ![at] = BufferWords(i)] \in Image
<1>1. BufferWords(i) \in [1 .. BlockSize -> Words]
  <2>1. \A k \in 1 .. BlockSize : k - 1 \in 0 .. BlockSize - 1
    BY Literals
  <2> QED BY <2>1 DEF BufferWords
<1> QED BY <1>1 DEF Image

LEMMA WriteCallbackAwaits ==
    ASSUME NEW i, Well(i, disc), ~i.reset, i.command = "WRITE", i.drive = 0, i.pos = 0, Fits(i),
           \A k \in 0 .. BlockSize - 1 : i.buffer[k] \in Words
    PROVE  Awaits(WriteCallback(i))
<1> DEFINE at == ide_get_sector(i)
           d == [disc EXCEPT ![at] = BufferWords(i)]
<1>1. i \in Registers /\ disc \in Image /\ Unselected(i)
  BY DEF Well
<1>2. at \in Blocks /\ at + i.secount \in 1 .. Cap /\ i.secount \in 1 .. MaxCount /\ at \in Nat
  BY <1>1, FitsBlocks DEF Fits, Blocks
<1>3. d \in Image
  <2> HIDE DEF at
  <2> QED BY <1>1, <1>2, ImageWritten
<1> HIDE DEF d
<1>4. CASE i.secount = 1
  <2> DEFINE j == [i EXCEPT !.secount = 0, !.atastat = "READY"]
  <2>1. 0 \in Counts /\ "READY" \in Statuses
    BY Literals
  <2>2. j \in Registers
    BY <1>1, <2>1 DEF Registers
  <2>3. j.atastat = "READY" /\ j.reset = i.reset /\ j.packetstatus = i.packetstatus
    BY <1>1 DEF Registers
  <2>4. WriteCallback(i) = Out(j, FALSE, TRUE, d)
    BY <1>4 DEF WriteCallback, d
  <2> HIDE DEF j
  <2>5. Well(j, d) /\ Unselected(j)
    BY <1>1, <1>3, <2>2, <2>3 DEF Well, Unselected
  <2> QED BY <2>3, <2>4, <2>5, RaiseEnds
<1>5. CASE i.secount # 1
  <2> DEFINE j == [i EXCEPT !.secount = i.secount - 1]
             n == ide_next_sector(j)
             f == Drq(n)
  <2>1. i.secount - 1 \in Counts /\ i.secount - 1 \in 1 .. MaxCount
    BY <1>2, <1>5, Literals DEF Counts
  <2>2. j \in Registers
    BY <1>1, <2>1 DEF Registers
  <2>3. /\ Place(i, j) /\ j.secount = i.secount - 1 /\ j.command = i.command /\ j.drive = i.drive
        /\ j.reset = i.reset /\ j.packetstatus = i.packetstatus /\ j.pos = i.pos
    BY <1>1 DEF Registers, Place
  <2> HIDE DEF j
  <2>4. j.sector \in 1 .. j.spt /\ j.head < j.hpc /\ ide_get_sector(j) = at
    BY <2>3 DEF Place, Fits, ide_get_sector
  <2> HIDE DEF at
  <2>5. /\ n \in Registers /\ n.sector \in 1 .. n.spt /\ n.head < n.hpc /\ ide_get_sector(n) = at + 1
        /\ n.secount = i.secount - 1 /\ n.command = "WRITE" /\ n.drive = 0 /\ ~n.reset
        /\ n.packetstatus = i.packetstatus /\ n.pos = 0
    BY <2>2, <2>3, <2>4, NextSectorType
  <2> HIDE DEF n
  <2>6. Fits(n)
    BY <1>2, <2>1, <2>5 DEF Fits
  <2>7. /\ f \in Registers /\ Rest(n, f) /\ f.atastat = "DRQ" /\ f.pos = 0 /\ f.packetstatus = n.packetstatus
    BY <2>5, DrqType
  <2> HIDE DEF f
  <2>8. Fits(f)
    BY <2>5, <2>6, <2>7, FitsSame DEF Rest
  <2>9. DataPhase(f, d)
    BY <2>5, <2>7, <2>8, Literals DEF DataPhase, Rest, OnDisc
  <2>10. Well(f, d) /\ ~f.reset
    BY <1>1, <1>3, <2>5, <2>7 DEF Well, Rest, Unselected
  <2>11. WriteCallback(i) = Out(f, FALSE, TRUE, d)
    BY <1>5 DEF WriteCallback, d, f, n, j, at
  <2> QED BY <2>7, <2>9, <2>10, <2>11, RaiseData
<1> QED BY <1>4, <1>5

LEMMA FormatAwaits ==
    ASSUME NEW i, Well(i, disc), ~i.reset, i.command # "PACKETCMD"
    PROVE  Awaits(Out(Fill([i EXCEPT !.atastat = "READY"], Zeros), FALSE, TRUE, Formatted(i)))
<1> DEFINE j == [i EXCEPT !.atastat = "READY"]
           f == Fill(j, Zeros)
           d == Formatted(i)
<1>1. i \in Registers /\ disc \in Image /\ Unselected(i) /\ "READY" \in Statuses
      /\ Zeros \in [1 .. BlockSize -> Cells] /\ Zeros \in [1 .. BlockSize -> Words]
  BY Literals, ZerosType DEF Well
<1>2. j \in Registers
  BY <1>1 DEF Registers
<1>3. j.atastat = "READY" /\ j.reset = i.reset /\ j.packetstatus = i.packetstatus
  BY <1>1 DEF Registers
<1>4. d \in Image
  BY <1>1 DEF Image, Formatted
<1> HIDE DEF j, d
<1>5. f \in Registers /\ Rest(j, f) /\ f.atastat = j.atastat /\ f.packetstatus = j.packetstatus
  BY <1>1, <1>2, FillType
<1> HIDE DEF f
<1>6. Well(f, d) /\ Unselected(f) /\ ~f.reset /\ f.atastat = "READY"
  BY <1>1, <1>3, <1>4, <1>5 DEF Well, Unselected, Rest
<1> QED BY <1>6, RaiseEnds DEF f, j, d

-----------------------------------------------------------------------------
(* What it does for a packet. *)

LEMMA PacketShape ==
    ASSUME NEW p \in Packets
    PROVE  p[1] = "READ_CD" => p[2] \in Blocks /\ p[3] \in 1 .. Cap - p[2]
BY PacketAssumption DEF Silent, Answers, Always

LEMMA NotReadyAwaits ==
    ASSUME NEW i, Well(i, disc), ~i.reset, i.command = "PACKETCMD", ideirq = FALSE
    PROVE  Awaits(atapi_notready(i))
<1> DEFINE j == [i EXCEPT !.atastat = "ERR", !.packetstatus = 128]
<1>1. i \in Registers /\ disc \in Image /\ "ERR" \in Statuses /\ 128 \in PacketStates
  BY Literals DEF Well
<1>2. j \in Registers
  BY <1>1 DEF Registers
<1>3. j.command = i.command /\ j.reset = i.reset /\ j.packetstatus = 128
  BY <1>1 DEF Registers
<1>4. atapi_notready(i) = Out(j, TRUE, FALSE, disc)
  BY DEF atapi_notready
<1> HIDE DEF j
<1>5. Due(j) /\ Well(j, disc)
  BY <1>1, <1>2, <1>3 DEF Due, PacketDue, Well
<1> QED BY <1>3, <1>4, <1>5, LaterDue

LEMMA CommandDoneAwaits ==
    ASSUME NEW i, Well(i, disc), ~i.reset, i.command = "PACKETCMD", ideirq = FALSE
    PROVE  Awaits(CommandDone(i))
<1> DEFINE j == [i EXCEPT !.packetstatus = 2]
<1>1. i \in Registers /\ disc \in Image /\ 2 \in PacketStates
  BY Literals DEF Well
<1>2. j \in Registers
  BY <1>1 DEF Registers
<1>3. j.command = i.command /\ j.reset = i.reset /\ j.packetstatus = 2
  BY <1>1 DEF Registers
<1>4. CommandDone(i) = Out(j, TRUE, FALSE, disc)
  BY DEF CommandDone
<1> HIDE DEF j
<1>5. Due(j) /\ Well(j, disc)
  BY <1>1, <1>2, <1>3 DEF Due, PacketDue, Well
<1> QED BY <1>3, <1>4, <1>5, LaterDue

LEMMA AnswerAwaits ==
    ASSUME NEW i, Well(i, disc), ~i.reset, i.command = "PACKETCMD", ideirq = FALSE
    PROVE  Awaits(Answer(i))
<1> DEFINE j == DataIn(i, 3, 1)
           f == Fill(j, Zeros)
<1>1. i \in Registers /\ disc \in Image /\ 3 \in PacketStates /\ 1 \in Nat /\ Zeros \in [1 .. BlockSize -> Cells]
  BY Literals, ZerosType DEF Well
<1>2. /\ j \in Registers /\ j.packetstatus = 3 /\ j.packlen = 1 /\ j.pos = 0 /\ j.command = i.command
      /\ j.reset = i.reset
  BY <1>1, DataInType
<1> HIDE DEF j
<1>3. /\ f \in Registers /\ Rest(j, f) /\ f.pos = j.pos /\ f.packetstatus = j.packetstatus /\ f.packlen = j.packlen
  BY <1>1, <1>2, FillType
<1>4. Answer(i) = Out(f, TRUE, FALSE, disc)
  BY DEF Answer, j
<1> HIDE DEF f
<1>5. Due(f) /\ Well(f, disc) /\ ~f.reset
  BY <1>1, <1>2, <1>3 DEF Due, PacketDue, Well, Rest
<1> QED BY <1>4, <1>5, LaterDue

LEMMA ReadCdAwaits ==
    ASSUME NEW i, Well(i, disc), ~i.reset, i.command = "PACKETCMD", i.atastat = "BUSY",
           NEW at \in Blocks, NEW n \in 1 .. Cap - at
    PROVE  Awaits(Out(ReadCd(i, at, n), TRUE, FALSE, disc))
<1> DEFINE f == ReadCd(i, at, n)
<1>1. i \in Registers /\ disc \in Image
  BY DEF Well
<1>2. /\ f \in Registers /\ CdFits(f) /\ f.packetstatus = 6 /\ f.pos = 0 /\ f.atastat = "BUSY"
      /\ f.command = "PACKETCMD" /\ ~f.reset
  BY <1>1, ReadCdType
<1> HIDE DEF f
<1>3. Due(f) /\ Well(f, disc)
  BY <1>1, <1>2 DEF Due, PacketDue, Well
<1> QED BY <1>2, <1>3, LaterDue DEF f

LEMMA ListWanted ==
    ASSUME NEW i \in Registers
    PROVE  /\ DataIn(i, 4, 1) \in Registers /\ DataIn(i, 4, 1).packetstatus = 4 /\ DataIn(i, 4, 1).packlen = 1
           /\ DataIn(i, 4, 1).command = i.command /\ DataIn(i, 4, 1).reset = i.reset
           /\ DataIn(i, 4, 1).buffer = i.buffer
<1>1. 4 \in PacketStates /\ 1 \in Nat
  BY Literals
<1> QED BY <1>1, DataInType

LEMMA ModeSelectAwaits ==
    ASSUME NEW i, Well(i, disc), ~i.reset, i.command = "PACKETCMD", ideirq = FALSE,
           i.buffer[0] \in Packets, i.buffer[0][1] = "MODE_SELECT_10"
    PROVE  Awaits(ModeSelect(i))
<1>1. /\ i \in Registers /\ disc \in Image /\ 4 \in PacketStates /\ 255 \in PacketStates /\ 1 \in Nat
      /\ "NONE" \in Statuses /\ 0 \in 0 .. BlockSize
  BY Literals DEF Well, Statuses
<1>2. CASE i.packetstatus = 5
  <2> DEFINE j == [i EXCEPT !.atastat = "NONE", !.packetstatus = 255, !.pos = 0]
  <2>1. j \in Registers
    BY <1>1, ZenonT(30) DEF Registers
  <2>2. j.atastat = "NONE" /\ j.packetstatus = 255 /\ j.reset = i.reset
    BY <1>1 DEF Registers
  <2>3. ModeSelect(i) = Out(j, FALSE, TRUE, disc)
    BY <1>2 DEF ModeSelect, ide_irq_raise
  <2> HIDE DEF j
  <2>4. Well(j, disc) /\ Unselected(j)
    BY <1>1, <2>1, <2>2 DEF Well, Unselected
  <2>5. Awaits(Out(j, FALSE, TRUE, disc))
    BY <2>2, <2>4, RaiseEnds
  <2> QED BY <2>3, <2>5
<1>3. CASE i.packetstatus # 5
  <2> DEFINE j == DataIn(i, 4, 1)
  <2>1. /\ j \in Registers /\ j.packetstatus = 4 /\ j.packlen = 1 /\ j.command = i.command /\ j.reset = i.reset
        /\ j.buffer = i.buffer
    BY <1>1, ListWanted
  <2>2. ModeSelect(i) = Out(j, TRUE, FALSE, disc)
    BY <1>3 DEF ModeSelect
  <2> HIDE DEF j
  <2>3. Due(j) /\ Well(j, disc)
    BY <1>1, <2>1 DEF Due, PacketDue, Well, Selecting
  <2> QED BY <2>1, <2>2, <2>3, LaterDue
<1> QED BY <1>2, <1>3

LEMMA PacketAwaits ==
    ASSUME NEW i, Well(i, disc), ~i.reset, i.command = "PACKETCMD", ideirq = FALSE, NEW ready \in BOOLEAN,
           i.buffer[0] \in Packets, i.packetstatus # 5 => i.atastat = "BUSY",
           i.packetstatus = 5 => i.buffer[0][1] = "MODE_SELECT_10"
    PROVE  Awaits(atapicommand(i, ready))
<1> DEFINE p == i.buffer[0]
           o == atapicommand(i, ready)
<1>0. p \in Packets
  OBVIOUS
<1>1. CASE p[1] \notin Always /\ ~ready
  <2>1. o = atapi_notready(i)
    BY <1>1 DEF atapicommand
  <2> QED BY <2>1, NotReadyAwaits
<1>2. CASE ~(p[1] \notin Always /\ ~ready)
  <2>1. CASE p[1] \in Silent \cup {"SET_SPEED", "START_STOP_UNIT"}
    <3>1. o = CommandDone(i)
      BY <1>2, <2>1 DEF atapicommand, Silent, Answers
    <3> QED BY <3>1, CommandDoneAwaits
  <2>2. CASE p[1] \in Answers \cup {"REQUEST_SENSE", "INQUIRY"}
    <3>1. o = Answer(i)
      BY <1>2, <2>2 DEF atapicommand, Silent, Answers
    <3> QED BY <3>1, AnswerAwaits
  <2>3. CASE p[1] = "READ_CD"
    <3>1. o = Out(ReadCd(i, p[2], p[3]), TRUE, FALSE, disc)
      BY <1>2, <2>3 DEF atapicommand, Silent, Answers
    <3>2. p[2] \in Blocks /\ p[3] \in 1 .. Cap - p[2] /\ i.packetstatus # 5
      BY <2>3, PacketShape
    <3> HIDE DEF p
    <3> QED BY <3>1, <3>2, ReadCdAwaits
  <2>4. CASE p[1] = "MODE_SELECT_10"
    <3>1. o = ModeSelect(i)
      BY <1>2, <2>4 DEF atapicommand, Silent, Answers
    <3> QED BY <2>4, <3>1, ModeSelectAwaits
  <2>5. CASE p[1] \notin Silent \cup Answers \cup {"SET_SPEED", "START_STOP_UNIT", "REQUEST_SENSE", "INQUIRY",
                                                 "READ_CD", "MODE_SELECT_10"}
    <3>1. o = atapi_notready(i)
      BY <1>2, <2>5 DEF atapicommand, UnknownOpcode
    <3> QED BY <3>1, NotReadyAwaits
  <2> QED BY <2>1, <2>2, <2>3, <2>4, <2>5
<1> QED BY <1>1, <1>2

LEMMA PacketCallbackAwaits ==
    ASSUME NEW i, Well(i, disc), ~i.reset, i.command = "PACKETCMD", ideirq = FALSE, NEW ready \in BOOLEAN,
           PacketDue(i)
    PROVE  Awaits(PacketCallback(i, ready))
<1> DEFINE o == PacketCallback(i, ready)
<1>1. /\ i \in Registers /\ disc \in Image /\ {"READY", "BUSY", "DRQ", "ERR"} \subseteq Statuses
      /\ 255 \in PacketStates /\ 0 \in 0 .. BlockSize /\ 1 \in 0 .. BlockSize /\ 0 < BlockSize /\ 1 < BlockSize
      /\ i.packetstatus \in PacketStates
  BY Literals DEF Well, Registers
<1>2. CASE i.packetstatus = 0
  <2> DEFINE j == Drq(i)
  <2>1. j \in Registers /\ Rest(i, j) /\ j.atastat = "DRQ" /\ j.pos = 0 /\ j.packetstatus = 0
    BY <1>1, <1>2, DrqType
  <2>2. o = Out(j, FALSE, TRUE, disc)
    BY <1>2 DEF PacketCallback, ide_irq_raise
  <2> HIDE DEF j
  <2>3. DataPhase(j, disc) /\ Well(j, disc) /\ ~j.reset
    BY <1>1, <2>1 DEF DataPhase, PacketData, Well, Rest
  <2> QED BY <2>1, <2>2, <2>3, RaiseData
<1>3. CASE i.packetstatus = 1
  <2> DEFINE j == [i EXCEPT !.atastat = "BUSY"]
  <2>1. j \in Registers
    BY <1>1 DEF Registers
  <2>2. j.atastat = "BUSY" /\ j.command = i.command /\ j.reset = i.reset /\ j.packetstatus = 1 /\ j.buffer = i.buffer
    BY <1>1, <1>3 DEF Registers
  <2>3. o = atapicommand(j, ready)
    BY <1>3 DEF PacketCallback
  <2> HIDE DEF j
  <2>4. Well(j, disc) /\ j.buffer[0] \in Packets
    BY <1>1, <1>3, <2>1, <2>2 DEF Well, PacketDue
  <2>5. j.packetstatus # 5 /\ ~j.reset /\ j.command = "PACKETCMD"
    BY <2>2
  <2>6. Awaits(atapicommand(j, ready))
    BY <2>2, <2>4, <2>5, PacketAwaits
  <2> QED BY <2>3, <2>6
<1>4. CASE i.packetstatus = 2
  <2>1. o = Out([i EXCEPT !.atastat = "READY"], FALSE, TRUE, disc)
    BY <1>4 DEF PacketCallback, ide_irq_raise
  <2>2. Unselected(i)
    BY <1>4 DEF Unselected
  <2> QED BY <2>1, <2>2, ReadyEnds
<1>5. CASE i.packetstatus = 3
  <2> DEFINE j == [i EXCEPT !.atastat = "DRQ", !.packetstatus = 255]
  <2>1. j \in Registers
    BY <1>1, ZenonT(30) DEF Registers
  <2>2. /\ j.atastat = "DRQ" /\ j.command = i.command /\ j.reset = i.reset /\ j.packetstatus = 255 /\ j.pos = i.pos
        /\ j.packlen = i.packlen
    BY <1>1 DEF Registers
  <2>3. o = Out(j, FALSE, TRUE, disc)
    BY <1>5 DEF PacketCallback, ide_irq_raise
  <2> HIDE DEF j
  <2>4. DataPhase(j, disc) /\ Well(j, disc)
    BY <1>1, <1>5, <2>1, <2>2 DEF DataPhase, PacketData, Well, PacketDue
  <2>5. Awaits(Out(j, FALSE, TRUE, disc))
    BY <2>2, <2>4, RaiseData
  <2> QED BY <2>3, <2>5
<1>6. CASE i.packetstatus = 4
  <2> DEFINE j == [i EXCEPT !.atastat = "DRQ", !.pos = 1]
  <2>1. j \in Registers
    BY <1>1 DEF Registers
  <2>2. /\ j.atastat = "DRQ" /\ j.command = i.command /\ j.reset = i.reset /\ j.packetstatus = 4 /\ j.pos = 1
        /\ j.packlen = i.packlen /\ j.buffer = i.buffer
    BY <1>1, <1>6 DEF Registers
  <2>3. o = Out(j, FALSE, TRUE, disc)
    BY <1>6 DEF PacketCallback, ide_irq_raise
  <2> HIDE DEF j
  <2>4. DataPhase(j, disc) /\ Well(j, disc)
    BY <1>1, <1>6, <2>1, <2>2 DEF DataPhase, PacketData, Well, PacketDue, Selecting
  <2>5. Awaits(Out(j, FALSE, TRUE, disc))
    BY <2>2, <2>4, RaiseData
  <2> QED BY <2>3, <2>5
<1>7. CASE i.packetstatus = 5
  <2>1. o = atapicommand(i, ready)
    BY <1>7 DEF PacketCallback
  <2>2. i.buffer[0] \in Packets /\ i.buffer[0][1] = "MODE_SELECT_10"
    BY <1>7 DEF PacketDue, Selecting
  <2> QED BY <1>7, <2>1, <2>2, PacketAwaits
<1>8. CASE i.packetstatus = 6
  <2> DEFINE j == [i EXCEPT !.atastat = "DRQ"]
  <2>1. j \in Registers
    BY <1>1 DEF Registers
  <2>2. /\ j.atastat = "DRQ" /\ j.command = i.command /\ j.reset = i.reset /\ j.packetstatus = 6 /\ j.pos = i.pos
        /\ j.packlen = i.packlen /\ j.buffer = i.buffer /\ j.cdpos = i.cdpos /\ j.cdlen = i.cdlen
    BY <1>1, <1>8 DEF Registers
  <2>3. o = Out(j, FALSE, TRUE, disc)
    BY <1>8 DEF PacketCallback, ide_irq_raise
  <2> HIDE DEF j
  <2>4. DataPhase(j, disc) /\ Well(j, disc)
    BY <1>1, <1>8, <2>1, <2>2 DEF DataPhase, PacketData, Well, PacketDue, CdFits, BufferWords
  <2>5. Awaits(Out(j, FALSE, TRUE, disc))
    BY <2>2, <2>4, RaiseData
  <2> QED BY <2>3, <2>5
<1>9. CASE i.packetstatus = 128
  <2> DEFINE j == [i EXCEPT !.atastat = "ERR"]
  <2>1. j \in Registers
    BY <1>1 DEF Registers
  <2>2. j.atastat = "ERR" /\ j.command = i.command /\ j.reset = i.reset /\ j.packetstatus = 128
    BY <1>1, <1>9 DEF Registers
  <2>3. o = Out(j, FALSE, TRUE, disc)
    BY <1>9 DEF PacketCallback, ide_irq_raise
  <2> HIDE DEF j
  <2>4. Unselected(j) /\ Well(j, disc)
    BY <1>1, <2>1, <2>2 DEF Well, Unselected
  <2>5. Awaits(Out(j, FALSE, TRUE, disc))
    BY <2>2, <2>4, RaiseEnds
  <2> QED BY <2>3, <2>5
<1>10. i.packetstatus \in {0, 1, 2, 3, 4, 5, 6, 128}
  BY <1>1 DEF PacketStates, PacketDue
<1> QED BY <1>2, <1>3, <1>4, <1>5, <1>6, <1>7, <1>8, <1>9, <1>10

-----------------------------------------------------------------------------
(* The countdown is out. *)

LEMMA SrstAwaits ==
    ASSUME NEW i, Well(i, disc), ~i.reset, i.command = "SRST"
    PROVE  Awaits(ide_irq_raise([i EXCEPT !.atastat = "READY", !.secount = 1, !.sector = 1, !.cylinder = 0]))
<1> DEFINE j == [i EXCEPT !.atastat = "READY", !.secount = 1, !.sector = 1, !.cylinder = 0]
<1>1. /\ i \in Registers /\ disc \in Image /\ Unselected(i) /\ "READY" \in Statuses
      /\ 1 \in Counts /\ 0 \in Nat /\ 1 \in Nat
  BY Literals DEF Well
<1>2. j \in Registers
  BY <1>1 DEF Registers
<1>3. j.atastat = "READY" /\ j.reset = i.reset /\ j.packetstatus = i.packetstatus
  BY <1>1 DEF Registers
<1> HIDE DEF j
<1>4. Well(j, disc) /\ Unselected(j)
  BY <1>1, <1>2, <1>3 DEF Well, Unselected
<1> QED BY <1>3, <1>4, RaiseEnds DEF ide_irq_raise, j

LEMMA SpecifyAwaits ==
    ASSUME NEW i, Well(i, disc), ~i.reset, i.command = "SPECIFY", i.secount \in Spts
    PROVE  Awaits(ide_irq_raise([i EXCEPT !.spt = i.secount, !.hpc = i.head + 1, !.atastat = "READY"]))
<1> DEFINE j == [i EXCEPT !.spt = i.secount, !.hpc = i.head + 1, !.atastat = "READY"]
<1>1. i \in Registers /\ disc \in Image /\ Unselected(i) /\ "READY" \in Statuses
  BY Literals DEF Well
<1>0. i.head \in Nat
  BY <1>1 DEF Registers
<1>2. i.secount \in Nat \ {0}
  BY IdeAssumption
<1>6. i.head + 1 \in Nat \ {0}
  BY <1>0
<1>3. j \in Registers
  BY <1>1, <1>2, <1>6 DEF Registers
<1>4. j.atastat = "READY" /\ j.reset = i.reset /\ j.packetstatus = i.packetstatus
  BY <1>1 DEF Registers
<1> HIDE DEF j
<1>5. Well(j, disc) /\ Unselected(j)
  BY <1>1, <1>3, <1>4 DEF Well, Unselected
<1> QED BY <1>4, <1>5, RaiseEnds DEF ide_irq_raise, j

LEMMA NoIdentifyAwaits ==
    ASSUME NEW i, Well(i, disc), ~i.reset, i.command = "IDENTIFY"
    PROVE  Awaits(Abort([i EXCEPT !.secount = 1, !.sector = 1, !.cylinder = 0, !.drive = 0, !.head = 0]))
<1> DEFINE j == [i EXCEPT !.secount = 1, !.sector = 1, !.cylinder = 0, !.drive = 0, !.head = 0]
<1>1. i \in Registers /\ disc \in Image /\ Unselected(i) /\ 1 \in Counts /\ 0 \in Nat /\ 1 \in Nat /\ 0 \in {0, 1}
  BY Literals DEF Well
<1>2. j \in Registers
  BY <1>1 DEF Registers
<1>3. j.command = i.command /\ j.reset = i.reset /\ j.packetstatus = i.packetstatus
  BY <1>1 DEF Registers
<1> HIDE DEF j
<1>4. Well(j, disc)
  BY <1>1, <1>2, <1>3 DEF Well, Unselected
<1> QED BY <1>3, <1>4, AbortEnds DEF j

LEMMA CallbackAwaits ==
    ASSUME NEW i, Well(i, disc), ~i.reset, ideirq = FALSE, NEW ready \in BOOLEAN, Due(i)
    PROVE  Awaits(callbackide(i, ready))
<1> DEFINE o == callbackide(i, ready)
<1>0. i.command \in Commands /\ i.drive \in {0, 1} /\ (i.command # "PACKETCMD" => Unselected(i))
  BY DEF Well, Registers
<1>1. CASE i.command = "SRST"
  <2>1. o = ide_irq_raise([i EXCEPT !.atastat = "READY", !.secount = 1, !.sector = 1, !.cylinder = 0])
    BY <1>1 DEF callbackide
  <2> QED BY <1>1, <2>1, SrstAwaits
<1>2. CASE i.command \in {"RESTORE", "VERIFY"} /\ i.drive = 0
  <2>1. o = ide_irq_raise([i EXCEPT !.atastat = "READY"])
    <3>1. CASE i.command = "RESTORE"
      BY <1>2, <3>1 DEF callbackide, IDE_DRIVE_IS_CDROM
    <3>2. CASE i.command = "VERIFY"
      BY <1>2, <3>2 DEF callbackide, IDE_DRIVE_IS_CDROM
    <3> QED BY <1>2, <3>1, <3>2
  <2>2. o = Out([i EXCEPT !.atastat = "READY"], FALSE, TRUE, disc)
    BY <2>1 DEF ide_irq_raise
  <2> QED BY <1>0, <1>2, <2>2, ReadyEnds
<1>3. CASE i.command = "READ" /\ i.drive = 0
  <2>1. o = ide_irq_raise(Fill(Drq(i), disc[ide_get_sector(i)]))
    BY <1>3 DEF callbackide, IDE_DRIVE_IS_CDROM
  <2>2. Fits(i)
    BY <1>3 DEF Due, OnDisc
  <2> QED BY <1>3, <2>1, <2>2, ReadCallback
<1>4. CASE i.command = "SPECIFY" /\ i.drive = 0
  <2>1. o = ide_irq_raise([i EXCEPT !.spt = i.secount, !.hpc = i.head + 1, !.atastat = "READY"])
    BY <1>4 DEF callbackide, IDE_DRIVE_IS_CDROM
  <2>2. i.secount \in Spts
    BY <1>4 DEF Due
  <2> QED BY <1>4, <2>1, <2>2, SpecifyAwaits
<1>5. CASE (i.command = "PIDENTIFY" /\ i.drive = 1) \/ (i.command = "IDENTIFY" /\ i.drive = 0)
  <2>1. o = ide_irq_raise(Fill(Drq(i), Zeros))
    <3>1. CASE i.command = "PIDENTIFY" /\ i.drive = 1
      BY <3>1 DEF callbackide, IDE_DRIVE_IS_CDROM
    <3>2. CASE i.command = "IDENTIFY" /\ i.drive = 0
      BY <3>2 DEF callbackide, IDE_DRIVE_IS_CDROM
    <3> QED BY <1>5, <3>1, <3>2
  <2> QED BY <1>5, <2>1, IdentifyData
<1>6. CASE i.command = "IDENTIFY" /\ i.drive = 1
  <2>1. o = Abort([i EXCEPT !.secount = 1, !.sector = 1, !.cylinder = 0, !.drive = 0, !.head = 0])
    BY <1>6 DEF callbackide, IDE_DRIVE_IS_CDROM
  <2> QED BY <1>6, <2>1, NoIdentifyAwaits
<1>7. CASE i.command = "PACKETCMD"
  <2>1. o = PacketCallback(i, ready) /\ PacketDue(i)
    BY <1>7 DEF callbackide, Due
  <2> QED BY <1>7, <2>1, PacketCallbackAwaits
<1>8. CASE \/ i.command \in {"RESTORE", "VERIFY", "READ", "SPECIFY"} /\ i.drive = 1
           \/ i.command = "PIDENTIFY" /\ i.drive = 0
           \/ i.command = "SETIDLE1"
  <2>1. o = Abort(i)
    <3>1. CASE i.command \in {"RESTORE", "VERIFY"} /\ i.drive = 1
      BY <3>1 DEF callbackide, IDE_DRIVE_IS_CDROM
    <3>2. CASE i.command \in {"READ", "SPECIFY"} /\ i.drive = 1
      BY <3>2 DEF callbackide, IDE_DRIVE_IS_CDROM
    <3>3. CASE i.command = "PIDENTIFY" /\ i.drive = 0
      BY <3>3 DEF callbackide, IDE_DRIVE_IS_CDROM
    <3>4. CASE i.command = "SETIDLE1"
      BY <3>4 DEF callbackide, IDE_DRIVE_IS_CDROM
    <3> QED BY <1>8, <3>1, <3>2, <3>3, <3>4
  <2> QED BY <1>8, <2>1, AbortEnds
<1>9. i.command \notin {"WRITE", "FORMAT", "NONE"}
  BY DEF Due
<1> QED BY <1>0, <1>1, <1>2, <1>3, <1>4, <1>5, <1>6, <1>7, <1>8, <1>9 DEF Commands

LEMMA CallbackStep == ASSUME IdeInv, Callback PROVE IdeInv'
<1>1. PICK ready \in BOOLEAN : Take(callbackide(ide, ready))
  BY DEF Callback
<1>2. idecallback /\ guest' = guest /\ Well(ide, disc) /\ guest \in {"irq", "reset"} /\ ideirq \in BOOLEAN
  BY DEF Callback, IdeInv, Moving
<1>3. CASE guest = "irq"
  <2>1. ideirq = FALSE /\ Due(ide) /\ ~ide.reset
    BY <1>2, <1>3 DEF IdeInv, Waiting
  <2>2. Awaits(callbackide(ide, ready))
    BY <1>2, <2>1, CallbackAwaits
  <2> QED BY <1>1, <1>2, <1>3, <2>2, AwaitsInv
<1>4. CASE guest = "reset"
  <2> DEFINE j == [ide EXCEPT !.atastat = "READY", !.secount = 1, !.sector = 1, !.head = 0, !.cylinder = 0,
                           !.reset = FALSE]
             o == callbackide(ide, ready)
  <2>1. Unselected(ide) /\ ide.reset /\ ide \in Registers /\ disc \in Image
    BY <1>2, <1>4 DEF IdeInv, Well
  <2>2. "READY" \in Statuses /\ 1 \in Counts /\ 0 \in Nat /\ 1 \in Nat /\ FALSE \in BOOLEAN
    BY Literals
  <2>3. j \in Registers
    BY <2>1, <2>2 DEF Registers
  <2>4. j.reset = FALSE /\ j.packetstatus = ide.packetstatus
    BY <2>1 DEF Registers
  <2>5. o = Out(j, FALSE, ideirq, disc)
    BY <2>1 DEF callbackide, ResetCallback
  <2>6. Take(o)
    BY <1>1
  <2> HIDE DEF j, o
  <2>7. ide' = j /\ idecallback' = FALSE /\ ideirq' = ideirq /\ disc' = disc
    BY <2>5, <2>6 DEF Take, Out
  <2>8. Well(j, disc) /\ Unselected(j)
    BY <2>1, <2>3, <2>4 DEF Well, Unselected
  <2> QED BY <1>2, <1>4, <2>4, <2>7, <2>8 DEF IdeInv
<1> QED BY <1>2, <1>3, <1>4

-----------------------------------------------------------------------------
(* The words of a block. *)

LEMMA DataFacts ==
    ASSUME IdeInv, guest = "data"
    PROVE  /\ Well(ide, disc) /\ ide \in Registers /\ disc \in Image /\ ~ide.reset /\ ide.atastat = "DRQ"
           /\ idecallback = FALSE /\ ideirq = FALSE /\ DataPhase(ide, disc)
           /\ ide.pos \in Nat /\ ide.pos < BlockSize /\ ide.pos + 1 \in 0 .. BlockSize
<1>1. /\ Well(ide, disc) /\ ide \in Registers /\ disc \in Image /\ ~ide.reset /\ ide.atastat = "DRQ"
      /\ idecallback = FALSE /\ ideirq = FALSE /\ DataPhase(ide, disc)
  BY DEF IdeInv, Moving, Well
<1>2. ide.pos \in 0 .. BlockSize /\ ide.pos < BlockSize
  BY <1>1 DEF DataPhase, Registers
<1> QED BY <1>1, <1>2, Literals

(* A word inside the block. *)
LEMMA NextWord ==
    ASSUME NEW i, i \in Registers, NEW j, j \in Registers, Rest(i, j), Well(i, disc), ~i.reset, i.atastat = "DRQ",
           j.atastat = i.atastat, j.packetstatus = i.packetstatus, j.pos = i.pos + 1, j.pos < BlockSize,
           DataPhase(j, disc), i.pos \in Nat,
           Take(Out(j, FALSE, FALSE, disc)), BlockEnded(Out(j, FALSE, FALSE, disc)), j.packetstatus # 5
    PROVE  IdeInv'
<1> DEFINE o == Out(j, FALSE, FALSE, disc)
<1>1. o.ide = j /\ o.cb = FALSE /\ o.irq = FALSE /\ o.disc = disc
  BY DEF Out
<1>2. Take(o) /\ BlockEnded(o)
  OBVIOUS
<1> HIDE DEF o
<1>0. o.ide.pos # 0 /\ o.ide.packetstatus # 5
  BY <1>1
<1>3. guest' = "data"
  BY <1>0, <1>2 DEF BlockEnded
<1>4. Well(j, disc) /\ ~j.reset
  BY DEF Well, Rest, Unselected
<1>5. Moves(o)
  BY <1>1, <1>4 DEF Moves, Moving, Fine
<1> QED BY <1>2, <1>3, <1>5, MovesInv

LEMMA ReadOn ==
    ASSUME IdeInv, guest = "data", ~Writing, Take(readidew(ide)), BlockEnded(readidew(ide)),
           ide.pos + 1 < (IF ide.command = "PACKETCMD" THEN ide.packlen ELSE BlockSize)
    PROVE  IdeInv'
<1> DEFINE j == [ide EXCEPT !.pos = ide.pos + 1]
<1>1. /\ Well(ide, disc) /\ ide \in Registers /\ disc \in Image /\ ~ide.reset /\ ide.atastat = "DRQ"
      /\ idecallback = FALSE /\ ideirq = FALSE /\ DataPhase(ide, disc)
      /\ ide.pos \in Nat /\ ide.pos < BlockSize /\ ide.pos + 1 \in 0 .. BlockSize
  BY DataFacts
<1>2. j \in Registers
  BY <1>1 DEF Registers
<1>3. /\ j.pos = ide.pos + 1 /\ j.atastat = ide.atastat /\ j.packetstatus = ide.packetstatus /\ j.buffer = ide.buffer
      /\ j.packlen = ide.packlen /\ j.cdpos = ide.cdpos /\ j.cdlen = ide.cdlen /\ Rest(ide, j)
  BY <1>1 DEF Registers, Rest, Place
<1>4. /\ ide.command \in {"READ", "IDENTIFY", "PIDENTIFY", "PACKETCMD"}
      /\ ide.command = "PACKETCMD" => ide.packetstatus \in {255, 6}
      /\ ide.packetstatus \notin {4, 5}
  BY <1>1 DEF Writing, DataPhase, PacketData, Well, Unselected
<1>5. readidew(ide) = Out(j, idecallback, ideirq, disc)
  <2>1. ~(ide.pos + 1 >= (IF ide.command = "PACKETCMD" THEN ide.packlen ELSE BlockSize))
    <3>1. (IF ide.command = "PACKETCMD" THEN ide.packlen ELSE BlockSize) \in Nat
      BY <1>1, Literals DEF Registers
    <3> QED BY <1>1, <3>1
  <2> QED BY <2>1 DEF readidew
<1> HIDE DEF j
<1>6. CASE ide.command = "PACKETCMD"
  <2>1. ide.packetstatus = 6 /\ CdFits(ide)
    BY <1>1, <1>4, <1>6 DEF DataPhase, PacketData
  <2>2. CdFits(j) /\ j.pos < BlockSize
    BY <1>1, <1>3, <1>6, <2>1 DEF CdFits, BufferWords
  <2>3. DataPhase(j, disc)
    BY <1>3, <1>6, <2>1, <2>2 DEF DataPhase, PacketData, Rest
  <2> QED BY <1>1, <1>2, <1>3, <1>4, <1>5, <2>2, <2>3, NextWord
<1>7. CASE ide.command # "PACKETCMD"
  <2>1. j.pos < BlockSize
    BY <1>3, <1>7
  <2>2. ide.command = "READ" => Fits(j) /\ ide_get_sector(j) = ide_get_sector(ide)
                              /\ BufferWords(j) = BufferWords(ide)
    BY <1>1, <1>3, FitsSame DEF DataPhase, Rest, BufferWords
  <2>3. DataPhase(j, disc)
    BY <1>1, <1>3, <1>4, <1>7, <2>1, <2>2 DEF DataPhase, Rest
  <2> QED BY <1>1, <1>2, <1>3, <1>4, <1>5, <2>1, <2>3, NextWord
<1> QED BY <1>6, <1>7

(* The block was the last: the device says that it is ready, without an interrupt. *)
LEMMA Over ==
    ASSUME NEW j, j \in Registers, disc \in Image, ~j.reset, j.atastat = "READY", j.pos = 0, j.packetstatus = 0,
           Take(Out(j, FALSE, FALSE, disc)), BlockEnded(Out(j, FALSE, FALSE, disc))
    PROVE  IdeInv'
<1> DEFINE o == Out(j, FALSE, FALSE, disc)
<1>1. o.ide = j /\ o.cb = FALSE /\ o.irq = FALSE /\ o.disc = disc
  BY DEF Out
<1>2. Take(o) /\ BlockEnded(o)
  OBVIOUS
<1> HIDE DEF o
<1>3. guest' = "idle"
  BY <1>1, <1>2 DEF BlockEnded
<1>4. Well(j, disc) /\ Unselected(j)
  BY DEF Well, Unselected
<1>5. Fine(o)
  BY <1>1, <1>4 DEF Fine
<1>6. Ends(o)
  BY <1>1, <1>4, <1>5 DEF Ends
<1> QED BY <1>2, <1>3, <1>6, EndsInv

(* The device goes on, or has something to say: the driver waits for its interrupt. *)
LEMMA Onward ==
    ASSUME NEW o, Take(o), BlockEnded(o), Awaits(o), o.ide.pos = 0 \/ o.ide.packetstatus = 5,
           o.ide.atastat \in {"READY", "ERR"} => o.irq = TRUE
    PROVE  IdeInv'
<1>1. guest' = "irq"
  BY DEF BlockEnded
<1> QED BY <1>1, AwaitsInv

(* The last word of a block that is not the transfer's last: the next block. *)
LEMMA ReadNext ==
    ASSUME IdeInv, guest = "data", ide.command = "READ", ide.secount # 1, ide.pos + 1 >= BlockSize
    PROVE  \E f : /\ readidew(ide) = Out(f, FALSE, TRUE, disc) /\ Awaits(Out(f, FALSE, TRUE, disc))
                  /\ f.pos = 0 /\ f.atastat = "DRQ" /\ f.command = "READ" /\ f.drive = 0 /\ ~f.reset
                  /\ ide_get_sector(f) = ide_get_sector(ide) + 1 /\ f.secount = ide.secount - 1
<1> DEFINE over == [ide EXCEPT !.pos = 0, !.atastat = "READY", !.packetstatus = 0]
           k == [over EXCEPT !.secount = ide.secount - 1, !.atastat = "BUSY"]
           n == ide_next_sector(k)
           f == Fill(Drq(n), disc[ide_get_sector(n)])
           o == readidew(ide)
<1>1. /\ Well(ide, disc) /\ ide \in Registers /\ disc \in Image /\ ~ide.reset /\ DataPhase(ide, disc)
  BY DataFacts
<1>2. /\ {"READY", "BUSY"} \subseteq Statuses /\ 0 \in 0 .. BlockSize /\ 0 \in PacketStates
  BY Literals
<1>3. over \in Registers
  BY <1>1, <1>2 DEF Registers
<1>4. /\ over.pos = 0 /\ over.packetstatus = 0 /\ over.reset = ide.reset
      /\ over.command = ide.command /\ over.drive = ide.drive /\ over.secount = ide.secount /\ Place(ide, over)
  BY <1>1 DEF Registers, Place
<1>5. o = callbackide(n, TRUE)
  <2>1. o = callbackide(ide_next_sector([over EXCEPT !.secount = over.secount - 1, !.atastat = "BUSY"]), TRUE)
    BY DEF readidew
  <2> HIDE DEF over
  <2> QED BY <1>4, <2>1
<1>6. ide.drive = 0 /\ Fits(ide)
  BY <1>1 DEF DataPhase
<1>7. ide.secount - 1 \in 1 .. MaxCount /\ ide.secount - 1 \in Counts /\ ide.secount \in Nat
  BY <1>6, Literals DEF Fits, Counts
<1> HIDE DEF over
<1>8. k \in Registers
  BY <1>2, <1>3, <1>7 DEF Registers
<1>9. /\ k.secount = ide.secount - 1 /\ k.atastat = "BUSY" /\ k.pos = 0 /\ k.command = "READ" /\ k.drive = 0
      /\ k.reset = ide.reset /\ k.packetstatus = 0 /\ Place(over, k)
  BY <1>3, <1>4, <1>6 DEF Registers, Place
<1> HIDE DEF k
<1>10. k.sector \in 1 .. k.spt /\ k.head < k.hpc /\ ide_get_sector(k) = ide_get_sector(ide)
  BY <1>4, <1>6, <1>9 DEF Place, Fits, ide_get_sector
<1>11. /\ n \in Registers /\ n.sector \in 1 .. n.spt /\ n.head < n.hpc
       /\ ide_get_sector(n) = ide_get_sector(ide) + 1
       /\ n.secount = ide.secount - 1 /\ n.command = "READ" /\ n.drive = 0 /\ n.reset = ide.reset
       /\ n.packetstatus = 0 /\ n.pos = 0
  BY <1>8, <1>9, <1>10, NextSectorType
<1>12. ide_get_sector(ide) \in Nat /\ ide_get_sector(ide) + ide.secount <= Cap
  BY <1>1, <1>6, FitsBlocks DEF Blocks, Fits
<1> HIDE DEF n
<1>13. Fits(n)
  BY <1>7, <1>11, <1>12 DEF Fits
<1>14. Well(n, disc) /\ ~n.reset
  BY <1>1, <1>11 DEF Well, Unselected
<1>15. callbackide(n, TRUE) = ide_irq_raise(f)
  BY <1>11, <1>14 DEF callbackide, IDE_DRIVE_IS_CDROM
<1>16. Awaits(ide_irq_raise(f))
  BY <1>11, <1>13, <1>14, ReadCallback
<1> HIDE DEF f, o
<1>17. /\ f \in Registers /\ Rest(n, f) /\ f.pos = 0 /\ f.atastat = "DRQ"
       /\ ide_get_sector(f) = ide_get_sector(n)
  BY <1>11, <1>13, <1>14, ReadFill DEF f
<1>18. o = Out(f, FALSE, TRUE, disc) /\ Awaits(Out(f, FALSE, TRUE, disc))
  BY <1>5, <1>15, <1>16 DEF ide_irq_raise
<1>19. f.command = "READ" /\ f.drive = 0 /\ ~f.reset /\ f.secount = ide.secount - 1
       /\ ide_get_sector(f) = ide_get_sector(ide) + 1
  BY <1>1, <1>11, <1>17 DEF Rest
<1> QED BY <1>17, <1>18, <1>19 DEF o

LEMMA ReadEnd ==
    ASSUME IdeInv, guest = "data", ~Writing, Take(readidew(ide)), BlockEnded(readidew(ide)),
           ~(ide.pos + 1 < (IF ide.command = "PACKETCMD" THEN ide.packlen ELSE BlockSize))
    PROVE  IdeInv'
<1> DEFINE over == [ide EXCEPT !.pos = 0, !.atastat = "READY", !.packetstatus = 0]
           o == readidew(ide)
<1>1. /\ Well(ide, disc) /\ ide \in Registers /\ disc \in Image /\ ~ide.reset /\ ide.atastat = "DRQ"
      /\ idecallback = FALSE /\ ideirq = FALSE /\ DataPhase(ide, disc)
      /\ ide.pos \in Nat /\ ide.pos < BlockSize /\ ide.pos + 1 \in 0 .. BlockSize
  BY DataFacts
<1>2. /\ {"READY", "BUSY"} \subseteq Statuses /\ 0 \in 0 .. BlockSize /\ 0 \in PacketStates /\ 2 \in PacketStates
      /\ 0 \in Counts /\ 0 \in Nat
  BY Literals
<1>3. over \in Registers
  BY <1>1, <1>2 DEF Registers
<1>4. /\ over.pos = 0 /\ over.atastat = "READY" /\ over.packetstatus = 0 /\ over.reset = ide.reset
      /\ over.command = ide.command /\ over.drive = ide.drive /\ over.secount = ide.secount /\ Place(ide, over)
  BY <1>1 DEF Registers, Place
<1>5. ide.pos + 1 >= (IF ide.command = "PACKETCMD" THEN ide.packlen ELSE BlockSize)
  <2>1. (IF ide.command = "PACKETCMD" THEN ide.packlen ELSE BlockSize) \in Nat
    BY <1>1, Literals DEF Registers
  <2> QED BY <1>1, <2>1
<1>6. Take(o) /\ BlockEnded(o)
  OBVIOUS
<1>7. CASE ide.command = "PACKETCMD" /\ ide.packetstatus = 6
  <2> DEFINE k == [ide EXCEPT !.pos = 0]
  <2>1. o = callreadcd(k)
    BY <1>5, <1>7 DEF readidew
  <2>2. k \in Registers
    BY <1>1, <1>2 DEF Registers
  <2>3. /\ k.pos = 0 /\ k.cdpos = ide.cdpos /\ k.cdlen = ide.cdlen /\ k.command = ide.command /\ k.reset = ide.reset
        /\ k.packetstatus = 6
    BY <1>1, <1>7 DEF Registers
  <2>4. CdFits(ide)
    BY <1>1, <1>7 DEF DataPhase, PacketData
  <2> HIDE DEF k
  <2>5. CASE k.cdlen = 0
    <3> DEFINE j == [k EXCEPT !.packetstatus = 2]
    <3>1. j \in Registers
      BY <1>2, <2>2 DEF Registers
    <3>2. j.command = k.command /\ j.reset = k.reset /\ j.packetstatus = 2 /\ j.pos = k.pos /\ j.atastat = k.atastat
      BY <2>2 DEF Registers
    <3>3. k.atastat = "DRQ"
      BY <1>1 DEF Registers, k
    <3>4. o = Out(j, TRUE, FALSE, disc)
      BY <2>1, <2>5 DEF callreadcd
    <3> HIDE DEF j
    <3>5. Due(j) /\ Well(j, disc) /\ ~j.reset
      BY <1>1, <1>7, <2>3, <3>1, <3>2 DEF Due, PacketDue, Well
    <3>6. Awaits(Out(j, TRUE, FALSE, disc))
      BY <3>5, LaterDue
    <3> HIDE DEF o
    <3>7. o.ide = j /\ Awaits(o)
      BY <3>4, <3>6 DEF Out
    <3> QED BY <1>6, <2>3, <3>2, <3>3, <3>7, Onward
  <2>6. CASE k.cdlen # 0
    <3> DEFINE f == ReadCd(k, k.cdpos, k.cdlen)
               j == [f EXCEPT !.atastat = "BUSY"]
    <3>1. k.cdpos \in Blocks /\ k.cdlen \in 1 .. Cap - k.cdpos
      <4>1. k.cdlen \in 0 .. Cap /\ k.cdpos \in Nat /\ k.cdpos + k.cdlen <= Cap
        BY <2>2, <2>3, <2>4 DEF CdFits, Registers
      <4> QED BY <2>6, <4>1, Literals DEF Blocks
    <3>2. /\ f \in Registers /\ CdFits(f) /\ f.packetstatus = 6 /\ f.pos = 0
          /\ f.command = k.command /\ f.reset = k.reset
      BY <2>2, <3>1, ReadCdType
    <3>3. o = Out(j, TRUE, FALSE, disc)
      BY <2>1, <2>6 DEF callreadcd
    <3> HIDE DEF f
    <3>4. j \in Registers
      BY <1>2, <3>2 DEF Registers
    <3>5. /\ j.atastat = "BUSY" /\ j.packetstatus = 6 /\ j.pos = 0 /\ j.command = f.command /\ j.reset = f.reset
          /\ j.cdpos = f.cdpos /\ j.cdlen = f.cdlen /\ j.packlen = f.packlen /\ j.buffer = f.buffer
      BY <3>2 DEF Registers
    <3> HIDE DEF j
    <3>6. CdFits(j)
      BY <3>2, <3>5 DEF CdFits, BufferWords
    <3>7. Due(j) /\ Well(j, disc) /\ ~j.reset
      BY <1>1, <1>7, <2>3, <3>2, <3>4, <3>5, <3>6 DEF Due, PacketDue, Well
    <3>8. Awaits(Out(j, TRUE, FALSE, disc))
      BY <3>7, LaterDue
    <3> HIDE DEF o
    <3>9. o.ide = j /\ Awaits(o)
      BY <3>3, <3>8 DEF Out
    <3> QED BY <1>6, <3>5, <3>9, Onward
  <2> QED BY <2>5, <2>6
<1>8. CASE ~(ide.command = "PACKETCMD" /\ ide.packetstatus = 6) /\ ide.command # "READ"
  <2>1. o = Out(over, idecallback, ideirq, disc)
    BY <1>5, <1>8 DEF readidew
  <2> HIDE DEF over
  <2> QED BY <1>1, <1>3, <1>4, <1>6, <2>1, Over
<1>9. CASE ide.command = "READ" /\ ide.secount = 1
  <2> DEFINE j == [over EXCEPT !.secount = 0]
  <2>1. o = Out(j, idecallback, ideirq, disc)
    BY <1>5, <1>9 DEF readidew
  <2> HIDE DEF over
  <2>2. j \in Registers
    BY <1>2, <1>3 DEF Registers
  <2>3. j.pos = 0 /\ j.atastat = "READY" /\ j.packetstatus = 0 /\ j.reset = ide.reset
    BY <1>3, <1>4 DEF Registers
  <2> HIDE DEF j
  <2> QED BY <1>1, <1>6, <2>1, <2>2, <2>3, Over
<1>10. CASE ide.command = "READ" /\ ide.secount # 1
  <2>1. PICK f : /\ o = Out(f, FALSE, TRUE, disc) /\ Awaits(Out(f, FALSE, TRUE, disc))
                 /\ f.pos = 0 /\ f.atastat = "DRQ"
    BY <1>5, <1>10, ReadNext
  <2> HIDE DEF o
  <2>2. o.ide = f /\ o.irq = TRUE
    BY <2>1 DEF Out
  <2>3. Awaits(o)
    BY <2>1
  <2> QED BY <1>6, <2>1, <2>2, <2>3, Onward
<1> QED BY <1>7, <1>8, <1>9, <1>10

LEMMA ReadWordStep == ASSUME IdeInv, ReadWord PROVE IdeInv'
<1>1. guest = "data" /\ ~Writing /\ Take(readidew(ide)) /\ BlockEnded(readidew(ide))
  BY DEF ReadWord
<1> QED BY <1>1, ReadOn, ReadEnd

LEMMA StoredType ==
    ASSUME NEW i \in Registers, i.pos \in Nat, i.pos < BlockSize, NEW w \in Cells
    PROVE  /\ StoredWord(i, w) \in Registers /\ Rest(i, StoredWord(i, w))
           /\ StoredWord(i, w).pos = i.pos + 1 /\ StoredWord(i, w).atastat = i.atastat
           /\ StoredWord(i, w).packetstatus = i.packetstatus /\ StoredWord(i, w).packlen = i.packlen
           /\ StoredWord(i, w).buffer[i.pos] = w
           /\ \A k \in 0 .. BlockSize : k # i.pos => StoredWord(i, w).buffer[k] = i.buffer[k]
<1> DEFINE b == [i.buffer EXCEPT ![i.pos] = w]
           j == [i EXCEPT !.buffer = b, !.pos = i.pos + 1]
<1>0. i.buffer \in [0 .. BlockSize -> Cells] /\ i.pos \in 0 .. BlockSize /\ i.pos + 1 \in 0 .. BlockSize
  <2>1. i.buffer \in [0 .. BlockSize -> Cells]
    BY DEF Registers
  <2>2. i.pos \in 0 .. BlockSize /\ i.pos + 1 \in 0 .. BlockSize
    BY Literals
  <2> QED BY <2>1, <2>2
<1>1. b \in [0 .. BlockSize -> Cells] /\ b[i.pos] = w /\ \A k \in 0 .. BlockSize : k # i.pos => b[k] = i.buffer[k]
  BY <1>0
<1>2. StoredWord(i, w) = j
  BY DEF StoredWord
<1> HIDE DEF b
<1>3. j \in Registers
  BY <1>0, <1>1 DEF Registers
<1>4. /\ Rest(i, j) /\ j.pos = i.pos + 1 /\ j.atastat = i.atastat /\ j.packetstatus = i.packetstatus
      /\ j.packlen = i.packlen /\ j.buffer = b
  BY DEF Registers, Rest, Place
<1> HIDE DEF j
<1> QED BY <1>1, <1>2, <1>3, <1>4

(* The whole of a block of the disc's. *)
LEMMA BlockWritten ==
    ASSUME NEW i, Well(i, disc), ~i.reset, i.command \in {"WRITE", "FORMAT"}, i.pos = 0, OnDisc(i), ideirq = FALSE,
           \A k \in 0 .. BlockSize - 1 : i.buffer[k] \in Words,
           Take(callbackide(i, TRUE)), BlockEnded(callbackide(i, TRUE))
    PROVE  IdeInv'
<1> DEFINE o == callbackide(i, TRUE)
<1>1. i \in Registers /\ disc \in Image /\ i.drive \in {0, 1} /\ Take(o) /\ BlockEnded(o)
  BY DEF Well, Registers
<1>2. CASE i.drive = 1
  <2>1. o = Abort(i)
    <3>1. CASE i.command = "WRITE"
      BY <1>2, <3>1 DEF callbackide, IDE_DRIVE_IS_CDROM
    <3>2. CASE i.command = "FORMAT"
      BY <1>2, <3>2 DEF callbackide, IDE_DRIVE_IS_CDROM
    <3> QED BY <3>1, <3>2
  <2>2. Awaits(Abort(i))
    BY AbortEnds
  <2>3. Abort(i).ide.pos = 0 /\ Abort(i).irq = TRUE
    <3> DEFINE j == [i EXCEPT !.atastat = "ERR"]
    <3>1. j.pos = i.pos
      BY <1>1 DEF Registers
    <3> HIDE DEF j
    <3>2. Out(j, FALSE, TRUE, disc).ide = j /\ Out(j, FALSE, TRUE, disc).irq = TRUE
      BY DEF Out
    <3>3. Abort(i) = Out(j, FALSE, TRUE, disc)
      BY DEF Abort, ide_irq_raise, j
    <3> QED BY <3>1, <3>2, <3>3
  <2> HIDE DEF o
  <2> QED BY <1>1, <2>1, <2>2, <2>3, Onward
<1>3. CASE i.drive = 0 /\ i.command = "FORMAT"
  <2> DEFINE j == [i EXCEPT !.atastat = "READY"]
             f == Fill(j, Zeros)
             r == Out(f, FALSE, TRUE, Formatted(i))
  <2>1. o = r
    BY <1>3 DEF callbackide, IDE_DRIVE_IS_CDROM
  <2>2. Awaits(r)
    BY <1>3, FormatAwaits
  <2>3. r.ide = f /\ r.irq = TRUE
    BY DEF Out
  <2>4. j \in Registers /\ j.pos = i.pos
    <3>1. "READY" \in Statuses
      BY Literals
    <3>2. j \in Registers
      BY <1>1, <3>1 DEF Registers
    <3>3. j.pos = i.pos
      BY <1>1 DEF Registers
    <3> QED BY <3>2, <3>3
  <2>5. Zeros \in [1 .. BlockSize -> Cells]
    BY ZerosType
  <2> HIDE DEF j, r, o
  <2>6. f.pos = j.pos
    BY <2>4, <2>5, FillType
  <2> HIDE DEF f
  <2> QED BY <1>1, <2>1, <2>2, <2>3, <2>4, <2>6, Onward
<1>4. CASE i.drive = 0 /\ i.command = "WRITE"
  <2> DEFINE r == WriteCallback(i)
  <2>1. o = r
    BY <1>4 DEF callbackide, IDE_DRIVE_IS_CDROM
  <2>2. Fits(i)
    BY <1>4 DEF OnDisc
  <2>3. Awaits(r)
    BY <1>4, <2>2, WriteCallbackAwaits
  <2>4. r.ide.pos = 0 /\ r.irq = TRUE
    <3> DEFINE d == [disc EXCEPT ![ide_get_sector(i)] = BufferWords(i)]
    <3>1. CASE i.secount = 1
      <4> DEFINE j == [i EXCEPT !.secount = 0, !.atastat = "READY"]
      <4>1. j.pos = i.pos
        BY <1>1 DEF Registers
      <4>2. r = Out(j, FALSE, TRUE, d)
        BY <3>1 DEF WriteCallback
      <4> HIDE DEF j, d, r
      <4> QED BY <4>1, <4>2 DEF Out
    <3>2. CASE i.secount # 1
      <4> DEFINE n == ide_next_sector([i EXCEPT !.secount = @ - 1])
                 f == [n EXCEPT !.atastat = "DRQ", !.pos = 0]
      <4>1. r = Out(f, FALSE, TRUE, d)
        BY <3>2 DEF WriteCallback, Drq
      <4>2. n \in Registers
        <5> DEFINE k == [i EXCEPT !.secount = i.secount - 1]
        <5>1. i.secount - 1 \in Counts
          BY <2>2, <3>2, Literals DEF Fits, Counts
        <5>2. k \in Registers
          BY <1>1, <5>1 DEF Registers
        <5>3. Place(i, k)
          BY <1>1 DEF Registers, Place
        <5>4. n = ide_next_sector(k)
          OBVIOUS
        <5> HIDE DEF k, n
        <5>5. k.sector \in 1 .. k.spt /\ k.head < k.hpc
          BY <2>2, <5>3 DEF Place, Fits
        <5> QED BY <5>2, <5>4, <5>5, NextSectorType
      <4> HIDE DEF n, d, r
      <4>3. f.pos = 0
        BY <4>2 DEF Registers
      <4> HIDE DEF f
      <4> QED BY <4>1, <4>3 DEF Out
    <3> QED BY <3>1, <3>2
  <2> HIDE DEF o, r
  <2> QED BY <1>1, <2>1, <2>3, <2>4, Onward
<1> QED BY <1>1, <1>2, <1>3, <1>4

LEMMA DiscWord ==
    ASSUME IdeInv, guest = "data", ide.command \in {"WRITE", "FORMAT"},
           Take(writeidew(ide, One)), BlockEnded(writeidew(ide, One))
    PROVE  IdeInv'
<1> DEFINE s == StoredWord(ide, One)
           o == writeidew(ide, One)
<1>1. /\ Well(ide, disc) /\ ide \in Registers /\ disc \in Image /\ ~ide.reset /\ ide.atastat = "DRQ"
      /\ idecallback = FALSE /\ ideirq = FALSE /\ DataPhase(ide, disc)
      /\ ide.pos \in Nat /\ ide.pos < BlockSize /\ ide.pos + 1 \in 0 .. BlockSize
  BY DataFacts
<1>2. One \in Words /\ One \in Cells
  BY DEF Words, Cells
<1>3. /\ s \in Registers /\ Rest(ide, s) /\ s.pos = ide.pos + 1 /\ s.atastat = ide.atastat
      /\ s.packetstatus = ide.packetstatus /\ s.buffer[ide.pos] = One
      /\ \A k \in 0 .. BlockSize : k # ide.pos => s.buffer[k] = ide.buffer[k]
  BY <1>1, <1>2, StoredType
<1>4. Take(o) /\ BlockEnded(o)
  OBVIOUS
<1>5. ide.packetstatus \notin {4, 5} /\ ide.command # "PACKETCMD"
  BY <1>1 DEF Well, Unselected
<1>6. /\ OnDisc(ide) /\ \A k \in 0 .. ide.pos - 1 : ide.buffer[k] \in Words
  BY <1>1 DEF DataPhase
<1>7. \A k \in 0 .. s.pos - 1 : s.buffer[k] \in Words
  <2>1. ASSUME NEW k \in 0 .. s.pos - 1 PROVE s.buffer[k] \in Words
    <3>1. k \in 0 .. BlockSize /\ (k # ide.pos => k \in 0 .. ide.pos - 1)
      BY <1>1, <1>3, Literals
    <3>2. CASE k = ide.pos
      BY <1>2, <1>3, <3>2
    <3>3. CASE k # ide.pos
      BY <1>3, <1>6, <3>1, <3>3
    <3> QED BY <3>2, <3>3
  <2> QED BY <2>1
<1>8. OnDisc(s)
  BY <1>1, <1>3, <1>6, FitsSame DEF OnDisc, Rest
<1>9. CASE s.pos < BlockSize
  <2>1. ~(s.pos >= BlockSize)
    BY <1>1, <1>3, <1>9, Literals
  <2>2. o = Out(s, idecallback, ideirq, disc)
    BY <1>3, <1>5, <2>1 DEF writeidew
  <2> HIDE DEF s, o
  <2>3. DataPhase(s, disc)
    BY <1>3, <1>7, <1>8, <1>9 DEF DataPhase, Rest
  <2> QED BY <1>1, <1>3, <1>4, <1>5, <1>9, <2>2, <2>3, NextWord
<1>10. CASE ~(s.pos < BlockSize)
  <2> DEFINE j == [s EXCEPT !.pos = 0, !.atastat = "BUSY"]
  <2>1. s.pos >= BlockSize /\ s.pos = BlockSize
    BY <1>1, <1>3, <1>10, Literals
  <2>2. o = callbackide(j, TRUE)
    <3>1. s.packetstatus \notin {4, 5}
      BY <1>3, <1>5
    <3> QED BY <1>5, <2>1, <3>1 DEF writeidew
  <2> HIDE DEF s, o
  <2>3. "BUSY" \in Statuses /\ 0 \in 0 .. BlockSize
    BY Literals
  <2>4. j \in Registers
    BY <1>3, <2>3 DEF Registers
  <2>5. Rest(s, j) /\ j.pos = 0 /\ j.packetstatus = s.packetstatus /\ j.buffer = s.buffer
    BY <1>3 DEF Registers, Rest, Place
  <2> HIDE DEF j
  <2>6. OnDisc(j)
    BY <1>3, <1>8, <2>5, FitsSame DEF OnDisc, Rest
  <2>7. \A k \in 0 .. BlockSize - 1 : j.buffer[k] \in Words
    BY <1>7, <2>1, <2>5
  <2>8. Well(j, disc) /\ ~j.reset /\ j.command \in {"WRITE", "FORMAT"}
    BY <1>1, <1>3, <1>5, <2>4, <2>5 DEF Well, Unselected, Rest
  <2>9. Take(callbackide(j, TRUE)) /\ BlockEnded(callbackide(j, TRUE))
    BY <1>4, <2>2
  <2> QED BY <1>1, <2>5, <2>6, <2>7, <2>8, <2>9, BlockWritten
<1> QED BY <1>9, <1>10

LEMMA PacketWord ==
    ASSUME IdeInv, guest = "data", ide.command = "PACKETCMD", ide.packetstatus = 0, NEW w \in Packets,
           Take(writeidew(ide, w)), BlockEnded(writeidew(ide, w))
    PROVE  IdeInv'
<1> DEFINE s == StoredWord(ide, w)
           j == [s EXCEPT !.pos = 0, !.atastat = "BUSY", !.packetstatus = 1]
           o == writeidew(ide, w)
<1>1. /\ Well(ide, disc) /\ ide \in Registers /\ disc \in Image /\ ~ide.reset
      /\ idecallback = FALSE /\ ideirq = FALSE /\ DataPhase(ide, disc)
      /\ ide.pos \in Nat /\ ide.pos < BlockSize
  BY DataFacts
<1>2. w \in Cells
  BY DEF Cells
<1>3. ide.pos = 0
  BY <1>1 DEF DataPhase, PacketData
<1>4. s \in Registers /\ Rest(ide, s) /\ s.buffer[0] = w /\ s.packetstatus = 0
  BY <1>1, <1>2, <1>3, StoredType
<1>5. Take(o) /\ BlockEnded(o)
  OBVIOUS
<1>6. o = Out(j, TRUE, ideirq, disc)
  <2> HIDE DEF s
  <2>1. s = StoredWord(ide, w)
    BY DEF s
  <2> QED BY <2>1 DEF writeidew
<1> HIDE DEF s, o
<1>7. "BUSY" \in Statuses /\ 0 \in 0 .. BlockSize /\ 1 \in PacketStates
  BY Literals
<1>8. j \in Registers
  BY <1>4, <1>7 DEF Registers
<1>9. /\ j.pos = 0 /\ j.packetstatus = 1 /\ j.atastat = "BUSY" /\ j.buffer = s.buffer /\ j.command = s.command
      /\ j.reset = s.reset
  BY <1>4 DEF Registers
<1> HIDE DEF j
<1>10. Due(j) /\ Well(j, disc) /\ ~j.reset
  BY <1>1, <1>4, <1>8, <1>9 DEF Due, PacketDue, Well, Rest
<1>11. Awaits(Out(j, TRUE, FALSE, disc))
  BY <1>10, LaterDue
<1>12. o.ide = j /\ Awaits(o)
  BY <1>1, <1>6, <1>11 DEF Out
<1> QED BY <1>5, <1>9, <1>12, Onward

LEMMA ListWord ==
    ASSUME IdeInv, guest = "data", ide.command = "PACKETCMD", ide.packetstatus = 4,
           Take(writeidew(ide, One)), BlockEnded(writeidew(ide, One))
    PROVE  IdeInv'
<1> DEFINE s == StoredWord(ide, One)
           j == [s EXCEPT !.packetstatus = 5]
           o == writeidew(ide, One)
<1>1. /\ Well(ide, disc) /\ ide \in Registers /\ disc \in Image /\ ~ide.reset /\ ide.atastat = "DRQ"
      /\ idecallback = FALSE /\ ideirq = FALSE /\ DataPhase(ide, disc)
      /\ ide.pos \in Nat /\ ide.pos < BlockSize
  BY DataFacts
<1>2. One \in Cells /\ 0 \in 0 .. BlockSize
  BY Literals DEF Cells, Words
<1>3. ide.pos = 1 /\ Selecting(ide)
  BY <1>1 DEF DataPhase, PacketData
<1>4. /\ s \in Registers /\ Rest(ide, s) /\ s.buffer[0] = ide.buffer[0] /\ s.packetstatus = 4 /\ s.pos = 2
      /\ s.packlen = ide.packlen /\ s.atastat = "DRQ"
  BY <1>1, <1>2, <1>3, StoredType
<1>5. Take(o) /\ BlockEnded(o)
  OBVIOUS
<1>6. o = Out(j, TRUE, FALSE, disc)
  <2>1. s.pos >= ide.packlen + 1
    BY <1>3, <1>4 DEF Selecting
  <2> QED BY <2>1 DEF writeidew
<1> HIDE DEF s, o
<1>7. 5 \in PacketStates
  BY Literals
<1>8. j \in Registers
  BY <1>4, <1>7 DEF Registers
<1>9. /\ j.packetstatus = 5 /\ j.atastat = s.atastat /\ j.buffer = s.buffer /\ j.command = s.command
      /\ j.reset = s.reset /\ j.packlen = s.packlen
  BY <1>4 DEF Registers
<1> HIDE DEF j
<1>10. Due(j) /\ Well(j, disc) /\ ~j.reset
  BY <1>1, <1>3, <1>4, <1>8, <1>9 DEF Due, PacketDue, Well, Rest, Selecting
<1>11. Awaits(Out(j, TRUE, FALSE, disc))
  BY <1>10, LaterDue
<1>12. o.ide = j /\ Awaits(o)
  BY <1>6, <1>11 DEF Out
<1> QED BY <1>4, <1>5, <1>9, <1>12, Onward

LEMMA WriteWordStep == ASSUME IdeInv, WriteWord PROVE IdeInv'
<1>1. guest = "data" /\ Writing
  BY DEF WriteWord
<1>2. CASE ide.command \in {"WRITE", "FORMAT"}
  <2>1. Take(writeidew(ide, One)) /\ BlockEnded(writeidew(ide, One))
    BY <1>2 DEF WriteWord
  <2> QED BY <1>1, <1>2, <2>1, DiscWord
<1>3. CASE ide.command = "PACKETCMD" /\ ide.packetstatus = 0
  <2>1. PICK w \in Packets : Take(writeidew(ide, w)) /\ BlockEnded(writeidew(ide, w))
    BY <1>3 DEF WriteWord
  <2> QED BY <1>1, <1>3, <2>1, PacketWord
<1>4. CASE ide.command = "PACKETCMD" /\ ide.packetstatus = 4
  <2>1. Take(writeidew(ide, One)) /\ BlockEnded(writeidew(ide, One))
    BY <1>4 DEF WriteWord
  <2> QED BY <1>1, <1>4, <2>1, ListWord
<1> QED BY <1>1, <1>2, <1>3, <1>4 DEF Writing

-----------------------------------------------------------------------------
(* The invariant. *)

LEMMA IdeStart == ASSUME IdeInit PROVE IdeInv
<1>1. PICK spt \in Spts, hpc \in Hpcs :
        ide = [atastat |-> "READY", command |-> "NONE", secount |-> 0, sector |-> 0, cylinder |-> 0,
               head |-> 0, drive |-> 0, reset |-> FALSE, pos |-> 0,
               buffer |-> [k \in 0 .. BlockSize |-> Zero], packetstatus |-> 0, packlen |-> 0,
               cdpos |-> 0, cdlen |-> 0, spt |-> spt, hpc |-> hpc]
  BY DEF IdeInit
<1>2. spt \in Nat \ {0} /\ hpc \in Nat \ {0}
  BY IdeAssumption
<1>3. /\ "READY" \in Statuses /\ "NONE" \in Commands /\ 0 \in Counts /\ 0 \in Nat /\ 0 \in {0, 1} /\ FALSE \in BOOLEAN
      /\ 0 \in 0 .. BlockSize /\ 0 \in PacketStates /\ 0 \in 0 .. Cap
  BY Literals DEF Commands
<1>4. [k \in 0 .. BlockSize |-> Zero] \in [0 .. BlockSize -> Cells]
  BY DEF Cells, Words
<1>5. ide \in Registers
  BY <1>1, <1>2, <1>3, <1>4 DEF Registers
<1>6. ide.reset = FALSE /\ ide.packetstatus = 0
  BY <1>1
<1>7. disc \in Image
  BY ZerosType DEF IdeInit, Image
<1>8. Well(ide, disc) /\ ~ide.reset /\ Unselected(ide)
  BY <1>5, <1>6, <1>7 DEF Well, Unselected
<1>9. idecallback = FALSE /\ ideirq = FALSE /\ guest = "idle"
  BY DEF IdeInit
<1> QED BY <1>8, <1>9 DEF IdeInv

LEMMA IdeStep == ASSUME IdeInv, ~Abandons, [IdeNext]_idevars PROVE IdeInv'
<1>1. CASE IdeNext
  <2>1. \/ StartTransfer \/ StartOther \/ Specify \/ Interrupt \/ ReadWord \/ WriteWord
        \/ SoftReset \/ Polled \/ Callback \/ resetide
    BY <1>1 DEF IdeNext
  <2> QED BY <2>1, StartStep, InterruptStep, ReadWordStep, WriteWordStep, SoftResetStep, PolledStep, CallbackStep,
             MachineResetStep
<1>2. CASE UNCHANGED idevars
  BY <1>2 DEF idevars, IdeInv
<1> QED BY <1>1, <1>2

(* Registers, buffer and countdown agree with what the driver waits for, in  *)
(* every state: as long as no reset comes while a device waits for the list *)
(* of MODE SELECT, since packetstatus would divert the words of the next    *)
(* WRITE into that list.                                                    *)
THEOREM ChannelKept == ASSUME ~Abandons PROVE IdeSpec => []IdeInv
<1>1. IdeInit => IdeInv
  BY IdeStart
<1>2. IdeInv /\ [IdeNext]_idevars => IdeInv'
  BY IdeStep
<1> QED BY <1>1, <1>2, PTL DEF IdeSpec

(* pos stays inside the buffer, and a driver that waits for an interrupt has *)
(* it or has a callback to come that raises it, for every size of the disc,  *)
(* the blocks and the geometry and all packets.                              *)
THEOREM ChannelAnswers == ASSUME ~Abandons PROVE IdeSpec => []ChannelInv
<1>1. IdeInv => ChannelInv
  <2> SUFFICES ASSUME IdeInv PROVE ChannelInv
    OBVIOUS
  <2>1. ide \in Registers /\ disc \in Image /\ idecallback \in BOOLEAN /\ ideirq \in BOOLEAN
    BY DEF IdeInv, Well
  <2>2. /\ ide.atastat \in Statuses /\ ide.pos \in 0 .. BlockSize /\ ide.drive \in {0, 1} /\ ide.secount \in Counts
        /\ ide.packetstatus \in PacketStates /\ ide.cdlen \in 0 .. Cap /\ DOMAIN ide.buffer = 0 .. BlockSize
    BY <2>1 DEF Registers
  <2>3. \A b \in Blocks : disc[b] \in [1 .. BlockSize -> Words]
    BY <2>1 DEF Image
  <2>4. IdeTypeOK
    BY <2>1, <2>2, <2>3 DEF IdeTypeOK, Statuses, Counts, PacketStates, IdeInv
  <2>5. InterruptComes
    BY <2>1 DEF InterruptComes, IdeInv, Waiting
  <2> QED BY <2>4, <2>5 DEF ChannelInv
<1> QED BY <1>1, ChannelKept, PTL

-----------------------------------------------------------------------------
(* The channel as a block device. *)

Progress(dir, at, left, words) == [dir |-> dir, at |-> at, left |-> left, words |-> words]
Sofar(i) == [k \in 1 .. i.pos |-> i.buffer[k - 1]]

(* What XferOf says of the registers, command by command.                   *)
LEMMA ProgressWord ==
    ASSUME NEW x, NEW dir, NEW at, NEW left, NEW words, NEW w, x = Progress(dir, at, left, words)
    PROVE  [x EXCEPT !.words = w] = Progress(dir, at, left, w)
BY DEF Progress

LEMMA SeqMore ==
    ASSUME NEW S, NEW n \in Nat, NEW b \in [1 .. n + 1 -> S], NEW a \in Seq(S), Len(a) = n, NEW c \in S,
           \A k \in 1 .. n : a[k] = b[k], b[n + 1] = c
    PROVE  b = Append(a, c)
OBVIOUS

LEMMA XferNow == Xfer = XferOf(ide) /\ Xfer' = XferOf(ide')
BY DEF Xfer

LEMMA NoXferValue == BD!NoXfer = Progress("none", 0, 0, <<>>)
BY DEF BD!NoXfer, Progress

LEMMA StillNone ==
    ASSUME NEW i, i.reset \/ i.atastat \notin {"BUSY", "DRQ"}
    PROVE  XferOf(i) = BD!NoXfer
BY NoXferValue DEF XferOf, Progress

LEMMA OtherNone ==
    ASSUME NEW i, i.command \in {"READ", "WRITE", "FORMAT"} => i.drive # 0,
           i.command = "PACKETCMD" => i.packetstatus # 6
    PROVE  XferOf(i) = BD!NoXfer
<1>1. CASE i.reset \/ i.atastat \notin {"BUSY", "DRQ"}
  BY <1>1, StillNone
<1>2. CASE ~(i.reset \/ i.atastat \notin {"BUSY", "DRQ"})
  BY <1>2, NoXferValue DEF XferOf, Progress
<1> QED BY <1>1, <1>2

LEMMA ReadView ==
    ASSUME NEW i, ~i.reset, i.command = "READ", i.drive = 0
    PROVE  /\ i.atastat = "DRQ" => XferOf(i) = Progress("read", ide_get_sector(i), i.secount, Sofar(i))
           /\ i.atastat = "BUSY" => XferOf(i) = Progress("read", ide_get_sector(i), i.secount, <<>>)
BY DEF XferOf, Progress, Sofar

LEMMA WriteView ==
    ASSUME NEW i, ~i.reset, i.command = "WRITE", i.drive = 0, i.atastat \in {"BUSY", "DRQ"}
    PROVE  XferOf(i) = Progress("write", ide_get_sector(i), i.secount, Sofar(i))
BY DEF XferOf, Progress, Sofar

LEMMA FormatView ==
    ASSUME NEW i, ~i.reset, i.command = "FORMAT", i.drive = 0, i.atastat \in {"BUSY", "DRQ"}
    PROVE  XferOf(i) = Progress("format", ide_get_sector(i), i.secount, Sofar(i))
BY DEF XferOf, Progress, Sofar

LEMMA CdView ==
    ASSUME NEW i, ~i.reset, i.command = "PACKETCMD", i.packetstatus = 6
    PROVE  /\ i.atastat = "DRQ" => XferOf(i) = Progress("read_cd", i.cdpos - 1, i.cdlen + 1, Sofar(i))
           /\ i.atastat = "BUSY" => XferOf(i) = Progress("read_cd", i.cdpos - 1, i.cdlen + 1, <<>>)
BY DEF XferOf, Progress, Sofar

LEMMA SofarNone == ASSUME NEW i, i.pos = 0 PROVE Sofar(i) = <<>>
BY DEF Sofar

LEMMA SofarMore ==
    ASSUME NEW i \in Registers, NEW j \in Registers, i.pos \in Nat, j.pos = i.pos + 1, j.pos <= BlockSize,
           \A k \in 0 .. i.pos - 1 : j.buffer[k] = i.buffer[k]
    PROVE  /\ Sofar(i) \in Seq(Cells) /\ Len(Sofar(i)) = i.pos
           /\ Sofar(j) = Append(Sofar(i), j.buffer[i.pos])
<1>1. /\ \A k \in 0 .. BlockSize : i.buffer[k] \in Cells /\ j.buffer[k] \in Cells
      /\ BlockSize \in Nat
  BY Literals DEF Registers
<1>2. Sofar(i) \in [1 .. i.pos -> Cells]
  <2>1. ASSUME NEW k \in 1 .. i.pos PROVE i.buffer[k - 1] \in Cells
    <3>1. k - 1 \in 0 .. BlockSize
      BY <1>1
    <3> QED BY <1>1, <3>1
  <2> QED BY <2>1 DEF Sofar
<1>3. Sofar(i) \in Seq(Cells) /\ Len(Sofar(i)) = i.pos
  BY <1>2
<1>4. Sofar(j) \in [1 .. i.pos + 1 -> Cells]
  <2>1. ASSUME NEW k \in 1 .. j.pos PROVE j.buffer[k - 1] \in Cells
    <3>1. k - 1 \in 0 .. BlockSize
      BY <1>1
    <3> QED BY <1>1, <3>1
  <2> QED BY <2>1 DEF Sofar
<1>5. \A k \in 1 .. i.pos : Sofar(j)[k] = Sofar(i)[k]
  <2>1. ASSUME NEW k \in 1 .. i.pos PROVE j.buffer[k - 1] = i.buffer[k - 1]
    <3>1. k - 1 \in 0 .. i.pos - 1
      OBVIOUS
    <3> QED BY <3>1
  <2> QED BY <2>1 DEF Sofar
<1>6. Sofar(j)[i.pos + 1] = j.buffer[i.pos]
  BY DEF Sofar
<1>7. j.buffer[i.pos] \in Cells
  BY <1>1
<1> DEFINE a == Sofar(i)
           c == j.buffer[i.pos]
           b == Sofar(j)
<1> HIDE DEF a, b, c
<1>8. /\ a \in Seq(Cells) /\ Len(a) = i.pos /\ b \in [1 .. i.pos + 1 -> Cells] /\ c \in Cells
      /\ b[i.pos + 1] = c /\ \A k \in 1 .. i.pos : a[k] = b[k]
  BY <1>3, <1>4, <1>5, <1>6, <1>7 DEF a, b, c
<1>11. b = Append(a, c)
  BY <1>8, SeqMore
<1> QED BY <1>3, <1>11 DEF a, b, c

(* Steps of the block device. *)
LEMMA Abandoned == ASSUME disc' = disc, XferOf(ide') = BD!NoXfer PROVE BD!Next
BY XferNow DEF BD!Next, BD!Abandon

LEMMA Begins ==
    ASSUME disc' = disc, NEW dir \in {"read", "read_cd", "write", "format"}, NEW at \in Blocks, NEW n \in Nat, n >= 1,
           at + n <= Cap, XferOf(ide') = Progress(dir, at, n, <<>>)
    PROVE  BD!Next
<1>1. at + n - 1 \in Blocks /\ at <= at + n - 1 /\ (at + n - 1) - at + 1 = n
  BY Literals DEF Blocks
<1>2. BD!Begin(dir, at, n)
  BY XferNow DEF BD!Begin, Progress
<1>3. BD!Begin(dir, at, (at + n - 1) - at + 1)
  BY <1>1, <1>2
<1>4. \E first, last \in Blocks : first <= last /\ BD!Begin(dir, first, last - first + 1)
  BY <1>1, <1>3
<1> QED BY <1>4 DEF BD!Next

(* A word taken from block b, and the end of the block. *)
LEMMA Takes ==
    ASSUME disc' = disc, NEW dir \in {"read", "read_cd"}, NEW at, NEW left, NEW words \in Seq(Cells), NEW b,
           b = (IF dir = "read" THEN disc[at] ELSE Cd(at)), Len(words) + 1 < BlockSize,
           XferOf(ide) = Progress(dir, at, left, words),
           XferOf(ide') = Progress(dir, at, left, Append(words, b[Len(words) + 1]))
    PROVE  BD!Next
<1> DEFINE w == b[Len(words) + 1]
<1>1. Len(Append(words, w)) = Len(words) + 1 /\ Len(words) \in Nat
  OBVIOUS
<1>2. Xfer = Progress(dir, at, left, words) /\ Xfer' = Progress(dir, at, left, Append(words, w))
  BY XferNow
<1>3. /\ Xfer.dir = dir /\ Xfer.at = at /\ Xfer.left = left /\ Xfer.words = words
      /\ [Xfer EXCEPT !.words = Append(words, w)] = Progress(dir, at, left, Append(words, w))
  <2>1. Xfer.dir = dir /\ Xfer.at = at /\ Xfer.left = left /\ Xfer.words = words
    BY <1>2 DEF Progress
  <2> DEFINE more == Append(words, w)
  <2> HIDE DEF more
  <2>2. [Xfer EXCEPT !.words = more] = Progress(dir, at, left, more)
    BY <1>2, ProgressWord
  <2> QED BY <2>1, <2>2 DEF more
<1>4. BD!After(Append(words, w)) = Xfer'
  <2> HIDE DEF w
  <2> QED BY <1>1, <1>2, <1>3 DEF BD!After
<1>5. BD!Take
  BY <1>3, <1>4 DEF BD!Take
<1> QED BY <1>5 DEF BD!Next

LEMMA TakesLast ==
    ASSUME disc' = disc, NEW dir \in {"read", "read_cd"}, NEW at \in Nat, NEW left \in Nat, NEW words \in Seq(Cells),
           Len(words) + 1 = BlockSize, XferOf(ide) = Progress(dir, at, left, words),
           XferOf(ide') = IF left = 1 THEN BD!NoXfer ELSE Progress(dir, at + 1, left - 1, <<>>)
    PROVE  BD!Next
<1> DEFINE b == IF dir = "read" THEN disc[at] ELSE Cd(at)
           w == b[Len(words) + 1]
<1>1. Len(Append(words, w)) = Len(words) + 1 /\ Len(words) \in Nat
  OBVIOUS
<1>2. /\ Xfer = Progress(dir, at, left, words)
      /\ Xfer' = IF left = 1 THEN BD!NoXfer ELSE Progress(dir, at + 1, left - 1, <<>>)
  BY XferNow
<1>3. /\ Xfer.dir = dir /\ Xfer.at = at /\ Xfer.left = left /\ Xfer.words = words
      /\ [Xfer EXCEPT !.at = Xfer.at + 1, !.left = Xfer.left - 1, !.words = <<>>]
           = Progress(dir, at + 1, left - 1, <<>>)
  <2>1. Xfer.dir = dir /\ Xfer.at = at /\ Xfer.left = left /\ Xfer.words = words
    BY <1>2 DEF Progress
  <2> DEFINE a == at + 1
             l == left - 1
             none == <<>>
  <2> HIDE DEF a, l, none
  <2>2. [Xfer EXCEPT !.at = a, !.left = l, !.words = none] = Progress(dir, a, l, none)
    <3>1. [Xfer EXCEPT !.at = a] = Progress(dir, a, left, words)
      BY <1>2 DEF Progress
    <3>2. [Progress(dir, a, left, words) EXCEPT !.left = l] = Progress(dir, a, l, words)
      BY DEF Progress
    <3>3. [Progress(dir, a, l, words) EXCEPT !.words = none] = Progress(dir, a, l, none)
      BY DEF Progress
    <3> QED BY <3>1, <3>2, <3>3
  <2> QED BY <2>1, <2>2 DEF a, l, none
<1>4. BD!After(Append(words, w)) = Xfer'
  <2> HIDE DEF w
  <2> QED BY <1>1, <1>2, <1>3 DEF BD!After
<1>5. BD!Take
  BY <1>3, <1>4 DEF BD!Take
<1> QED BY <1>5 DEF BD!Next

LEMMA Gives ==
    ASSUME disc' = disc, NEW dir \in {"write", "format"}, NEW at, NEW left, NEW words \in Seq(Cells), NEW w \in Words,
           Len(words) + 1 < BlockSize, XferOf(ide) = Progress(dir, at, left, words),
           XferOf(ide') = Progress(dir, at, left, Append(words, w))
    PROVE  BD!Next
<1>1. Len(Append(words, w)) = Len(words) + 1 /\ Len(words) \in Nat
  OBVIOUS
<1>2. Xfer = Progress(dir, at, left, words) /\ Xfer' = Progress(dir, at, left, Append(words, w))
  BY XferNow
<1>3. /\ Xfer.dir = dir /\ Xfer.words = words
      /\ [Xfer EXCEPT !.words = Append(words, w)] = Progress(dir, at, left, Append(words, w))
  <2>1. Xfer.dir = dir /\ Xfer.at = at /\ Xfer.left = left /\ Xfer.words = words
    BY <1>2 DEF Progress
  <2> DEFINE more == Append(words, w)
  <2> HIDE DEF more
  <2>2. [Xfer EXCEPT !.words = more] = Progress(dir, at, left, more)
    BY <1>2, ProgressWord
  <2> QED BY <2>1, <2>2 DEF more
<1>4. CASE dir = "write"
  <2>1. BD!After(Append(words, w)) = Xfer'
    BY <1>1, <1>2, <1>3 DEF BD!After
  <2>2. BD!Give(w)
    BY <1>1, <1>3, <1>4, <2>1 DEF BD!Give
  <2> QED BY <2>2 DEF BD!Next
<1>5. CASE dir = "format"
  <2>1. BD!Format(w)
    BY <1>1, <1>2, <1>3, <1>5 DEF BD!Format
  <2> QED BY <2>1 DEF BD!Next
<1> QED BY <1>4, <1>5

LEMMA GivesLast ==
    ASSUME NEW at \in Nat, NEW left \in Nat, NEW words \in Seq(Cells), NEW w \in Words,
           Len(words) + 1 = BlockSize, XferOf(ide) = Progress("write", at, left, words),
           disc' = [disc EXCEPT ![at] = Append(words, w)],
           XferOf(ide') = IF left = 1 THEN BD!NoXfer ELSE Progress("write", at + 1, left - 1, <<>>)
    PROVE  BD!Next
<1>1. Len(Append(words, w)) = Len(words) + 1 /\ Len(words) \in Nat
  OBVIOUS
<1>2. /\ Xfer = Progress("write", at, left, words)
      /\ Xfer' = IF left = 1 THEN BD!NoXfer ELSE Progress("write", at + 1, left - 1, <<>>)
  BY XferNow
<1>3. /\ Xfer.dir = "write" /\ Xfer.at = at /\ Xfer.left = left /\ Xfer.words = words
      /\ [Xfer EXCEPT !.at = Xfer.at + 1, !.left = Xfer.left - 1, !.words = <<>>]
           = Progress("write", at + 1, left - 1, <<>>)
  <2>1. Xfer.dir = "write" /\ Xfer.at = at /\ Xfer.left = left /\ Xfer.words = words
    BY <1>2 DEF Progress
  <2> DEFINE a == at + 1
             l == left - 1
             none == <<>>
  <2> HIDE DEF a, l, none
  <2>2. [Xfer EXCEPT !.at = a, !.left = l, !.words = none] = Progress("write", a, l, none)
    <3>1. [Xfer EXCEPT !.at = a] = Progress("write", a, left, words)
      BY <1>2 DEF Progress
    <3>2. [Progress("write", a, left, words) EXCEPT !.left = l] = Progress("write", a, l, words)
      BY DEF Progress
    <3>3. [Progress("write", a, l, words) EXCEPT !.words = none] = Progress("write", a, l, none)
      BY DEF Progress
    <3> QED BY <3>1, <3>2, <3>3
  <2> QED BY <2>1, <2>2 DEF a, l, none
<1>4. BD!After(Append(words, w)) = Xfer'
  BY <1>1, <1>2, <1>3 DEF BD!After
<1>5. BD!Give(w)
  BY <1>1, <1>3, <1>4 DEF BD!Give
<1> QED BY <1>5 DEF BD!Next

LEMMA Formats ==
    ASSUME NEW at \in Nat, NEW left \in Nat, NEW words \in Seq(Cells), NEW w \in Words,
           Len(words) + 1 = BlockSize, XferOf(ide) = Progress("format", at, left, words),
           disc' = [b \in Blocks |-> IF b \in at .. at + left - 1 THEN Zeros ELSE disc[b]],
           XferOf(ide') = BD!NoXfer
    PROVE  BD!Next
<1>1. Len(Append(words, w)) = Len(words) + 1 /\ Len(words) \in Nat
  OBVIOUS
<1>2. Xfer = Progress("format", at, left, words) /\ Xfer' = BD!NoXfer
  BY XferNow
<1>3. Xfer.dir = "format" /\ Xfer.at = at /\ Xfer.left = left /\ Xfer.words = words
  BY <1>2 DEF Progress
<1>4. BD!Zeros = Zeros
  BY DEF BD!Zeros, Zeros
<1>5. BD!Format(w)
  BY <1>1, <1>2, <1>3, <1>4 DEF BD!Format
<1> QED BY <1>5 DEF BD!Next

(* A command begins a transfer or abandons the one in progress.             *)
LEMMA IssueXfer ==
    ASSUME IdeInv, NEW d \in {0, 1}, NEW i, NEW n \in Counts, NEW s \in Nat, NEW cyl \in Nat,
           NEW c \in Commands \ {"NONE"}, Given(i, d, n, s, cyl, c)
    PROVE  BD!Next
<1> DEFINE j == ide'
<1>0. /\ Addressed(i, d) /\ Issue(i, n, s, cyl, c) /\ i.head \in Nat
      /\ c \in {"READ", "WRITE", "FORMAT"} =>
           /\ n \in 1 .. MaxCount /\ s \in 1 .. ide.spt /\ i.head < ide.hpc
           /\ (cyl * ide.hpc + i.head) * ide.spt + s - 1 + n <= Cap
  BY DEF Given, Addressed
<1>1. /\ guest = "idle" /\ disc \in Image /\ disc' = disc /\ j \in Registers
      /\ j.command = c /\ j.secount = n /\ j.sector = s /\ j.cylinder = cyl /\ j.head = i.head
      /\ j.spt = ide.spt /\ j.hpc = ide.hpc /\ j.drive = d /\ ~j.reset /\ j.pos = 0
      /\ Unselected(j) /\ (c = "PACKETCMD" => j.packetstatus = 0)
      /\ c \in {"WRITE", "FORMAT"} => j.atastat = "DRQ"
      /\ c = "READ" => j.atastat = "BUSY"
      /\ ideirq' = FALSE /\ idecallback' = IF c \in {"WRITE", "FORMAT"} THEN FALSE ELSE TRUE
      /\ guest' = IF c \in {"WRITE", "FORMAT"} THEN "data" ELSE "irq"
  BY <1>0, IssueFacts
<1> DEFINE at == ide_get_sector(j)
<1>2. c \in {"READ", "WRITE", "FORMAT"} => Fits(j)
  BY <1>0, <1>1 DEF Fits, ide_get_sector
<1>3. Sofar(j) = <<>>
  BY <1>1, SofarNone
<1> HIDE DEF j
<1>4. CASE c \in {"READ", "WRITE", "FORMAT"} /\ d = 0
  <2>1. at \in Blocks /\ at + n <= Cap /\ n \in Nat /\ n >= 1
    <3>1. Fits(j)
      BY <1>2, <1>4
    <3>2. at \in Blocks
      BY <1>1, <3>1, FitsBlocks
    <3> QED BY <1>0, <1>1, <3>1, <3>2 DEF Fits
  <2>2. c = "READ" => XferOf(j) = Progress("read", at, n, <<>>)
    BY <1>1, <1>4, ReadView
  <2>3. c = "WRITE" => XferOf(j) = Progress("write", at, n, <<>>)
    BY <1>1, <1>3, <1>4, WriteView
  <2>4. c = "FORMAT" => XferOf(j) = Progress("format", at, n, <<>>)
    BY <1>1, <1>3, <1>4, FormatView
  <2> HIDE DEF at
  <2>5. CASE c = "READ"
    BY <1>1, <2>1, <2>2, <2>5, Begins DEF j
  <2>6. CASE c = "WRITE"
    BY <1>1, <2>1, <2>3, <2>6, Begins DEF j
  <2>7. CASE c = "FORMAT"
    BY <1>1, <2>1, <2>4, <2>7, Begins DEF j
  <2> QED BY <1>4, <2>5, <2>6, <2>7
<1>5. CASE ~(c \in {"READ", "WRITE", "FORMAT"} /\ d = 0)
  <2>1. XferOf(j) = BD!NoXfer
    BY <1>1, <1>5, OtherNone
  <2> QED BY <1>1, <2>1, Abandoned DEF j
<1> QED BY <1>4, <1>5

LEMMA StartXfer == ASSUME IdeInv, StartTransfer \/ StartOther \/ Specify PROVE BD!Next
<1>1. PICK i : \E d \in {0, 1}, n \in Counts, s \in Nat, cyl \in Nat, c \in Commands \ {"NONE"} :
        Given(i, d, n, s, cyl, c)
  BY StartGives
<1> QED BY <1>1, IssueXfer

LEMMA ResetXfer == ASSUME IdeInv, SoftReset \/ resetide PROVE BD!Next
<1>1. ide \in Registers /\ disc' = disc
  BY DEF IdeInv, Well, SoftReset, resetide
<1>2. ide'.reset \/ ide'.atastat \notin {"BUSY", "DRQ"}
  <2>1. CASE SoftReset
    <3> DEFINE j == [ide EXCEPT !.reset = TRUE, !.atastat = "BUSY"]
    <3>1. j.reset = TRUE
      BY <1>1 DEF Registers
    <3>2. ide' = j
      BY <2>1 DEF SoftReset
    <3> HIDE DEF j
    <3> QED BY <3>1, <3>2
  <2>2. CASE resetide
    <3> DEFINE j == [ide EXCEPT !.atastat = "READY"]
    <3>1. j.atastat = "READY"
      BY <1>1 DEF Registers
    <3>2. ide' = j
      BY <2>2 DEF resetide
    <3> HIDE DEF j
    <3> QED BY <3>1, <3>2
  <2> QED BY <2>1, <2>2
<1>3. XferOf(ide') = BD!NoXfer
  BY <1>2, StillNone
<1> QED BY <1>1, <1>3, Abandoned

(* A callback ends the transfer, or goes on where the registers say. *)
LEMMA PacketKept ==
    ASSUME NEW i \in Registers, i.command = "PACKETCMD", NEW ready \in BOOLEAN,
           i.buffer[0] \in Packets, ~(i.buffer[0][1] = "READ_CD" /\ ready)
    PROVE  /\ atapicommand(i, ready).disc = disc /\ atapicommand(i, ready).ide.command = "PACKETCMD"
           /\ atapicommand(i, ready).ide.packetstatus # 6
<1> DEFINE p == i.buffer[0]
           o == atapicommand(i, ready)
<1>1. ASSUME NEW x, x = atapi_notready(i) PROVE x.disc = disc /\ x.ide.command = "PACKETCMD" /\ x.ide.packetstatus # 6
  <2> DEFINE j == [i EXCEPT !.atastat = "ERR", !.packetstatus = 128]
  <2>1. j.command = "PACKETCMD" /\ j.packetstatus = 128
    BY DEF Registers
  <2>2. x = Out(j, TRUE, ideirq, disc)
    BY <1>1 DEF atapi_notready
  <2> HIDE DEF j
  <2> QED BY <2>1, <2>2 DEF Out
<1>2. ASSUME NEW x, x = CommandDone(i) PROVE x.disc = disc /\ x.ide.command = "PACKETCMD" /\ x.ide.packetstatus # 6
  <2> DEFINE j == [i EXCEPT !.packetstatus = 2]
  <2>1. j.command = "PACKETCMD" /\ j.packetstatus = 2
    BY DEF Registers
  <2>2. x = Out(j, TRUE, ideirq, disc)
    BY <1>2 DEF CommandDone
  <2> HIDE DEF j
  <2> QED BY <2>1, <2>2 DEF Out
<1>3. ASSUME NEW x, x = Answer(i) PROVE x.disc = disc /\ x.ide.command = "PACKETCMD" /\ x.ide.packetstatus # 6
  <2> DEFINE k == DataIn(i, 3, 1)
             j == Fill(k, Zeros)
  <2>0. 3 \in PacketStates /\ 1 \in Nat /\ Zeros \in [1 .. BlockSize -> Cells]
    BY Literals, ZerosType
  <2>1. k \in Registers /\ k.command = i.command /\ k.packetstatus = 3
    BY <2>0, DataInType
  <2> HIDE DEF k
  <2>2. Rest(k, j) /\ j.packetstatus = k.packetstatus
    BY <2>0, <2>1, FillType
  <2> HIDE DEF j
  <2>3. j.command = "PACKETCMD" /\ j.packetstatus = 3
    BY <2>1, <2>2 DEF Rest
  <2>4. x = Out(j, TRUE, ideirq, disc)
    BY <1>3 DEF Answer, j, k
  <2> QED BY <2>3, <2>4 DEF Out
<1>4. ASSUME NEW x, x = ModeSelect(i) PROVE x.disc = disc /\ x.ide.command = "PACKETCMD" /\ x.ide.packetstatus # 6
  <2>1. CASE i.packetstatus = 5
    <3> DEFINE j == [i EXCEPT !.atastat = "NONE", !.packetstatus = 255, !.pos = 0]
    <3>1. j.command = "PACKETCMD" /\ j.packetstatus = 255
      BY DEF Registers
    <3>2. x = Out(j, FALSE, TRUE, disc)
      BY <1>4, <2>1 DEF ModeSelect, ide_irq_raise
    <3> HIDE DEF j
    <3> QED BY <3>1, <3>2 DEF Out
  <2>2. CASE i.packetstatus # 5
    <3> DEFINE j == DataIn(i, 4, 1)
    <3>1. j.command = "PACKETCMD" /\ j.packetstatus = 4
      BY ListWanted
    <3>2. x = Out(j, TRUE, ideirq, disc)
      BY <1>4, <2>2 DEF ModeSelect
    <3> HIDE DEF j
    <3> QED BY <3>1, <3>2 DEF Out
  <2> QED BY <2>1, <2>2
<1>5. o = atapi_notready(i) \/ o = CommandDone(i) \/ o = Answer(i) \/ o = ModeSelect(i)
  <2>1. CASE p[1] \notin Always /\ ~ready
    BY <2>1 DEF atapicommand
  <2>2. CASE ~(p[1] \notin Always /\ ~ready)
    <3>1. p[1] # "READ_CD"
      BY <2>2 DEF Always
    <3> HIDE DEF p
    <3>2. o \in {atapi_notready(i), CommandDone(i), Answer(i), ModeSelect(i)}
      BY <2>2, <3>1 DEF atapicommand, UnknownOpcode, Silent, Answers, p
    <3> QED BY <3>2
  <2> QED BY <2>1, <2>2
<1> HIDE DEF o
<1> QED BY <1>1, <1>2, <1>3, <1>4, <1>5 DEF o

LEMMA DiscCallbackXfer ==
    ASSUME ide \in Registers, Well(ide, disc), ~ide.reset, Due(ide), ide.command # "PACKETCMD",
           ~(ide.command = "READ" /\ ide.drive = 0), NEW ready \in BOOLEAN, Take(callbackide(ide, ready))
    PROVE  BD!Next
<1> DEFINE o == callbackide(ide, ready)
           i == ide
<1>0. i.command \in Commands /\ i.drive \in {0, 1}
  BY DEF Registers
<1>1. \E j : o = Out(j, FALSE, TRUE, disc) /\ j.command = i.command /\ (i.command = "READ" => j.drive = i.drive)
  <2>1. CASE i.command = "SRST"
    <3> DEFINE j == [i EXCEPT !.atastat = "READY", !.secount = 1, !.sector = 1, !.cylinder = 0]
    <3>1. j.command = i.command
      BY DEF Registers
    <3>2. o = Out(j, FALSE, TRUE, disc)
      BY <2>1 DEF callbackide, ide_irq_raise
    <3> HIDE DEF j, o
    <3> QED BY <2>1, <3>1, <3>2
  <2>2. CASE i.command \in {"RESTORE", "VERIFY"} /\ i.drive = 0
    <3> DEFINE j == [i EXCEPT !.atastat = "READY"]
    <3>1. j.command = i.command
      BY DEF Registers
    <3>2. o = ide_irq_raise(j)
      <4>1. CASE i.command = "RESTORE"
        BY <2>2, <4>1 DEF callbackide, IDE_DRIVE_IS_CDROM
      <4>2. CASE i.command = "VERIFY"
        BY <2>2, <4>2 DEF callbackide, IDE_DRIVE_IS_CDROM
      <4> QED BY <2>2, <4>1, <4>2
    <3>3. o = Out(j, FALSE, TRUE, disc)
      BY <3>2 DEF ide_irq_raise
    <3> HIDE DEF j, o
    <3> QED BY <2>2, <3>1, <3>3
  <2>3. CASE i.command = "SPECIFY" /\ i.drive = 0
    <3> DEFINE j == [i EXCEPT !.spt = i.secount, !.hpc = i.head + 1, !.atastat = "READY"]
    <3>1. j.command = i.command
      BY DEF Registers
    <3>2. o = Out(j, FALSE, TRUE, disc)
      BY <2>3 DEF callbackide, IDE_DRIVE_IS_CDROM, ide_irq_raise
    <3> HIDE DEF j, o
    <3> QED BY <2>3, <3>1, <3>2
  <2>4. CASE (i.command = "PIDENTIFY" /\ i.drive = 1) \/ (i.command = "IDENTIFY" /\ i.drive = 0)
    <3> DEFINE k == Drq(i)
               j == Fill(k, Zeros)
    <3>1. o = ide_irq_raise(j)
      <4>1. CASE i.command = "PIDENTIFY" /\ i.drive = 1
        BY <4>1 DEF callbackide, IDE_DRIVE_IS_CDROM
      <4>2. CASE i.command = "IDENTIFY" /\ i.drive = 0
        BY <4>2 DEF callbackide, IDE_DRIVE_IS_CDROM
      <4> QED BY <2>4, <4>1, <4>2
    <3>2. k \in Registers /\ Rest(i, k)
      BY DrqType
    <3>3. Zeros \in [1 .. BlockSize -> Cells]
      BY ZerosType
    <3> HIDE DEF k
    <3>4. Rest(k, j)
      BY <3>2, <3>3, FillType
    <3> HIDE DEF j
    <3>5. j.command = i.command
      BY <3>2, <3>4 DEF Rest
    <3>6. o = Out(j, FALSE, TRUE, disc)
      BY <3>1 DEF ide_irq_raise
    <3> HIDE DEF o
    <3> QED BY <2>4, <3>5, <3>6
  <2>5. CASE i.command = "IDENTIFY" /\ i.drive = 1
    <3> DEFINE k == [i EXCEPT !.secount = 1, !.sector = 1, !.cylinder = 0, !.drive = 0, !.head = 0]
               j == [k EXCEPT !.atastat = "ERR"]
    <3>1. o = Abort(k)
      BY <2>5 DEF callbackide, IDE_DRIVE_IS_CDROM
    <3>2. o = Out(j, FALSE, TRUE, disc)
      BY <3>1 DEF Abort, ide_irq_raise
    <3>3. j.command = i.command
      BY DEF Registers
    <3> HIDE DEF j, o
    <3> QED BY <2>5, <3>2, <3>3
  <2>6. CASE \/ i.command \in {"RESTORE", "VERIFY", "READ", "SPECIFY"} /\ i.drive = 1
             \/ i.command = "PIDENTIFY" /\ i.drive = 0
             \/ i.command = "SETIDLE1"
    <3> DEFINE j == [i EXCEPT !.atastat = "ERR"]
    <3>1. o = Abort(i)
      <4>1. CASE i.command \in {"RESTORE", "VERIFY"} /\ i.drive = 1
        BY <4>1 DEF callbackide, IDE_DRIVE_IS_CDROM
      <4>2. CASE i.command \in {"READ", "SPECIFY"} /\ i.drive = 1
        BY <4>2 DEF callbackide, IDE_DRIVE_IS_CDROM
      <4>3. CASE i.command = "PIDENTIFY" /\ i.drive = 0
        BY <4>3 DEF callbackide, IDE_DRIVE_IS_CDROM
      <4>4. CASE i.command = "SETIDLE1"
        BY <4>4 DEF callbackide, IDE_DRIVE_IS_CDROM
      <4> QED BY <2>6, <4>1, <4>2, <4>3, <4>4
    <3>2. o = Out(j, FALSE, TRUE, disc)
      BY <3>1 DEF Abort, ide_irq_raise
    <3>3. j.command = i.command /\ j.drive = i.drive
      BY DEF Registers
    <3> HIDE DEF j, o
    <3> QED BY <3>2, <3>3
  <2>7. i.command \notin {"WRITE", "FORMAT", "NONE"}
    BY DEF Due
  <2> QED BY <1>0, <2>1, <2>2, <2>3, <2>4, <2>5, <2>6, <2>7 DEF Commands
<1>2. PICK j : o = Out(j, FALSE, TRUE, disc) /\ j.command = i.command /\ (i.command = "READ" => j.drive = i.drive)
  BY <1>1
<1>3. Take(o)
  OBVIOUS
<1> HIDE DEF o
<1>4. ide' = j /\ disc' = disc
  BY <1>2, <1>3 DEF Take, Out
<1>5. j.command \notin {"WRITE", "FORMAT", "PACKETCMD"} /\ (j.command = "READ" => j.drive # 0)
  BY <1>0, <1>2 DEF Due
<1>6. XferOf(j) = BD!NoXfer
  BY <1>5, OtherNone
<1> QED BY <1>4, <1>6, Abandoned

LEMMA EndsPacket ==
    ASSUME NEW o, NEW j, Take(o), o = Out(j, FALSE, TRUE, disc), j.command = "PACKETCMD", j.packetstatus # 6
    PROVE  BD!Next
<1>1. ide' = j /\ disc' = disc
  BY DEF Take, Out
<1>2. XferOf(j) = BD!NoXfer
  BY OtherNone
<1> QED BY <1>1, <1>2, Abandoned

LEMMA PacketCallbackXfer ==
    ASSUME ide \in Registers, ~ide.reset, PacketDue(ide), ide.command = "PACKETCMD",
           NEW ready \in BOOLEAN, Take(callbackide(ide, ready))
    PROVE  BD!Next \/ UNCHANGED <<disc, Xfer>>
<1> DEFINE o == PacketCallback(ide, ready)
           i == ide
<1>0. Take(o)
  BY DEF callbackide
<1>1. i.packetstatus \in {0, 1, 2, 3, 4, 5, 6, 128}
  BY DEF PacketStates, PacketDue, Registers
<1>2. CASE i.packetstatus \in {0, 2, 3, 4, 128}
  <2>1. CASE i.packetstatus = 0
    <3> DEFINE j == Drq(i)
    <3>1. Rest(i, j) /\ j.packetstatus = i.packetstatus
      BY DrqType
    <3>2. o = Out(j, FALSE, TRUE, disc)
      BY <2>1 DEF PacketCallback, ide_irq_raise
    <3> HIDE DEF j, o
    <3>3. j.command = "PACKETCMD" /\ j.packetstatus # 6
      BY <2>1, <3>1 DEF Rest
    <3>4. Take(o)
      BY <1>0
    <3> QED BY <3>2, <3>3, <3>4, EndsPacket
  <2>2. CASE i.packetstatus = 2
    <3> DEFINE j == [i EXCEPT !.atastat = "READY"]
    <3>1. j.command = i.command /\ j.packetstatus = i.packetstatus
      BY DEF Registers
    <3>2. o = Out(j, FALSE, TRUE, disc)
      BY <2>2 DEF PacketCallback, ide_irq_raise
    <3> HIDE DEF j, o
    <3>3. j.command = "PACKETCMD" /\ j.packetstatus # 6
      BY <2>2, <3>1
    <3>4. Take(o)
      BY <1>0
    <3> QED BY <3>2, <3>3, <3>4, EndsPacket
  <2>3. CASE i.packetstatus = 3
    <3> DEFINE j == [i EXCEPT !.atastat = "DRQ", !.packetstatus = 255]
    <3>1. j.command = i.command /\ j.packetstatus = 255
      BY DEF Registers
    <3>2. o = Out(j, FALSE, TRUE, disc)
      BY <2>3 DEF PacketCallback, ide_irq_raise
    <3> HIDE DEF j, o
    <3>3. j.command = "PACKETCMD" /\ j.packetstatus # 6
      BY <3>1
    <3>4. Take(o)
      BY <1>0
    <3> QED BY <3>2, <3>3, <3>4, EndsPacket
  <2>4. CASE i.packetstatus = 4
    <3> DEFINE j == [i EXCEPT !.atastat = "DRQ", !.pos = 1]
    <3>1. j.command = i.command /\ j.packetstatus = i.packetstatus
      BY DEF Registers
    <3>2. o = Out(j, FALSE, TRUE, disc)
      BY <2>4 DEF PacketCallback, ide_irq_raise
    <3> HIDE DEF j, o
    <3>3. j.command = "PACKETCMD" /\ j.packetstatus # 6
      BY <2>4, <3>1
    <3>4. Take(o)
      BY <1>0
    <3> QED BY <3>2, <3>3, <3>4, EndsPacket
  <2>5. CASE i.packetstatus = 128
    <3> DEFINE j == [i EXCEPT !.atastat = "ERR"]
    <3>1. j.command = i.command /\ j.packetstatus = i.packetstatus
      BY DEF Registers
    <3>2. o = Out(j, FALSE, TRUE, disc)
      BY <2>5 DEF PacketCallback, ide_irq_raise
    <3> HIDE DEF j, o
    <3>3. j.command = "PACKETCMD" /\ j.packetstatus # 6
      BY <2>5, <3>1
    <3>4. Take(o)
      BY <1>0
    <3> QED BY <3>2, <3>3, <3>4, EndsPacket
  <2> QED BY <1>2, <2>1, <2>2, <2>3, <2>4, <2>5
<1>3. CASE i.packetstatus = 1
  <2> DEFINE k == [i EXCEPT !.atastat = "BUSY"]
             a == atapicommand(k, ready)
             p == k.buffer[0]
  <2>1. "BUSY" \in Statuses
    BY Literals
  <2>2. k \in Registers
    BY <2>1 DEF Registers
  <2>3. k.atastat = "BUSY" /\ k.command = "PACKETCMD" /\ k.reset = i.reset /\ k.buffer = i.buffer
    BY DEF Registers
  <2>4. o = a
    BY <1>3 DEF PacketCallback
  <2> HIDE DEF k
  <2>5. p \in Packets
    BY <1>3, <2>3 DEF PacketDue
  <2>6. CASE p[1] = "READ_CD" /\ ready
    <3> DEFINE at == p[2]
               n == p[3]
               f == ReadCd(k, at, n)
    <3>1. a = Out(f, TRUE, ideirq, disc)
      BY <2>6 DEF atapicommand, Silent, Answers
    <3>2. at \in Blocks /\ n \in 1 .. Cap - at
      BY <2>5, <2>6, PacketShape
    <3> HIDE DEF at, n
    <3>3. /\ f.packetstatus = 6 /\ f.pos = 0 /\ f.cdpos = at + 1 /\ f.cdlen = n - 1 /\ f.atastat = "BUSY"
          /\ f.command = "PACKETCMD" /\ ~f.reset
      BY <2>2, <2>3, <3>2, ReadCdType
    <3> HIDE DEF f
    <3>4. ide' = f /\ disc' = disc
      BY <1>0, <2>4, <3>1 DEF Take, Out
    <3>5. at \in Nat /\ n \in Nat /\ n >= 1 /\ at + n <= Cap /\ (at + 1) - 1 = at /\ (n - 1) + 1 = n
      BY <3>2, Literals DEF Blocks
    <3>6. XferOf(f) = Progress("read_cd", at, n, <<>>)
      BY <3>3, <3>5, CdView
    <3> QED BY <3>2, <3>4, <3>5, <3>6, Begins
  <2>7. CASE ~(p[1] = "READ_CD" /\ ready)
    <3>1. a.disc = disc /\ a.ide.command = "PACKETCMD" /\ a.ide.packetstatus # 6
      BY <2>2, <2>3, <2>5, <2>7, PacketKept
    <3> HIDE DEF a, o
    <3>2. ide' = a.ide /\ disc' = disc
      BY <1>0, <2>4, <3>1 DEF Take
    <3>3. XferOf(ide') = BD!NoXfer
      BY <3>1, <3>2, OtherNone
    <3> QED BY <3>2, <3>3, Abandoned
  <2> QED BY <2>6, <2>7
<1>4. CASE i.packetstatus = 5
  <2> DEFINE a == atapicommand(i, ready)
  <2>1. o = a
    BY <1>4 DEF PacketCallback
  <2>2. i.buffer[0] \in Packets /\ ~(i.buffer[0][1] = "READ_CD" /\ ready)
    BY <1>4 DEF PacketDue, Selecting
  <2>3. a.disc = disc /\ a.ide.command = "PACKETCMD" /\ a.ide.packetstatus # 6
    BY <2>2, PacketKept
  <2> HIDE DEF a, o
  <2>4. ide' = a.ide /\ disc' = disc
    BY <1>0, <2>1, <2>3 DEF Take
  <2>5. XferOf(ide') = BD!NoXfer
    BY <2>3, <2>4, OtherNone
  <2> QED BY <2>4, <2>5, Abandoned
<1>5. CASE i.packetstatus = 6
  <2> DEFINE j == [i EXCEPT !.atastat = "DRQ"]
  <2>1. /\ j.atastat = "DRQ" /\ j.command = i.command /\ j.reset = i.reset /\ j.packetstatus = 6 /\ j.pos = i.pos
        /\ j.cdpos = i.cdpos /\ j.cdlen = i.cdlen
    BY <1>5 DEF Registers
  <2>2. o = Out(j, FALSE, TRUE, disc)
    BY <1>5 DEF PacketCallback, ide_irq_raise
  <2> HIDE DEF j, o
  <2>3. ide' = j /\ disc' = disc
    BY <1>0, <2>2 DEF Take, Out
  <2>4. i.pos = 0 /\ i.atastat = "BUSY"
    BY <1>5 DEF PacketDue
  <2>5. Sofar(j) = <<>>
    BY <2>1, <2>4, SofarNone
  <2>6. XferOf(i) = Progress("read_cd", i.cdpos - 1, i.cdlen + 1, <<>>)
    BY <1>5, <2>4, CdView
  <2>7. XferOf(j) = Progress("read_cd", i.cdpos - 1, i.cdlen + 1, <<>>)
    BY <2>1, <2>5, CdView
  <2>8. Xfer' = Xfer
    BY <2>3, <2>6, <2>7, XferNow
  <2> QED BY <2>3, <2>8
<1> QED BY <1>1, <1>2, <1>3, <1>4, <1>5

LEMMA CallbackXfer == ASSUME IdeInv, Callback PROVE BD!Next \/ UNCHANGED <<disc, Xfer>>
<1>1. PICK ready \in BOOLEAN : Take(callbackide(ide, ready))
  BY DEF Callback
<1>2. idecallback /\ Well(ide, disc) /\ guest \in {"irq", "reset"} /\ ide \in Registers /\ disc \in Image
  BY DEF Callback, IdeInv, Moving, Well
<1>3. CASE guest = "irq"
  <2>1. Due(ide) /\ ~ide.reset
    BY <1>2, <1>3 DEF IdeInv, Waiting
  <2>2. CASE ide.command = "PACKETCMD"
    <3>1. PacketDue(ide)
      BY <2>1, <2>2 DEF Due
    <3> QED BY <1>1, <1>2, <2>1, <2>2, <3>1, PacketCallbackXfer
  <2>3. CASE ide.command = "READ" /\ ide.drive = 0
    <3> DEFINE f == Fill(Drq(ide), disc[ide_get_sector(ide)])
               o == callbackide(ide, ready)
    <3> HIDE DEF f
    <3>1. o = Out(f, FALSE, TRUE, disc)
      BY <2>1, <2>3 DEF callbackide, IDE_DRIVE_IS_CDROM, ide_irq_raise, f
    <3>2. Take(o)
      BY <1>1
    <3> HIDE DEF o
    <3>3. ide' = f /\ disc' = disc
      BY <3>1, <3>2 DEF Take, Out
    <3>4. Fits(ide) /\ ide.atastat = "BUSY"
      BY <2>1, <2>3 DEF Due, OnDisc
    <3>5. /\ f \in Registers /\ Rest(ide, f) /\ f.pos = 0 /\ f.atastat = "DRQ"
          /\ ide_get_sector(f) = ide_get_sector(ide)
      BY <1>2, <2>3, <3>4, ReadFill DEF f
    <3>6. Sofar(f) = <<>>
      BY <3>5, SofarNone
    <3>7. XferOf(ide) = Progress("read", ide_get_sector(ide), ide.secount, <<>>)
      BY <2>1, <2>3, <3>4, ReadView
    <3>8. XferOf(f) = Progress("read", ide_get_sector(ide), ide.secount, <<>>)
      BY <2>1, <2>3, <3>5, <3>6, ReadView DEF Rest
    <3>9. Xfer' = Xfer
      BY <3>3, <3>7, <3>8, XferNow
    <3> QED BY <3>3, <3>9
  <2>4. CASE ide.command # "PACKETCMD" /\ ~(ide.command = "READ" /\ ide.drive = 0)
    BY <1>1, <1>2, <2>1, <2>4, DiscCallbackXfer
  <2> QED BY <2>2, <2>3, <2>4
<1>4. CASE guest = "reset"
  <2> DEFINE j == [ide EXCEPT !.atastat = "READY", !.secount = 1, !.sector = 1, !.head = 0, !.cylinder = 0,
                           !.reset = FALSE]
             o == callbackide(ide, ready)
  <2>1. ide.reset
    BY <1>2, <1>4 DEF IdeInv
  <2>2. j.atastat = "READY"
    BY <1>2 DEF Registers
  <2>3. o = Out(j, FALSE, ideirq, disc)
    BY <2>1 DEF callbackide, ResetCallback
  <2>4. Take(o)
    BY <1>1
  <2> HIDE DEF j, o
  <2>5. ide' = j /\ disc' = disc
    BY <2>3, <2>4 DEF Take, Out
  <2>6. XferOf(j) = BD!NoXfer
    BY <2>2, StillNone
  <2> QED BY <2>5, <2>6, Abandoned
<1> QED BY <1>2, <1>3, <1>4

(* A word inside a block.                                                   *)
LEMMA ReadOnXfer ==
    ASSUME IdeInv, guest = "data", ~Writing, Take(readidew(ide)),
           ide.pos + 1 < (IF ide.command = "PACKETCMD" THEN ide.packlen ELSE BlockSize)
    PROVE  BD!Next
<1> DEFINE j == [ide EXCEPT !.pos = ide.pos + 1]
           at == ide_get_sector(ide)
           w == ide.buffer[ide.pos]
<1>1. /\ ide \in Registers /\ disc \in Image /\ ~ide.reset /\ ide.atastat = "DRQ" /\ DataPhase(ide, disc)
      /\ ide.pos \in Nat /\ ide.pos < BlockSize /\ ide.pos + 1 \in 0 .. BlockSize
  BY DataFacts
<1>2. j \in Registers
  BY <1>1 DEF Registers
<1>3. /\ j.pos = ide.pos + 1 /\ j.atastat = "DRQ" /\ j.packetstatus = ide.packetstatus /\ j.buffer = ide.buffer
      /\ j.cdpos = ide.cdpos /\ j.cdlen = ide.cdlen /\ Rest(ide, j)
  BY <1>1 DEF Registers, Rest, Place
<1>4. readidew(ide) = Out(j, idecallback, ideirq, disc)
  <2>1. ~(ide.pos + 1 >= (IF ide.command = "PACKETCMD" THEN ide.packlen ELSE BlockSize))
    <3>1. (IF ide.command = "PACKETCMD" THEN ide.packlen ELSE BlockSize) \in Nat
      BY <1>1, Literals DEF Registers
    <3> QED BY <1>1, <3>1
  <2> QED BY <2>1 DEF readidew
<1> HIDE DEF j
<1>5. ide' = j /\ disc' = disc
  BY <1>4 DEF Take, Out
<1>6. Sofar(ide) \in Seq(Cells) /\ Len(Sofar(ide)) = ide.pos /\ Sofar(j) = Append(Sofar(ide), w)
  <2>1. j.pos <= BlockSize /\ \A k \in 0 .. ide.pos - 1 : j.buffer[k] = ide.buffer[k]
    BY <1>1, <1>3, Literals
  <2> QED BY <1>1, <1>2, <1>3, <2>1, SofarMore
<1>7. BufferWords(ide)[ide.pos + 1] = w
  BY <1>1, Literals DEF BufferWords
<1> HIDE DEF w
<1>8. CASE ide.command = "READ"
  <2>1. ide.drive = 0 /\ BufferWords(ide) = disc[at] /\ Fits(ide)
    BY <1>1, <1>8 DEF DataPhase
  <2>2. ide_get_sector(j) = at /\ j.secount = ide.secount /\ j.command = "READ" /\ j.drive = 0 /\ ~j.reset
    BY <1>1, <1>3, <1>8, <2>1, FitsSame DEF Rest
  <2> HIDE DEF at
  <2>3. XferOf(ide) = Progress("read", at, ide.secount, Sofar(ide))
    BY <1>1, <1>8, <2>1, ReadView DEF at
  <2>4. XferOf(j) = Progress("read", at, ide.secount, Append(Sofar(ide), w))
    BY <1>3, <1>6, <2>2, ReadView
  <2> DEFINE b == disc[at]
  <2>5. b = (IF "read" = "read" THEN disc[at] ELSE Cd(at)) /\ b[Len(Sofar(ide)) + 1] = w
    BY <1>6, <1>7, <2>1
  <2>6. Len(Sofar(ide)) + 1 < BlockSize
    BY <1>6, <1>8
  <2> HIDE DEF b
  <2> QED BY <1>5, <1>6, <2>3, <2>4, <2>5, <2>6, Takes
<1>9. CASE ide.command = "PACKETCMD" /\ ide.packetstatus = 6
  <2> DEFINE p == ide.cdpos - 1
             n == ide.cdlen + 1
             b == Cd(p)
  <2>1. CdFits(ide)
    BY <1>1, <1>9 DEF DataPhase, PacketData
  <2>2. BufferWords(ide) = b /\ ide.packlen = BlockSize
    BY <2>1 DEF CdFits
  <2>3. XferOf(ide) = Progress("read_cd", p, n, Sofar(ide))
    BY <1>1, <1>9, CdView
  <2>4. XferOf(j) = Progress("read_cd", p, n, Append(Sofar(ide), w))
    BY <1>1, <1>3, <1>6, <1>9, CdView DEF Rest
  <2>5. b = (IF "read_cd" = "read" THEN disc[p] ELSE Cd(p)) /\ b[Len(Sofar(ide)) + 1] = w
    BY <1>6, <1>7, <2>2
  <2>6. Len(Sofar(ide)) + 1 < BlockSize
    BY <1>6, <1>9, <2>2
  <2> HIDE DEF b, p, n
  <2> QED BY <1>5, <1>6, <2>3, <2>4, <2>5, <2>6, Takes
<1>10. CASE ide.command # "READ" /\ ~(ide.command = "PACKETCMD" /\ ide.packetstatus = 6)
  <2>1. ide.command \notin {"WRITE", "FORMAT"}
    BY DEF Writing
  <2>2. XferOf(j) = BD!NoXfer
    BY <1>3, <1>10, <2>1, OtherNone DEF Rest
  <2> QED BY <1>5, <2>2, Abandoned
<1> QED BY <1>8, <1>9, <1>10

LEMMA SofarType ==
    ASSUME NEW i \in Registers, i.pos \in Nat
    PROVE  Sofar(i) \in Seq(Cells) /\ Len(Sofar(i)) = i.pos
<1>1. (\A k \in 0 .. BlockSize : i.buffer[k] \in Cells) /\ BlockSize \in Nat /\ i.pos <= BlockSize
  BY Literals DEF Registers
<1>2. Sofar(i) \in [1 .. i.pos -> Cells]
  <2>1. ASSUME NEW k \in 1 .. i.pos PROVE i.buffer[k - 1] \in Cells
    <3>1. k - 1 \in 0 .. BlockSize
      BY <1>1
    <3> QED BY <1>1, <3>1
  <2> QED BY <2>1 DEF Sofar
<1> QED BY <1>2

(* The last word of a block, and the last block.                            *)
LEMMA ReadEndXfer ==
    ASSUME IdeInv, guest = "data", ~Writing, Take(readidew(ide)),
           ~(ide.pos + 1 < (IF ide.command = "PACKETCMD" THEN ide.packlen ELSE BlockSize))
    PROVE  BD!Next
<1> DEFINE over == [ide EXCEPT !.pos = 0, !.atastat = "READY", !.packetstatus = 0]
           o == readidew(ide)
<1>1. /\ ide \in Registers /\ disc \in Image /\ ~ide.reset /\ ide.atastat = "DRQ" /\ DataPhase(ide, disc)
      /\ idecallback = FALSE /\ ideirq = FALSE /\ ide.pos \in Nat /\ ide.pos < BlockSize
  BY DataFacts
<1>2. over.atastat = "READY"
  BY <1>1 DEF Registers
<1>3. ide.pos + 1 >= (IF ide.command = "PACKETCMD" THEN ide.packlen ELSE BlockSize)
  <2>1. (IF ide.command = "PACKETCMD" THEN ide.packlen ELSE BlockSize) \in Nat
    BY <1>1, Literals DEF Registers
  <2> QED BY <1>1, <2>1
<1>4. Take(o)
  OBVIOUS
<1>5. Sofar(ide) \in Seq(Cells) /\ Len(Sofar(ide)) = ide.pos
  BY <1>1, SofarType
<1>6. ASSUME NEW j, o = Out(j, FALSE, FALSE, disc) \/ o = Out(j, TRUE, FALSE, disc) \/ o = Out(j, FALSE, TRUE, disc)
      PROVE  ide' = j /\ disc' = disc
  <2> HIDE DEF o
  <2> QED BY <1>4, <1>6 DEF Take, Out
<1>7. CASE ide.command = "PACKETCMD" /\ ide.packetstatus = 6
  <2> DEFINE k == [ide EXCEPT !.pos = 0]
             at == ide.cdpos - 1
             n == ide.cdlen + 1
  <2>1. o = callreadcd(k)
    BY <1>3, <1>7 DEF readidew
  <2>2. k \in Registers
    BY <1>1, Literals DEF Registers
  <2>3. /\ k.cdpos = ide.cdpos /\ k.cdlen = ide.cdlen /\ k.command = "PACKETCMD" /\ ~k.reset
    BY <1>1, <1>7 DEF Registers
  <2>4. CdFits(ide)
    BY <1>1, <1>7 DEF DataPhase, PacketData
  <2>5. /\ ide.cdpos \in Nat /\ ide.cdlen \in 0 .. Cap /\ ide.cdpos + ide.cdlen <= Cap /\ ide.cdpos >= 1
        /\ ide.packlen = BlockSize
    BY <1>1, <2>4 DEF CdFits, Registers
  <2>6. at \in Nat /\ n \in Nat /\ at + 1 = ide.cdpos /\ n - 1 = ide.cdlen /\ Len(Sofar(ide)) + 1 = BlockSize
    <3>1. ide.pos + 1 >= BlockSize
      BY <1>3, <1>7, <2>5
    <3>2. ide.pos + 1 = BlockSize
      BY <1>1, <3>1, Literals
    <3>3. at \in Nat /\ n \in Nat /\ at + 1 = ide.cdpos /\ n - 1 = ide.cdlen
      BY <2>5, Literals
    <3> QED BY <1>5, <3>2, <3>3
  <2>7. XferOf(ide) = Progress("read_cd", at, n, Sofar(ide))
    BY <1>1, <1>7, CdView
  <2> HIDE DEF k, at, n
  <2>8. CASE k.cdlen = 0
    <3> DEFINE j == [k EXCEPT !.packetstatus = 2]
    <3>1. j.command = k.command /\ j.packetstatus = 2
      BY <2>2 DEF Registers
    <3>2. o = Out(j, TRUE, FALSE, disc)
      BY <2>1, <2>8 DEF callreadcd
    <3> HIDE DEF j, o
    <3>3. ide' = j /\ disc' = disc
      BY <1>6, <3>2
    <3>4. XferOf(j) = BD!NoXfer
      BY <2>3, <3>1, OtherNone
    <3> QED BY <3>3, <3>4, Abandoned
  <2>9. CASE k.cdlen # 0
    <3> DEFINE f == ReadCd(k, k.cdpos, k.cdlen)
               j == [f EXCEPT !.atastat = "BUSY"]
    <3>1. k.cdpos \in Blocks /\ k.cdlen \in 1 .. Cap - k.cdpos
      BY <2>3, <2>5, <2>9, Literals DEF Blocks
    <3>2. /\ f \in Registers /\ f.packetstatus = 6 /\ f.command = k.command /\ f.reset = k.reset
          /\ f.cdpos = k.cdpos + 1 /\ f.cdlen = k.cdlen - 1
      BY <2>2, <3>1, ReadCdType
    <3>3. o = Out(j, TRUE, FALSE, disc)
      BY <2>1, <2>9 DEF callreadcd
    <3> HIDE DEF f
    <3>4. /\ j.atastat = "BUSY" /\ j.packetstatus = 6 /\ j.command = f.command /\ j.reset = f.reset
          /\ j.cdpos = f.cdpos /\ j.cdlen = f.cdlen
      BY <3>2 DEF Registers
    <3> HIDE DEF j, o
    <3>5. ide' = j /\ disc' = disc
      BY <1>6, <3>3
    <3>6. j.cdpos - 1 = at + 1 /\ j.cdlen + 1 = n - 1 /\ n # 1
      BY <2>3, <2>5, <2>6, <2>9, <3>2, <3>4
    <3>7. XferOf(j) = Progress("read_cd", at + 1, n - 1, <<>>)
      BY <2>3, <3>2, <3>4, <3>6, CdView
    <3>8. XferOf(ide') = IF n = 1 THEN BD!NoXfer ELSE Progress("read_cd", at + 1, n - 1, <<>>)
      BY <3>5, <3>6, <3>7
    <3> QED BY <1>5, <2>6, <2>7, <3>5, <3>8, TakesLast
  <2> QED BY <2>8, <2>9
<1>8. CASE ~(ide.command = "PACKETCMD" /\ ide.packetstatus = 6) /\ ide.command # "READ"
  <2>1. o = Out(over, FALSE, FALSE, disc)
    BY <1>1, <1>3, <1>8 DEF readidew
  <2> HIDE DEF over, o
  <2>2. ide' = over /\ disc' = disc
    BY <1>6, <2>1
  <2>3. XferOf(over) = BD!NoXfer
    BY <1>2, StillNone
  <2> QED BY <2>2, <2>3, Abandoned
<1>9. CASE ide.command = "READ"
  <2> DEFINE at == ide_get_sector(ide)
             n == ide.secount
  <2>1. ide.drive = 0 /\ Fits(ide)
    BY <1>1, <1>9 DEF DataPhase
  <2>2. at \in Nat /\ n \in Nat
    BY <1>1, <2>1, FitsBlocks, Literals DEF Blocks, Fits
  <2>3. Len(Sofar(ide)) + 1 = BlockSize /\ ide.pos + 1 >= BlockSize
    BY <1>1, <1>3, <1>5, <1>9, Literals
  <2> HIDE DEF at
  <2>4. XferOf(ide) = Progress("read", at, n, Sofar(ide))
    BY <1>1, <1>9, <2>1, ReadView DEF at
  <2>5. CASE n = 1
    <3> DEFINE j == [over EXCEPT !.secount = 0]
    <3>1. o = Out(j, FALSE, FALSE, disc)
      BY <1>1, <1>3, <1>9, <2>5 DEF readidew
    <3>2. over \in Registers
      BY <1>1, Literals, ZenonT(30) DEF Registers
    <3> HIDE DEF over
    <3>3. j.atastat = "READY"
      BY <1>2, <3>2 DEF Registers
    <3> HIDE DEF j, o
    <3>4. ide' = j /\ disc' = disc
      BY <1>6, <3>1
    <3>5. XferOf(j) = BD!NoXfer
      BY <3>3, StillNone
    <3> QED BY <3>4, <3>5, Abandoned
  <2>6. CASE n # 1
    <3>1. PICK f : /\ o = Out(f, FALSE, TRUE, disc) /\ f.pos = 0 /\ f.atastat = "DRQ" /\ f.command = "READ"
                   /\ f.drive = 0 /\ ~f.reset /\ ide_get_sector(f) = ide_get_sector(ide) + 1
                   /\ f.secount = ide.secount - 1
      BY <1>9, <2>3, <2>6, ReadNext
    <3> HIDE DEF o
    <3>2. ide' = f /\ disc' = disc
      BY <1>6, <3>1
    <3>3. Sofar(f) = <<>>
      BY <3>1, SofarNone
    <3>4. XferOf(f) = Progress("read", at + 1, n - 1, <<>>)
      BY <3>1, <3>3, ReadView DEF at
    <3> HIDE DEF n
    <3>5. XferOf(ide') = IF n = 1 THEN BD!NoXfer ELSE Progress("read", at + 1, n - 1, <<>>)
      BY <2>6, <3>2, <3>4
    <3> QED BY <1>5, <2>2, <2>3, <2>4, <3>2, <3>5, TakesLast
  <2> QED BY <2>5, <2>6
<1> QED BY <1>7, <1>8, <1>9

(* The callback of WRITE in the middle of a transfer. *)
LEMMA WriteNext ==
    ASSUME NEW i \in Registers, i.command = "WRITE", i.drive = 0, ~i.reset, i.pos = 0, Fits(i), i.secount # 1
    PROVE  \E f : /\ WriteCallback(i) = Out(f, FALSE, TRUE, [disc EXCEPT ![ide_get_sector(i)] = BufferWords(i)])
                  /\ f.pos = 0 /\ f.atastat = "DRQ" /\ f.command = "WRITE" /\ f.drive = 0 /\ ~f.reset
                  /\ ide_get_sector(f) = ide_get_sector(i) + 1 /\ f.secount = i.secount - 1
<1> DEFINE j == [i EXCEPT !.secount = i.secount - 1]
           n == ide_next_sector(j)
           f == Drq(n)
           o == WriteCallback(i)
<1>1. i.secount - 1 \in Counts /\ i.secount - 1 \in 1 .. MaxCount
  BY Literals DEF Fits, Counts
<1>2. j \in Registers
  BY <1>1 DEF Registers
<1>3. /\ Place(i, j) /\ j.secount = i.secount - 1 /\ j.command = i.command /\ j.drive = i.drive
      /\ j.reset = i.reset /\ j.pos = i.pos
  BY DEF Registers, Place
<1> HIDE DEF j
<1>4. j.sector \in 1 .. j.spt /\ j.head < j.hpc /\ ide_get_sector(j) = ide_get_sector(i)
  BY <1>3 DEF Place, Fits, ide_get_sector
<1>5. /\ n \in Registers /\ ide_get_sector(n) = ide_get_sector(i) + 1
      /\ n.secount = i.secount - 1 /\ n.command = "WRITE" /\ n.drive = 0 /\ ~n.reset
  BY <1>2, <1>3, <1>4, NextSectorType
<1> HIDE DEF n
<1>6. Rest(n, f) /\ f.atastat = "DRQ" /\ f.pos = 0
  BY <1>5, DrqType
<1> HIDE DEF f
<1>7. ide_get_sector(f) = ide_get_sector(n)
  BY <1>6 DEF Rest, Place, ide_get_sector
<1>8. o = Out(f, FALSE, TRUE, [disc EXCEPT ![ide_get_sector(i)] = BufferWords(i)])
  BY DEF WriteCallback, f, n, j
<1> HIDE DEF o
<1>9. f.command = "WRITE" /\ f.drive = 0 /\ ~f.reset /\ f.secount = i.secount - 1
  BY <1>5, <1>6 DEF Rest
<1> QED BY <1>5, <1>6, <1>7, <1>8, <1>9 DEF o

(* The word that fills a block of the disc's. *)
LEMMA BlockXfer ==
    ASSUME ide \in Registers, ~ide.reset, ide.atastat = "DRQ", NEW i \in Registers, Rest(ide, i), i.pos = 0,
           i.command \in {"WRITE", "FORMAT"}, OnDisc(i), NEW words \in Seq(Cells), Len(words) + 1 = BlockSize,
           Sofar(ide) = words, BufferWords(i) = Append(words, One), Take(callbackide(i, TRUE))
    PROVE  BD!Next
<1> DEFINE o == callbackide(i, TRUE)
           at == ide_get_sector(ide)
           n == ide.secount
<1>1. /\ i.command = ide.command /\ i.drive = ide.drive /\ ~i.reset /\ i.secount = ide.secount
      /\ i.drive \in {0, 1} /\ ide_get_sector(i) = at /\ Take(o)
  BY DEF Rest, Place, ide_get_sector, Registers
<1>2. CASE i.drive = 1
  <2> DEFINE j == [i EXCEPT !.atastat = "ERR"]
  <2>1. o = Abort(i)
    <3>1. CASE i.command = "WRITE"
      BY <1>1, <1>2, <3>1 DEF callbackide, IDE_DRIVE_IS_CDROM
    <3>2. CASE i.command = "FORMAT"
      BY <1>1, <1>2, <3>2 DEF callbackide, IDE_DRIVE_IS_CDROM
    <3> QED BY <3>1, <3>2
  <2>2. j.atastat = "ERR"
    BY DEF Registers
  <2>3. o = Out(j, FALSE, TRUE, disc)
    BY <2>1 DEF Abort, ide_irq_raise
  <2> HIDE DEF j, o
  <2>4. ide' = j /\ disc' = disc
    BY <1>1, <2>3 DEF Take, Out
  <2>5. XferOf(j) = BD!NoXfer
    BY <2>2, StillNone
  <2> QED BY <2>4, <2>5, Abandoned
<1>3. CASE i.drive = 0
  <2>1. Fits(i) /\ at \in Nat /\ n \in Nat
    <3>1. Fits(i)
      BY <1>3 DEF OnDisc
    <3>2. ide_get_sector(i) \in Nat
      BY <3>1, FitsBlocks DEF Blocks
    <3> QED BY <1>1, <3>1, <3>2 DEF Fits
  <2>2. One \in Words
    BY DEF Words
  <2>3. CASE i.command = "FORMAT"
    <3> DEFINE j == [i EXCEPT !.atastat = "READY"]
               f == Fill(j, Zeros)
               d == [b \in Blocks |-> IF b \in at .. at + n - 1 THEN Zeros ELSE disc[b]]
    <3>1. Formatted(i) = d
      BY <1>1 DEF Formatted
    <3>2. o = Out(f, FALSE, TRUE, Formatted(i))
      BY <1>1, <1>3, <2>3 DEF callbackide, IDE_DRIVE_IS_CDROM
    <3>3. j \in Registers /\ Zeros \in [1 .. BlockSize -> Cells]
      <4>1. "READY" \in Statuses
        BY Literals
      <4>2. j \in Registers
        BY <4>1, ZenonT(30) DEF Registers
      <4> QED BY <4>2, ZerosType
    <3>4. j.atastat = "READY"
      BY DEF Registers
    <3> HIDE DEF j
    <3>5. f.atastat = "READY"
      BY <3>3, <3>4, FillType
    <3> HIDE DEF f, o, d
    <3>6. ide' = f /\ disc' = d
      BY <1>1, <3>1, <3>2 DEF Take, Out
    <3>7. XferOf(ide') = BD!NoXfer
      BY <3>5, <3>6, StillNone
    <3>8. XferOf(ide) = Progress("format", at, n, words)
      BY <1>1, <1>3, <2>3, FormatView
    <3>9. disc' = [b \in Blocks |-> IF b \in at .. at + n - 1 THEN Zeros ELSE disc[b]]
      BY <3>6 DEF d
    <3> HIDE DEF at, n
    <3> QED BY <2>1, <2>2, <3>7, <3>8, <3>9, Formats
  <2>4. CASE i.command = "WRITE"
    <3> DEFINE d == [disc EXCEPT ![at] = Append(words, One)]
    <3>1. [disc EXCEPT ![ide_get_sector(i)] = BufferWords(i)] = d
      BY <1>1
    <3>2. o = WriteCallback(i)
      BY <1>1, <1>3, <2>4 DEF callbackide, IDE_DRIVE_IS_CDROM
    <3>3. XferOf(ide) = Progress("write", at, n, words)
      BY <1>1, <1>3, <2>4, WriteView
    <3> HIDE DEF o, d
    <3>4. CASE n = 1
      <4> DEFINE j == [i EXCEPT !.secount = 0, !.atastat = "READY"]
      <4>1. j.atastat = "READY"
        BY DEF Registers
      <4>2. o = Out(j, FALSE, TRUE, d)
        BY <1>1, <3>1, <3>2, <3>4 DEF WriteCallback
      <4> HIDE DEF j
      <4>3. ide' = j /\ disc' = d
        BY <1>1, <4>2 DEF Take, Out
      <4>4. XferOf(ide') = IF n = 1 THEN BD!NoXfer ELSE Progress("write", at + 1, n - 1, <<>>)
        BY <3>4, <4>1, <4>3, StillNone
      <4>5. disc' = [disc EXCEPT ![at] = Append(words, One)]
        BY <4>3 DEF d
      <4> HIDE DEF at, n
      <4> QED BY <2>1, <2>2, <3>3, <4>4, <4>5, GivesLast
    <3>5. CASE n # 1
      <4>1. PICK f : /\ WriteCallback(i) = Out(f, FALSE, TRUE, [disc EXCEPT ![ide_get_sector(i)] = BufferWords(i)])
                     /\ f.pos = 0 /\ f.atastat = "DRQ" /\ f.command = "WRITE" /\ f.drive = 0 /\ ~f.reset
                     /\ ide_get_sector(f) = ide_get_sector(i) + 1 /\ f.secount = i.secount - 1
        BY <1>1, <1>3, <2>1, <2>4, <3>5, WriteNext
      <4>2. o = Out(f, FALSE, TRUE, d)
        BY <3>1, <3>2, <4>1
      <4>3. ide' = f /\ disc' = d
        BY <1>1, <4>2 DEF Take, Out
      <4>4. Sofar(f) = <<>>
        BY <4>1, SofarNone
      <4>5. XferOf(f) = Progress("write", at + 1, n - 1, <<>>)
        BY <1>1, <4>1, <4>4, WriteView
      <4>6. XferOf(ide') = IF n = 1 THEN BD!NoXfer ELSE Progress("write", at + 1, n - 1, <<>>)
        BY <3>5, <4>3, <4>5
      <4>7. disc' = [disc EXCEPT ![at] = Append(words, One)]
        BY <4>3 DEF d
      <4> HIDE DEF at, n
      <4> QED BY <2>1, <2>2, <3>3, <4>6, <4>7, GivesLast
    <3> QED BY <3>4, <3>5
  <2> QED BY <2>3, <2>4
<1> QED BY <1>1, <1>2, <1>3

LEMMA DiscWordXfer ==
    ASSUME IdeInv, guest = "data", ide.command \in {"WRITE", "FORMAT"}, Take(writeidew(ide, One))
    PROVE  BD!Next
<1> DEFINE s == StoredWord(ide, One)
           o == writeidew(ide, One)
           words == Sofar(ide)
<1>1. /\ Well(ide, disc) /\ ide \in Registers /\ ~ide.reset /\ ide.atastat = "DRQ"
      /\ idecallback = FALSE /\ ideirq = FALSE /\ DataPhase(ide, disc)
      /\ ide.pos \in Nat /\ ide.pos < BlockSize /\ ide.pos + 1 \in 0 .. BlockSize
  BY DataFacts
<1>2. One \in Words /\ One \in Cells
  BY DEF Words, Cells
<1>3. /\ s \in Registers /\ Rest(ide, s) /\ s.pos = ide.pos + 1 /\ s.atastat = ide.atastat
      /\ s.packetstatus = ide.packetstatus /\ s.buffer[ide.pos] = One
      /\ \A k \in 0 .. BlockSize : k # ide.pos => s.buffer[k] = ide.buffer[k]
  BY <1>1, <1>2, StoredType
<1>4. Take(o)
  OBVIOUS
<1>5. ide.packetstatus \notin {4, 5} /\ ide.command # "PACKETCMD" /\ ide.drive \in {0, 1} /\ OnDisc(ide)
  BY <1>1 DEF Well, Unselected, DataPhase, Registers
<1>6. words \in Seq(Cells) /\ Len(words) = ide.pos /\ Sofar(s) = Append(words, One)
  <2>1. s.pos <= BlockSize /\ \A k \in 0 .. ide.pos - 1 : s.buffer[k] = ide.buffer[k]
    <3>1. \A k \in 0 .. ide.pos - 1 : k \in 0 .. BlockSize /\ k # ide.pos
      BY <1>1, Literals
    <3> QED BY <1>1, <1>3, <3>1, Literals
  <2> HIDE DEF s
  <2> QED BY <1>1, <1>3, <2>1, SofarMore
<1> HIDE DEF words
<1>7. CASE s.pos < BlockSize
  <2>1. ~(s.pos >= BlockSize)
    BY <1>1, <1>3, <1>7, Literals
  <2>2. o = Out(s, FALSE, FALSE, disc)
    BY <1>1, <1>3, <1>5, <2>1 DEF writeidew
  <2> HIDE DEF s, o
  <2>3. ide' = s /\ disc' = disc
    BY <1>4, <2>2 DEF Take, Out
  <2>4. CASE ide.drive = 0
    <3> DEFINE at == ide_get_sector(ide)
               n == ide.secount
    <3>1. /\ s.command = ide.command /\ s.drive = 0 /\ ~s.reset /\ s.atastat = "DRQ" /\ ide_get_sector(s) = at
          /\ s.secount = n
      BY <1>1, <1>3, <2>4 DEF Rest, Place, ide_get_sector
    <3>2. Len(words) + 1 < BlockSize
      BY <1>3, <1>6, <1>7
    <3> HIDE DEF at, n
    <3>3. CASE ide.command = "WRITE"
      <4>1. XferOf(ide) = Progress("write", at, n, words) /\ XferOf(s) = Progress("write", at, n, Append(words, One))
        BY <1>1, <1>6, <2>4, <3>1, <3>3, WriteView DEF at, n, words
      <4> QED BY <1>2, <1>6, <2>3, <3>2, <4>1, Gives
    <3>4. CASE ide.command = "FORMAT"
      <4>1. /\ XferOf(ide) = Progress("format", at, n, words)
            /\ XferOf(s) = Progress("format", at, n, Append(words, One))
        BY <1>1, <1>6, <2>4, <3>1, <3>4, FormatView DEF at, n, words
      <4> QED BY <1>2, <1>6, <2>3, <3>2, <4>1, Gives
    <3> QED BY <3>3, <3>4
  <2>5. CASE ide.drive = 1
    <3>1. XferOf(s) = BD!NoXfer
      BY <1>3, <1>5, <2>5, OtherNone DEF Rest
    <3> QED BY <2>3, <3>1, Abandoned
  <2> QED BY <1>5, <2>4, <2>5
<1>8. CASE ~(s.pos < BlockSize)
  <2> DEFINE j == [s EXCEPT !.pos = 0, !.atastat = "BUSY"]
  <2>1. s.pos >= BlockSize /\ s.pos = BlockSize
    BY <1>1, <1>3, <1>8, Literals
  <2>2. o = callbackide(j, TRUE)
    <3>1. s.packetstatus \notin {4, 5}
      BY <1>3, <1>5
    <3> QED BY <1>5, <2>1, <3>1 DEF writeidew
  <2> HIDE DEF s, o
  <2>3. "BUSY" \in Statuses /\ 0 \in 0 .. BlockSize
    BY Literals
  <2>4. j \in Registers
    BY <1>3, <2>3 DEF Registers
  <2>5. Rest(s, j) /\ j.pos = 0 /\ j.buffer = s.buffer
    BY <1>3 DEF Registers, Rest, Place
  <2> HIDE DEF j
  <2>6. Rest(ide, j)
    BY <1>3, <2>5 DEF Rest, Place
  <2>7. OnDisc(j) /\ j.command \in {"WRITE", "FORMAT"}
    <3>1. /\ Place(ide, j) /\ j.secount = ide.secount /\ j.drive = ide.drive /\ j.command = ide.command
      BY <2>6 DEF Rest
    <3>2. CASE ide.drive = 0
      <4>1. Fits(ide)
        BY <1>5, <3>2 DEF OnDisc
      <4>2. Fits(j)
        BY <1>1, <3>1, <4>1, FitsSame
      <4> QED BY <3>1, <4>2 DEF OnDisc
    <3>3. CASE ide.drive # 0
      BY <3>1, <3>3 DEF OnDisc
    <3> QED BY <3>2, <3>3
  <2>8. BufferWords(j) = Append(words, One)
    <3>1. BufferWords(j) = Sofar(s)
      BY <2>1, <2>5 DEF BufferWords, Sofar
    <3> QED BY <1>6, <3>1
  <2>9. Len(words) + 1 = BlockSize /\ Sofar(ide) = words
    BY <1>3, <1>6, <2>1 DEF words
  <2>10. Take(callbackide(j, TRUE))
    BY <1>4, <2>2
  <2> QED BY <1>1, <1>6, <2>4, <2>5, <2>6, <2>7, <2>8, <2>9, <2>10, BlockXfer
<1> QED BY <1>7, <1>8

LEMMA PacketWordXfer ==
    ASSUME IdeInv, guest = "data", ide.command = "PACKETCMD", ide.packetstatus \in {0, 4}, NEW w \in Cells,
           Take(writeidew(ide, w))
    PROVE  BD!Next
<1> DEFINE s == StoredWord(ide, w)
           o == writeidew(ide, w)
<1>1. ide \in Registers /\ ide.pos \in Nat /\ ide.pos < BlockSize
  BY DataFacts
<1>2. s \in Registers /\ Rest(ide, s) /\ s.packetstatus = ide.packetstatus
  BY <1>1, StoredType
<1>3. s.command = "PACKETCMD" /\ Take(o)
  BY <1>2 DEF Rest
<1> HIDE DEF s
<1>4. \E j : (\E cb, q : o = Out(j, cb, q, disc)) /\ j.command = "PACKETCMD" /\ j.packetstatus # 6
  <2>1. CASE ide.packetstatus = 0
    <3> DEFINE j == [s EXCEPT !.pos = 0, !.atastat = "BUSY", !.packetstatus = 1]
    <3>1. o = Out(j, TRUE, ideirq, disc)
      BY <2>1 DEF writeidew, s
    <3>2. j.command = s.command /\ j.packetstatus = 1
      BY <1>2 DEF Registers
    <3> HIDE DEF j, o
    <3>3. j.command = "PACKETCMD" /\ j.packetstatus # 6
      BY <1>3, <3>2
    <3> QED BY <3>1, <3>3
  <2>2. CASE ide.packetstatus = 4 /\ s.pos >= ide.packlen + 1
    <3> DEFINE j == [s EXCEPT !.packetstatus = 5]
    <3>1. o = Out(j, TRUE, FALSE, disc)
      BY <2>2 DEF writeidew, s
    <3>2. j.command = s.command /\ j.packetstatus = 5
      BY <1>2 DEF Registers
    <3> HIDE DEF j, o
    <3>3. j.command = "PACKETCMD" /\ j.packetstatus # 6
      BY <1>3, <3>2
    <3> QED BY <3>1, <3>3
  <2>3. CASE ide.packetstatus = 4 /\ ~(s.pos >= ide.packlen + 1)
    <3>1. o = Out(s, idecallback, ideirq, disc)
      BY <2>3 DEF writeidew, s
    <3> HIDE DEF o
    <3>2. s.packetstatus # 6
      BY <1>2, <2>3
    <3> QED BY <1>3, <3>1, <3>2
  <2> QED BY <2>1, <2>2, <2>3
<1>5. PICK j, cb, q : o = Out(j, cb, q, disc) /\ j.command = "PACKETCMD" /\ j.packetstatus # 6
  BY <1>4
<1> HIDE DEF o
<1>6. ide' = j /\ disc' = disc
  BY <1>3, <1>5 DEF Take, Out
<1>7. XferOf(j) = BD!NoXfer
  BY <1>5, OtherNone
<1> QED BY <1>6, <1>7, Abandoned

(* Every step of the channel is one of the block device, or none.           *)
LEMMA ChannelStep == ASSUME IdeInv, [IdeNext]_idevars PROVE [BD!Next]_<<disc, Xfer>>
<1>1. CASE ide' = ide /\ disc' = disc
  <2>1. Xfer' = Xfer
    BY <1>1, XferNow
  <2> QED BY <1>1, <2>1
<1>2. CASE ReadWord
  <2>1. guest = "data" /\ ~Writing /\ Take(readidew(ide))
    BY <1>2 DEF ReadWord
  <2>2. BD!Next
    BY <2>1, ReadOnXfer, ReadEndXfer
  <2> QED BY <2>2
<1>3. CASE WriteWord
  <2>1. guest = "data" /\ Writing
    BY <1>3 DEF WriteWord
  <2>2. CASE ide.command \in {"WRITE", "FORMAT"}
    <3>1. Take(writeidew(ide, One))
      BY <1>3, <2>2 DEF WriteWord
    <3> QED BY <2>1, <2>2, <3>1, DiscWordXfer
  <2>3. CASE ide.command = "PACKETCMD" /\ ide.packetstatus \in {0, 4}
    <3>1. PICK w \in Packets \cup {One} : Take(writeidew(ide, w))
      BY <1>3 DEF WriteWord
    <3>2. w \in Cells
      BY DEF Cells, Words
    <3> QED BY <2>1, <2>3, <3>1, <3>2, PacketWordXfer
  <2> QED BY <2>1, <2>2, <2>3 DEF Writing
<1>4. CASE StartTransfer \/ StartOther \/ Specify
  BY <1>4, StartXfer
<1>5. CASE SoftReset \/ resetide
  BY <1>5, ResetXfer
<1>6. CASE Callback
  BY <1>6, CallbackXfer
<1>7. CASE Interrupt \/ Polled \/ UNCHANGED idevars
  <2>1. ide' = ide /\ disc' = disc
    BY <1>7 DEF Interrupt, Polled, idevars
  <2> QED BY <1>1, <2>1
<1> QED BY <1>2, <1>3, <1>4, <1>5, <1>6, <1>7 DEF IdeNext

(* Each transfer moves the blocks that the registers name when its command is *)
(* given, in order and word by word, and touches no other: carries from       *)
(* sector to head to cylinder, changed geometry and drives, aborted commands  *)
(* and resets included.                                                       *)
THEOREM ChannelIsABlockDevice == ASSUME ~Abandons PROVE IdeSpec => Transfers
<1>1. IdeInit => BD!Init
  BY DEF BD!Init, BD!NoXfer, Xfer, XferOf, IdeInit, BD!Zeros, Zeros
<1>2. IdeInv /\ [IdeNext]_idevars => [BD!Next]_<<disc, Xfer>>
  BY ChannelStep
<1>3. IdeSpec => BD!Init /\ [][BD!Next]_<<disc, Xfer>>
  BY <1>1, <1>2, ChannelKept, PTL DEF IdeSpec
<1>4. BD!Init /\ [][BD!Next]_<<disc, Xfer>> => Transfers
  BY DEF Transfers, BD!Spec
<1> QED BY <1>3, <1>4
=============================================================================
