------------------------------- MODULE Mouse -------------------------------
(***************************************************************************)
(* The PS/2 mouse of keyboard.c.  The guest writes commands and reads       *)
(* replies in the machine thread, which also counts mcallback down (by ten: *)
(* the delays 20 and 40 are 2 and 4 counts) and runs the callback.  The     *)
(* window never captures the mouse (mousehack is 1 in rpcemu.h), so no      *)
(* other thread comes here: movements go to the pointer calls of MouseHack. *)
(***************************************************************************)
EXTENDS Ps2Queue

CONSTANTS
    Resend,         \* the counts of the delay 150, 15 in the program
    Rates           \* the bytes the guest sends after SET_SAMPLE and SET_RES
ASSUME MouseAssumption == Resend \in Nat \ {0}

VARIABLES
    ms,             \* reset, stat, command, poll, justsent, type, detect, and
                    \* known: was the byte written last one the mouse knows?
    mcallback,
    msqueue,
    calling         \* the machine thread is about to run the callback

mvars == <<ms, mcallback, msqueue, calling>>

MouseReset == [reset |-> 0, stat |-> {}, command |-> "none", poll |-> FALSE,
               justsent |-> FALSE, type |-> 0, detect |-> 0, known |-> TRUE]

MouseInit ==
    /\ ms = MouseReset
    /\ mcallback = 0
    /\ msqueue = EmptyQueue
    /\ calling = FALSE

-----------------------------------------------------------------------------
(* The count and the callback. *)

MouseCount ==
    /\ ~calling
    /\ mcallback # 0
    /\ mcallback' = mcallback - 1
    /\ calling' = (mcallback = 1)
    /\ UNCHANGED <<ms, msqueue, irq>>

\* mouse_send, with the flags the callback has just set.
Send(reset) ==
    ms' = [ms EXCEPT !.reset = reset, !.justsent = FALSE,
                     !.stat = (@ \ {"TX_BUSY"}) \cup {"TX_EMPTY", "RX_FULL"}]

Idle(reset) ==
    ms' = [ms EXCEPT !.reset = reset, !.justsent = FALSE, !.stat = (@ \ {"TX_BUSY"}) \cup {"TX_EMPTY"}]

Transmitted == IF ms.justsent THEN {"MOUSE_TX"} ELSE {}

\* With no reset in progress nothing is sent: the call that would empty the queue is commented out.
mouse_ps2_callback ==
    /\ calling
    /\ calling' = FALSE
    /\ \/ /\ ms.reset = 1
          /\ Idle(3)
          /\ irq' = irq \cup {"MOUSE_TX"}
          /\ mcallback' = 2
       \/ /\ ms.reset = 2
          /\ Send(3)
          /\ irq' = irq \cup Transmitted \cup {"MOUSE_RX"}
          /\ mcallback' = 4
       \/ /\ ms.reset = 3
          /\ Send(4)
          /\ irq' = irq \cup Transmitted \cup {"MOUSE_RX"}
          /\ mcallback' = 2
       \/ /\ ms.reset = 4
          /\ Send(0)
          /\ irq' = irq \cup Transmitted \cup {"MOUSE_RX"}
          /\ mcallback' = 0
       \/ /\ ms.reset = 0
          /\ Idle(0)
          /\ irq' = irq \cup Transmitted
          /\ UNCHANGED mcallback
    /\ UNCHANGED msqueue

MouseCallback == MouseCount \/ mouse_ps2_callback
-----------------------------------------------------------------------------
(* The guest. *)

\* Enabling resets; the ENABLE flag itself is only read back by the guest.
mouse_control_write ==
    /\ ~calling
    /\ ms' = [ms EXCEPT !.reset = 1]
    /\ mcallback' = 2
    /\ UNCHANGED <<msqueue, calling, irq>>

\* The flags of a byte on its way, and the interrupt of the one before it.
Sending == [ms EXCEPT !.stat = (@ \ {"TX_EMPTY"}) \cup {"TX_BUSY"},
                      !.justsent = TRUE, !.known = TRUE]

Knock(rate) ==
    IF ms.detect = 0 /\ rate = 200 THEN 1
    ELSE IF ms.detect = 1 /\ rate = 100 THEN 2
    ELSE IF ms.detect = 1 /\ rate = 200 THEN 3
    ELSE 0
Knocked(rate) ==
    IF ms.detect = 2 /\ rate = 80 THEN 3 ELSE IF ms.detect = 3 /\ rate = 80 THEN 4 ELSE ms.type

\* Mutant: the argument's acknowledgement is not called for.
Argument_NoCallback(val) ==
    /\ ms.command # "none"
    /\ ms' = [Sending EXCEPT !.command = "none"]
    /\ msqueue' = ps2_queue(msqueue, 1)
    /\ UNCHANGED mcallback

\* The byte after SET_RES or SET_SAMPLE, whatever it is, is that command's argument.
Argument(val) ==
    /\ ms.command # "none"
    /\ \/ /\ ms.command = "SET_RES"
          /\ ms' = [Sending EXCEPT !.command = "none"]
       \/ /\ ms.command = "SET_SAMPLE"
          /\ ms' = [Sending EXCEPT !.command = "none", !.detect = Knock(val), !.type = Knocked(val)]
    /\ msqueue' = ps2_queue(msqueue, 1)
    /\ mcallback' = 2

Order(val) ==
    /\ ms.command = "none"
    /\ \/ /\ val = "RESET"
          /\ ms' = [Sending EXCEPT !.reset = 2, !.poll = FALSE]
          /\ mcallback' = 2
          /\ UNCHANGED msqueue
       \/ /\ val = "RESEND"
          /\ ms' = Sending
          /\ mcallback' = Resend
          /\ UNCHANGED msqueue
       \/ /\ val = "ENABLE_DEV"
          /\ ms' = [Sending EXCEPT !.poll = TRUE]
          /\ msqueue' = ps2_queue(msqueue, 1)
          /\ mcallback' = 2
       \/ /\ val \in {"SET_SAMPLE", "SET_RES"}
          /\ ms' = [Sending EXCEPT !.command = val]
          /\ msqueue' = ps2_queue(msqueue, 1)
          /\ mcallback' = 2
       \/ /\ val = "GET_TYPE"
          /\ ms' = Sending
          /\ msqueue' = ps2_queue(msqueue, 2)
          /\ mcallback' = 2
       \/ /\ val = "SET_SCALE"
          /\ ms' = Sending
          /\ msqueue' = ps2_queue(msqueue, 1)
          /\ mcallback' = 2
       \/ /\ val = "UNKNOWN"         \* fatal only prints
          /\ ms' = [Sending EXCEPT !.known = FALSE]
          /\ UNCHANGED <<mcallback, msqueue>>

Orders == {"RESET", "RESEND", "ENABLE_DEV", "SET_SAMPLE", "SET_RES", "GET_TYPE", "SET_SCALE", "UNKNOWN"}

mouse_data_write ==
    /\ ~calling
    /\ Lower("MOUSE_TX")
    /\ \/ \E val \in Rates : Argument(val)
       \/ \E val \in Orders : Order(val)
    /\ UNCHANGED calling

\* Mutant: the byte stays in the register when it is read.
mouse_data_read_KeepsFull ==
    /\ ~calling
    /\ "MOUSE_RX" \in irq
    /\ Lower("MOUSE_RX")
    /\ mcallback' = IF msqueue.count # 0 THEN 2 ELSE mcallback
    /\ UNCHANGED <<ms, msqueue, calling>>

mouse_data_read ==
    /\ ~calling
    /\ "MOUSE_RX" \in irq
    /\ ms' = [ms EXCEPT !.stat = @ \ {"RX_FULL"}]
    /\ Lower("MOUSE_RX")
    /\ mcallback' = IF msqueue.count # 0 THEN 2 ELSE mcallback
    /\ UNCHANGED <<msqueue, calling>>

\* The mouse's part of keyboard_reset.
mouse_reset ==
    /\ ~calling
    /\ mcallback' = 0
    /\ msqueue' = EmptyQueue
    /\ ms' = MouseReset
    /\ irq' = irq \ {"MOUSE_RX", "MOUSE_TX"}
    /\ UNCHANGED calling

MouseNext ==
    \/ MouseCallback \/ mouse_control_write \/ mouse_data_write \/ mouse_data_read \/ mouse_reset
=============================================================================
