------------------------------ MODULE Ps2Queue ------------------------------
(***************************************************************************)
(* What the keyboard and the mouse of keyboard.c share: the ring buffer     *)
(* of bytes waiting to be shifted out, of which only the pointers and the   *)
(* count are kept, and the interrupt bits they set.                         *)
(* Raise and Lower stand for the status bits of the IOMD and for those of   *)
(* the i8042 on a Phoebe: one receive and one transmit bit per device.      *)
(***************************************************************************)
EXTENDS Naturals

CONSTANT Size       \* PS2_QUEUE_SIZE, 256 in the program
ASSUME SizeAssumption == Size \in Nat \ {0}

VARIABLE irq        \* the interrupt bits raised

Sources == {"KEYBOARD_RX", "KEYBOARD_TX", "MOUSE_RX", "MOUSE_TX"}

Raise(source) == irq' = irq \cup {source}
Lower(source) == irq' = irq \ {source}

EmptyQueue == [rptr |-> 0, wptr |-> 0, count |-> 0]

Successor(i) == IF i + 1 = Size THEN 0 ELSE i + 1

\* A byte is stored where wptr points and wptr moves on; count is the caller's.
Stored(q) == [q EXCEPT !.wptr = Successor(@)]

\* ps2_queue n times, by a caller nothing comes between.
ps2_queue(q, n) ==
    LET fits == IF q.count + n > Size THEN Size - q.count ELSE n
    IN [q EXCEPT !.wptr = (@ + fits) % Size, !.count = @ + fits]
=============================================================================
