------------------------------ MODULE Podules ------------------------------
(***************************************************************************)
(* The expansion cards of podules.c: slots, the interrupt lines of a card   *)
(* and of all cards together, and the cards' timers.  A card's own handlers *)
(* are not part of the system: called, they may change the card's lines.    *)
(***************************************************************************)
EXTENDS IrqLines

CONSTANTS Slots,        \* 8
          Elapsed,      \* the argument of runpoduletimers, 2
          Periods       \* what a timer callback returns
ASSUME PodulesAssumption == /\ Slots \in Nat \ {0} /\ Elapsed \in Nat /\ Periods \subseteq Nat \ {0}
                            /\ {"PODULE", "PODULE_FIQ_AS_IRQ", "FIQ_PODULE"} \subseteq Bits

VARIABLES podules, freepodule,
          running       \* the slot runpoduletimers works on, and whether it is in its while

pvars == <<podules, freepodule, running>>

Empty == [timer |-> FALSE, irq |-> FALSE, fiq |-> FALSE, msectimer |-> 0]
Card(n) == podules[n]

PodulesInit ==
    /\ podules = [n \in 0 .. Slots - 1 |-> Empty]
    /\ freepodule = 0 /\ running = [slot |-> Slots, again |-> FALSE]

\* The interrupt bits that podules p ask for.
Wanted(p) == {b \in {"PODULE"} : \E n \in DOMAIN p : p[n].irq}
             \cup {b \in {"PODULE_FIQ_AS_IRQ", "FIQ_PODULE"} : \E n \in DOMAIN p : p[n].fiq}

rethinkpoduleints(p) ==
    Update((status \ {"PODULE", "PODULE_FIQ_AS_IRQ", "FIQ_PODULE"}) \cup Wanted(p))

\* Mutant of Handled: only the IRQ line is compared.
Handled_IgnoresFiq(n, card) ==
    LET p == [podules EXCEPT ![n] = card] IN
    /\ podules' = p
    /\ IF card.irq # Card(n).irq THEN rethinkpoduleints(p) ELSE UNCHANGED lines

\* The interrupts are thought over when the handler has changed a line of its card.
Handled(n, card) ==
    LET p == [podules EXCEPT ![n] = card] IN
    /\ podules' = p
    /\ IF card.irq # Card(n).irq \/ card.fiq # Card(n).fiq THEN rethinkpoduleints(p) ELSE UNCHANGED lines

-----------------------------------------------------------------------------
addpodule ==
    /\ freepodule < Slots           \* else NULL is returned
    /\ freepodule' = freepodule + 1
    /\ \E timer \in BOOLEAN : podules' = [podules EXCEPT ![freepodule].timer = timer]
    /\ UNCHANGED <<running, lines>>

\* A read or a write of any width.  A slot without the handler is not asked.
access ==
    /\ \E n \in 0 .. freepodule - 1, i, f \in BOOLEAN, m \in {0} \cup Periods :
         Handled(n, [Card(n) EXCEPT !.irq = i, !.fiq = f, !.msectimer = IF Card(n).timer THEN m ELSE @])
    /\ UNCHANGED <<freepodule, running>>

\* runpoduletimers, from the slot after that of the extension ROMs.
StartTimers ==
    /\ running' = [slot |-> 1, again |-> FALSE]
    /\ UNCHANGED <<podules, freepodule, lines>>

NextSlot == [slot |-> running.slot + 1, again |-> FALSE]

CountTimer ==
    LET n == running.slot IN
    /\ n < Slots /\ ~running.again
    /\ IF Card(n).timer /\ Card(n).msectimer # 0
       THEN /\ podules' = [podules EXCEPT ![n].msectimer = @ - Elapsed]
            /\ running' = [running EXCEPT !.again = TRUE]
       ELSE running' = NextSlot /\ UNCHANGED podules
    /\ UNCHANGED <<freepodule, lines>>

\* The callback says when it wants to be called again, or never.
CallTimer ==
    LET n == running.slot IN
    /\ n < Slots /\ running.again /\ Card(n).msectimer <= 0
    /\ \E d \in {0} \cup Periods, i, f \in BOOLEAN :
         /\ Handled(n, [Card(n) EXCEPT !.irq = i, !.fiq = f, !.msectimer = IF d = 0 THEN 0 ELSE @ + d])
         /\ running' = IF d = 0 THEN NextSlot ELSE running
    /\ UNCHANGED freepodule

DoneTimer ==
    /\ running.slot < Slots /\ running.again /\ Card(running.slot).msectimer > 0
    /\ running' = NextSlot
    /\ UNCHANGED <<podules, freepodule, lines>>

runpoduletimers == CountTimer \/ CallTimer \/ DoneTimer

\* Every slot is emptied; the machine resets the IOMD before (main).
podules_reset ==
    /\ podules' = [n \in 0 .. Slots - 1 |-> Empty]
    /\ freepodule' = 0
    /\ status' = Forced /\ mask' = {} /\ UNCHANGED <<armirq, running>>

GuestMask ==
    /\ \E m \in SUBSET (Of("B") \ {"SMI"}) : mask' = m \cup (mask \ Of("B")) /\ armirq' = Updated(status, mask', armirq)
    /\ UNCHANGED <<status, pvars>>

PodulesNext ==
    \/ running.slot = Slots /\ (addpodule \/ access \/ StartTimers \/ podules_reset \/ GuestMask)
    \/ runpoduletimers
=============================================================================
