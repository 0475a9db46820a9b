-------------------------------- MODULE Iomd --------------------------------
(***************************************************************************)
(* The interrupts and timers of iomd.c under the two threads that drive     *)
(* them: the machine thread, which runs the guest and calls gentimerirq     *)
(* when enough time has passed, and the video thread, which calls it after  *)
(* every picture.  Nothing is locked.  Each read and each write of a word   *)
(* both threads write (the A status, armirq, the counters) is a step of its *)
(* own; |= and &= are a read and a write.                                   *)
(***************************************************************************)
EXTENDS IrqLines

CONSTANTS
    Timers,         \* the timers, by the name of their interrupt bit
    Asking,         \* the bits of the other devices, and of the flyback
    Latches,        \* the values of in_latch
    Tick,           \* what a call of gentimerirq counts down, 4000
    Floor           \* where a timer without a latch is held, far below zero
ASSUME TimerAssumption == /\ Timers \subseteq Of("A") /\ Timers # {} /\ "none" \notin Timers
                          /\ Asking \subseteq Bits \ Timers /\ Latches \subseteq Nat
ASSUME TickAssumption == Tick \in Nat \ {0} /\ Floor \in Int /\ Floor < -Tick

VARIABLES
    counter, latch, \* t0 and t1
    threads,        \* where each thread is
    aborts          \* the abort the machine thread's instruction has met

ivars == <<counter, latch, threads, aborts>>

(* In a thread's record timer is the one it works on, seen and word what it *)
(* has read, bits what it will set (raise) or clear (clear).                *)
AtRest == [pc |-> "idle", timer |-> "none", seen |-> 0, word |-> {}, bits |-> {}]

IomdInit ==
    /\ counter = [t \in Timers |-> 1]
    /\ latch = [t \in Timers |-> 1]
    /\ threads = [th \in {"machine", "video"} |-> AtRest]
    /\ aborts = FALSE

Goto(th, pc) == threads' = [threads EXCEPT ![th].pc = pc]
At(th, pc) == threads[th].pc = pc

\* The next timer after t: any order is as good as another.
NextTimer(t) == IF t = "none" THEN CHOOSE u \in Timers : TRUE
                ELSE IF t = (CHOOSE u \in Timers : TRUE) /\ Timers # {t}
                     THEN CHOOSE u \in Timers : u # t
                     ELSE "none"
-----------------------------------------------------------------------------
(* gentimerirq *)

gentimerirq(th) ==
    /\ At(th, "idle")
    /\ threads' = [threads EXCEPT ![th].pc = "sub", ![th].timer = NextTimer("none")]
    /\ UNCHANGED <<counter, latch, aborts, lines>>

SubLoad(th) ==
    /\ At(th, "sub")
    /\ threads' = [threads EXCEPT ![th].pc = "subtract", ![th].seen = counter[threads[th].timer]]
    /\ UNCHANGED <<counter, latch, aborts, lines>>

\* Mutant of SubStore: a timer at zero is not counted down.
SubStore_StopsAtZero(th) ==
    /\ At(th, "subtract")
    /\ counter' = [counter EXCEPT ![threads[th].timer] =
                     IF threads[th].seen <= 0 THEN threads[th].seen ELSE threads[th].seen - Tick]
    /\ threads' = [threads EXCEPT ![th].pc = "while", ![th].seen = 0]
    /\ UNCHANGED <<latch, aborts, lines>>

SubStore(th) ==
    /\ At(th, "subtract")
    /\ counter' = [counter EXCEPT ![threads[th].timer] =
                     IF threads[th].seen - Tick < Floor THEN Floor ELSE threads[th].seen - Tick]
    /\ threads' = [threads EXCEPT ![th].pc = "while", ![th].seen = 0]
    /\ UNCHANGED <<latch, aborts, lines>>

\* The condition of the while, and the next timer or the end when it is false.
While(th) ==
    /\ At(th, "while")
    /\ LET t == threads[th].timer IN
       \/ /\ counter[t] < 0 /\ latch[t] # 0
          /\ threads' = [threads EXCEPT ![th].pc = "add", ![th].seen = counter[t]]
       \/ /\ ~(counter[t] < 0 /\ latch[t] # 0)
          /\ threads' = [threads EXCEPT ![th] =
                [AtRest EXCEPT !.timer = NextTimer(t), !.pc = IF NextTimer(t) = "none" THEN "idle" ELSE "sub"]]
    /\ UNCHANGED <<counter, latch, aborts, lines>>

AddStore(th) ==
    /\ At(th, "add")
    /\ LET t == threads[th].timer IN
       /\ counter' = [counter EXCEPT ![t] = threads[th].seen + latch[t]]
       /\ threads' = [threads EXCEPT ![th].pc = "raise", ![th].seen = 0, ![th].bits = {t}]
    /\ UNCHANGED <<latch, aborts, lines>>

\* |= or &= on the A status.
StatusLoad(th) ==
    /\ At(th, "raise") \/ At(th, "clear")
    /\ threads' = [threads EXCEPT ![th].pc = IF @ = "raise" THEN "raised" ELSE "cleared",
                                  ![th].word = status \cap Of("A")]
    /\ UNCHANGED <<counter, latch, aborts, lines>>

StatusStore(th) ==
    /\ At(th, "raised") \/ At(th, "cleared")
    /\ LET r == threads[th]
           word == IF r.pc = "raised" THEN r.word \cup r.bits
                   ELSE (r.word \ r.bits) \cup (Forced \cap Of("A"))
       IN status' = (status \ Of("A")) \cup word
    /\ threads' = [threads EXCEPT ![th].pc = "irq", ![th].word = {}, ![th].bits = {}]
    /\ UNCHANGED <<mask, armirq, counter, latch, aborts>>

\* Mutant of UpdateLoad: a line that asks no more stays set.
UpdateLoad_OnlySets(th) ==
    /\ \E line \in {"irq", "fiq"} :
         /\ At(th, line)
         /\ threads' = [threads EXCEPT ![th].pc = IF line = "irq" THEN "irqstore" ELSE "fiqstore",
                ![th].word = IF Pending(line) THEN armirq \cup {line} ELSE armirq]
    /\ UNCHANGED <<counter, latch, aborts, lines>>

\* updateirqs: bit 0 and then bit 1 of armirq.
UpdateLoad(th) ==
    /\ \E line \in {"irq", "fiq"} :
         /\ At(th, line)
         /\ threads' = [threads EXCEPT ![th].pc = IF line = "irq" THEN "irqstore" ELSE "fiqstore",
                ![th].word = IF Pending(line) THEN armirq \cup {line} ELSE armirq \ {line}]
    /\ UNCHANGED <<counter, latch, aborts, lines>>

UpdateStore(th) ==
    /\ At(th, "irqstore") \/ At(th, "fiqstore")
    /\ armirq' = threads[th].word
    /\ threads' = [threads EXCEPT ![th].word = {},
          ![th].pc = IF @ = "irqstore" THEN "fiq" ELSE IF threads[th].timer = "none" THEN "idle" ELSE "while"]
    /\ UNCHANGED <<status, mask, counter, latch, aborts>>

ThreadStep(th) ==
    \/ SubLoad(th) \/ SubStore(th) \/ While(th) \/ AddStore(th)
    \/ StatusLoad(th) \/ StatusStore(th) \/ UpdateLoad(th) \/ UpdateStore(th)
-----------------------------------------------------------------------------
(* The guest and the devices, in the machine thread. *)

GuestAt == At("machine", "idle")

\* IRQRQA, and register 0x314 of the IOMD2 for the bits of A.
WriteIrqRqA ==
    /\ GuestAt
    /\ \E bits \in SUBSET ((Timers \cup Asking) \cap Of("A")) :
         threads' = [threads EXCEPT !["machine"].pc = "clear", !["machine"].bits = bits]
    /\ UNCHANGED <<counter, latch, aborts, lines>>

\* The masks of A and B are followed by updateirqs, the others are not.
WriteMask ==
    /\ GuestAt
    /\ \E g \in {"A", "B", "D", "DMA", "FIQ"}, bits \in SUBSET (Timers \cup Asking) :
         /\ bits \subseteq Of(g)
         /\ mask' = (mask \ Of(g)) \cup bits
         /\ Goto("machine", IF g \in {"A", "B"} THEN "irq" ELSE "idle")
    /\ UNCHANGED <<status, armirq, counter, latch, aborts>>

\* A device other than the timers, or the flyback, asks or is answered.
Device ==
    /\ GuestAt
    /\ \E b \in Asking :
         IF b \in Of("A")
         THEN /\ threads' = [threads EXCEPT !["machine"].pc = "raise", !["machine"].bits = {b}]
              /\ UNCHANGED status
         ELSE /\ status' \in {status \cup {b}, (status \ {b}) \cup Forced}
              /\ Goto("machine", "irq")
    /\ UNCHANGED <<mask, armirq, counter, latch, aborts>>

WriteLatch ==       \* T0LOW, T0HIGH and T1LOW, T1HIGH
    /\ GuestAt
    /\ \E t \in Timers, v \in Latches : latch' = [latch EXCEPT ![t] = v]
    /\ UNCHANGED <<counter, threads, aborts, lines>>

WriteGo ==          \* T0GO, T1GO
    /\ GuestAt
    /\ \E t \in Timers : counter' = [counter EXCEPT ![t] = latch[t] - 1]
    /\ UNCHANGED <<latch, threads, aborts, lines>>

\* T0LAT, T1LAT: every other one counts by one, so that a loop on the timer ends.
WriteLat ==
    /\ GuestAt
    /\ \E t \in Timers :
         LET c == counter[t] - 1
         IN counter' = [counter EXCEPT ![t] = IF c < Floor THEN Floor ELSE IF c < 0 THEN c + latch[t] ELSE c]
    /\ UNCHANGED <<latch, threads, aborts, lines>>

\* A load or a store faults: armirq |= 0x40, and &= ~0xc0 when the exception is taken.
Abort ==
    /\ GuestAt /\ ~aborts
    /\ aborts' = TRUE
    /\ threads' = [threads EXCEPT !["machine"].pc = "abort", !["machine"].word = armirq \cup {"abort"}]
    /\ UNCHANGED <<counter, latch, lines>>

\* A fault another thread has overwritten is not taken: the instruction counts as done.
EndOfInstruction ==
    /\ GuestAt /\ aborts
    /\ aborts' = FALSE
    /\ \/ /\ "abort" \in armirq
          /\ threads' = [threads EXCEPT !["machine"].pc = "abort", !["machine"].word = armirq \ {"abort"}]
       \/ /\ "abort" \notin armirq
          /\ UNCHANGED threads
    /\ UNCHANGED <<counter, latch, lines>>

AbortStore ==
    /\ At("machine", "abort")
    /\ armirq' = threads["machine"].word
    /\ threads' = [threads EXCEPT !["machine"] = AtRest]
    /\ UNCHANGED <<status, mask, counter, latch, aborts>>

\* Between a fault and the end of its instruction nothing else runs in this thread.
MachineNext ==
    \/ ThreadStep("machine") \/ AbortStore \/ EndOfInstruction
    \/ ~aborts /\ (gentimerirq("machine") \/ WriteIrqRqA \/ WriteMask \/ Device
                   \/ WriteLatch \/ WriteGo \/ WriteLat \/ Abort)

VideoNext == gentimerirq("video") \/ ThreadStep("video")

IomdNext == MachineNext \/ VideoNext
=============================================================================
