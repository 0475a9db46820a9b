------------------------------- MODULE Floppy -------------------------------
(***************************************************************************)
(* What the floppy controller promises its guest. A reset brings it to     *)
(* idle; a command byte and its parameters start an execution. A transfer  *)
(* moves the bytes of the disc from the first sector named to the last,    *)
(* each once and in order, one DMA request for each, until the guest ends  *)
(* it. Then the results of the command are offered one after another, and  *)
(* with the last one read the controller is idle again.                    *)
(*                                                                         *)
(* A reset may also be on its way while the guest goes on. Commands,       *)
(* parameters and reads of results are then taken as ever, but nothing is  *)
(* executed, and when the reset comes all of it is forgotten. Fdc          *)
(* implements this.                                                        *)
(***************************************************************************)
EXTENDS FdcTypes

VARIABLES
    phase,      \* "reset", "silent", "idle", "parameters", "execution" or "results"
    doomed,     \* a reset is on its way
    cmd, args,  \* the command and its parameters
    left,       \* parameters to come
    offer,      \* a result can be read
    sent,       \* results offered so far
    fifo,       \* the last one
    request,    \* a DMA request is up
    latch,      \* the byte the DMA moves
    full,       \* the latch holds a byte for the disc
    over,       \* no further byte is moved
    moved,      \* bytes moved
    disc

command  == <<cmd, args, left>>
answer   == <<offer, sent, fifo>>
transfer == <<request, latch, full, over, moved>>
vars     == <<phase, doomed, command, answer, transfer, disc>>

\* The bytes from sector args[3] to args[5]; the first sector in any case.
Total == (IF args[5] > args[3] THEN args[5] - args[3] + 1 ELSE 1) * Size

\* The byte of the disc that is n bytes behind the first.
At(d, n)       == d[0][args[1]][args[3] + n \div Size][n % Size]
With(d, n, v)  == Stored(d, 0, args[1], args[3] + n \div Size, n % Size, v)

ResultsOf(c) ==
    CASE c = "SENSE_DRIVE_STATUS"     -> <<"st3">>
      [] c = "SENSE_INTERRUPT_STATUS" -> <<"st0", "track">>
      [] c = "FORMAT_TRACK"           -> <<"st0", "st1", "st2", "zero", "zero", "zero", "zero">>
      [] c \in {"READ_DATA", "WRITE_DATA", "VERIFY_DATA", "READ_ID"} ->
            <<"st0", "st1", "st2", "track", "head", "sector", "size">>
      [] c \in {"SPECIFY", "RECALIBRATE", "SEEK", "CONFIGURE", "DUMPREG", "READ_ID_FM"} -> << >>

NoTransfer == request' = FALSE /\ full' = FALSE /\ over' = FALSE /\ moved' = 0 /\ latch' = latch
NoAnswer   == offer' = FALSE /\ sent' = 0 /\ fifo' = fifo

Init ==
    /\ phase = "silent" /\ doomed = FALSE /\ cmd = "none" /\ args = [i \in 0 .. 9 |-> 0] /\ left = 0
    /\ offer = FALSE /\ sent = 0 /\ fifo = "zero"
    /\ request = FALSE /\ latch = 0 /\ full = FALSE /\ over = FALSE /\ moved = 0
    /\ disc = [d \in 0 .. 1 |-> [t \in Tracks |-> [s \in Sectors |-> [n \in 0 .. Size - 1 |-> 0]]]]

\* A reset at any time, and its end. If the guest waits for it, what was to be
\* read or sent is gone at once.
Reset ==
    /\ ~request /\ doomed' = TRUE /\ NoTransfer
    /\ \/ phase' = "reset" /\ NoAnswer /\ left' = 0
       \/ phase # "reset" /\ UNCHANGED <<phase, answer, left>>
    /\ UNCHANGED <<cmd, args, disc>>
Ready ==
    /\ doomed /\ doomed' = FALSE
    /\ phase' = "idle" /\ NoAnswer /\ left' = 0
    /\ UNCHANGED <<cmd, args, transfer, disc>>

\* DUMPREG is refused, and leaves the controller idle.
Begin(c) ==
    /\ phase = "idle" /\ cmd' = c /\ left' = ParametersOf(c)
    /\ phase' = IF c = "DUMPREG" THEN "idle" ELSE IF left' > 0 THEN "parameters" ELSE "execution"
    /\ fifo' = IF c = "DUMPREG" THEN "st0" ELSE fifo
    /\ UNCHANGED <<doomed, args, offer, sent, transfer, disc>>

\* A density that is not the disc's is found when the parameters are there.
Parameter(v) ==
    /\ phase = "parameters"
    /\ left' = left - 1
    /\ args' = [args EXCEPT ![ParametersOf(cmd) - left] = v]
    /\ IF left' > 0 THEN UNCHANGED <<phase, cmd>>
       ELSE phase' = "execution" /\ (cmd' = cmd \/ (cmd = "READ_ID" /\ cmd' = "READ_ID_FM"))
    /\ UNCHANGED <<doomed, answer, transfer, disc>>

\* Nothing is executed while a reset is on its way.
\* Commands without results: after a read at the wrong density the
\* controller waits for a reset.
Done ==
    /\ phase = "execution" /\ ~doomed /\ ResultsOf(cmd) = << >>
    /\ phase' = IF cmd = "READ_ID_FM" THEN "silent" ELSE "idle"
    /\ UNCHANGED <<doomed, command, answer, transfer, disc>>

\* A byte comes from the disc, and the guest takes it.
Fetch ==
    /\ phase = "execution" /\ ~doomed /\ cmd = "READ_DATA" /\ ~request /\ ~over
    /\ request' = TRUE /\ latch' = At(disc, moved) /\ moved' = moved + 1
    /\ UNCHANGED <<phase, doomed, command, answer, full, over, disc>>
Take(tc) ==
    /\ phase = "execution" /\ ~doomed /\ cmd = "READ_DATA" /\ request
    /\ request' = FALSE /\ over' = (tc \/ moved = Total)
    /\ moved' = IF over' THEN 0 ELSE moved
    /\ UNCHANGED <<phase, doomed, command, answer, latch, full, disc>>

\* A byte is asked for, the guest brings it, and it is stored.
Ask ==
    /\ phase = "execution" /\ ~doomed /\ cmd = "WRITE_DATA" /\ ~request /\ ~full /\ ~over
    /\ request' = TRUE
    /\ UNCHANGED <<phase, doomed, command, answer, latch, full, over, moved, disc>>
Bring(v, tc) ==
    /\ phase = "execution" /\ ~doomed /\ cmd = "WRITE_DATA" /\ request
    /\ request' = FALSE /\ latch' = v /\ full' = TRUE /\ over' = tc
    /\ UNCHANGED <<phase, doomed, command, answer, moved, disc>>
Store ==
    /\ phase = "execution" /\ ~doomed /\ cmd = "WRITE_DATA" /\ full
    /\ disc' = With(disc, moved, latch) /\ full' = FALSE
    /\ over' = (over \/ moved + 1 = Total)
    /\ moved' = IF over' THEN 0 ELSE moved + 1
    /\ request' \in BOOLEAN /\ (over' => ~request')
    /\ UNCHANGED <<phase, doomed, command, answer, latch>>

\* The next result. Only the first of SENSE_INTERRUPT_STATUS may be
\* replaced before it was read: it is offered for a limited time.
Offer ==
    /\ ~doomed /\ phase \in {"execution", "results"} /\ sent < Len(ResultsOf(cmd))
    /\ cmd \in {"READ_DATA", "WRITE_DATA"} => phase = "results" \/ (over /\ ~full)
    /\ offer => cmd = "SENSE_INTERRUPT_STATUS"
    /\ phase' = "results" /\ offer' = TRUE
    /\ sent' = sent + 1 /\ fifo' = ResultsOf(cmd)[sent']
    /\ NoTransfer /\ UNCHANGED <<doomed, command, disc>>

Read ==
    /\ phase = "results" /\ offer /\ offer' = FALSE
    /\ IF sent = Len(ResultsOf(cmd)) THEN phase' = "idle" /\ sent' = 0 ELSE UNCHANGED <<phase, sent>>
    /\ UNCHANGED <<doomed, fifo, command, transfer, disc>>

Next ==
    \/ Reset \/ Ready
    \/ \E c \in Commands : Begin(c)
    \/ \E v \in Tracks \cup Sectors \cup Drives : Parameter(v)
    \/ Done \/ Fetch \/ Ask \/ Store \/ Offer \/ Read
    \/ \E tc \in BOOLEAN : Take(tc) \/ \E v \in Values : Bring(v, tc)

Spec == Init /\ [][Next]_vars
=============================================================================
