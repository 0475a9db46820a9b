----------------------------- MODULE BlockDevice -----------------------------
(***************************************************************************)
(* What an IDE channel promises its driver: a transfer names a medium, a   *)
(* first block and a number of blocks, and then moves exactly those, in    *)
(* order, word by word; a block changes only when all its words were       *)
(* given, or when it is formatted.                                         *)
(***************************************************************************)
EXTENDS Naturals, Sequences

CONSTANTS
    Blocks, Size,    \* the disc's blocks, words in a block
    Words, Zero,     \* what a driver writes, what a formatted block holds
    Cd(_)            \* the blocks of the CD
VARIABLES disc, xfer

NoXfer == [dir |-> "none", at |-> 0, left |-> 0, words |-> <<>>]
Zeros  == [i \in 1 .. Size |-> Zero]
Init   == disc = [b \in Blocks |-> Zeros] /\ xfer = NoXfer

Begin(dir, at, n) == xfer' = [dir |-> dir, at |-> at, left |-> n, words |-> <<>>] /\ UNCHANGED disc
Abandon == xfer' = NoXfer /\ UNCHANGED disc

After(words) ==
    IF Len(words) < Size THEN [xfer EXCEPT !.words = words]
    ELSE IF xfer.left = 1 THEN NoXfer
    ELSE [xfer EXCEPT !.at = @ + 1, !.left = @ - 1, !.words = <<>>]
Take ==
    /\ xfer.dir \in {"read", "read_cd"}
    /\ LET block == IF xfer.dir = "read" THEN disc[xfer.at] ELSE Cd(xfer.at)
       IN xfer' = After(Append(xfer.words, block[Len(xfer.words) + 1]))
    /\ UNCHANGED disc
Give(w) ==
    LET words == Append(xfer.words, w)
    IN /\ xfer.dir = "write" /\ xfer' = After(words)
       /\ disc' = IF Len(words) < Size THEN disc ELSE [disc EXCEPT ![xfer.at] = words]
Format(w) ==
    LET words == Append(xfer.words, w)
    IN /\ xfer.dir = "format"
       /\ xfer' = IF Len(words) < Size THEN [xfer EXCEPT !.words = words] ELSE NoXfer
       /\ disc' = IF Len(words) < Size THEN disc
                  ELSE [b \in Blocks |-> IF b \in xfer.at .. xfer.at + xfer.left - 1
                                         THEN Zeros ELSE disc[b]]

Next ==
    \/ \E dir \in {"read", "read_cd", "write", "format"}, first, last \in Blocks :
         first <= last /\ Begin(dir, first, last - first + 1)
    \/ Abandon \/ Take \/ \E w \in Words : Give(w) \/ Format(w)
Spec == Init /\ [][Next]_<<disc, xfer>>
=============================================================================
