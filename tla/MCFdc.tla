------------------------------- MODULE MCFdc -------------------------------
(* A disc of one track with two sectors of two bytes. *)
EXTENDS Fdc, FiniteSets

CONSTANT MaxChanged

\* Bound, over what the guest has changed: the bytes of the disc that are not
\* zero, a rate that is not the disc's, and a reset that it does not wait for.
Changed ==
    {w \in Tracks \X Sectors \X (0 .. Size - 1) : disc[0][w[1]][w[2]][w[3]] # 0}
        \cup {w \in {<<"rate">>} : rate # Density} \cup {w \in {<<"reset">>} : reset /\ ~awaiting}
Bound == Cardinality(Changed) <= MaxChanged
=============================================================================
