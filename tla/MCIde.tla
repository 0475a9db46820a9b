------------------------------- MODULE MCIde -------------------------------
(* Three blocks of two words; a packet of each kind. *)
EXTENDS Ide, FiniteSets

CONSTANT MaxWritten

MCPackets == {<<"TEST_UNIT_READY">>, <<"READ_TOC">>, <<"MODE_SELECT_10">>, <<"UNKNOWN">>, <<"READ_CD", 1, 2>>}
\* Bound: the words of the disc that are not zero.
Bound == Cardinality({w \in Blocks \X (1 .. BlockSize) : disc[w[1]][w[2]] # Zero}) <= MaxWritten
=============================================================================
