------------------------------- MODULE MCPs2 -------------------------------
(* Buffers of two bytes; keys of one and of two codes. *)
EXTENDS Ps2

MCPlaces == {<<0, 1>>, <<3, 0>>}
MCBoxes == {[left |-> 0, right |-> 7, bottom |-> 0, top |-> 7],
            [left |-> 2, right |-> 2, bottom |-> -4, top |-> 3]}
MCScreens == {[ysize |-> 2, doublex |-> d, doubley |-> d] : d \in BOOLEAN}
MCOffsets == {<<0, 0>>, <<1, 2>>}
=============================================================================
