------------------------------- MODULE MCMmu -------------------------------
(* Small guests for the translation caches: two or three pages, fewer      *)
(* slots than pages so that every FIFO evicts, and VRAM and RAM frames.    *)
EXTENDS Mmu

CONSTANTS p0, p1, rom, scr, io

MCIdentity == [p \in {p0, p1} |-> IF p = p0 THEN rom ELSE scr]
MCRegion == [f \in {rom, scr, io} |->
               CASE f = rom -> "rom" [] f = scr -> "vram" [] f = io -> "io"]
MCChunk == [f \in {rom, scr, io, NoFrame} |->
               CASE f = rom -> "00" [] f = scr -> "02" [] f = io -> "03" [] f = NoFrame -> "1f"]
MCFault == [kind |-> "fault", frame |-> rom, ap |-> 0, domain |-> "d"]
PageDesc(f, ap) == [kind |-> "page", frame |-> f, ap |-> ap, domain |-> "d"]
MCDescs == {MCFault, PageDesc(scr, 1)}
ClosedDac == [d \in {"d"} |-> 0]
ClientDac == [d \in {"d"} |-> 1]
MCDac == {ClosedDac, ClientDac}
=============================================================================
