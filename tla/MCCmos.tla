------------------------------- MODULE MCCmos -------------------------------
(***************************************************************************)
(* Bytes of two bits: four cells, one of the clock, one for the checksum,  *)
(* one setting and one for the guest.                                      *)
(***************************************************************************)
EXTENDS Cmos

MCTimes == [{0} -> Words]
=============================================================================
