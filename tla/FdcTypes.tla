------------------------------ MODULE FdcTypes ------------------------------
(***************************************************************************)
(* Discs and commands of the floppy controller, shared by the promise      *)
(* (Floppy) and the emulator's state machine (Fdc). A disc has one side;   *)
(* a transfer stays on a track.                                            *)
(***************************************************************************)
EXTENDS Integers, Sequences

CONSTANTS
    Size,       \* bytes of a sector (1024)
    LastSector, \* sectors of a track are 0 .. LastSector (4)
    Tracks,     \* tracks guests use
    Drives,     \* drives guests use, of 0 and 1
    Values      \* bytes of the discs

Sectors == 0 .. LastSector
Disc    == [0 .. 1 -> [Tracks -> [Sectors -> [0 .. Size - 1 -> Values]]]]

Commands ==
    {"SPECIFY", "SENSE_DRIVE_STATUS", "RECALIBRATE", "SENSE_INTERRUPT_STATUS", "DUMPREG", "SEEK",
     "CONFIGURE", "WRITE_DATA", "READ_DATA", "VERIFY_DATA", "READ_ID", "READ_ID_FM", "FORMAT_TRACK"}

Transfers == {"WRITE_DATA", "READ_DATA", "VERIFY_DATA"}

\* Parameter bytes a command takes.
ParametersOf(c) ==
    CASE c \in {"SENSE_DRIVE_STATUS", "RECALIBRATE", "READ_ID", "READ_ID_FM"} -> 1
      [] c \in {"SPECIFY", "SEEK"} -> 2
      [] c = "CONFIGURE"           -> 3
      [] c = "FORMAT_TRACK"        -> 5
      [] c \in Transfers -> 8
      [] c \in {"SENSE_INTERRUPT_STATUS", "DUMPREG"} -> 0

ASSUME SizeAssumption == Size \in 1 .. 1024 /\ LastSector \in Nat
ASSUME DiscAssumption ==
    /\ 0 \in Tracks /\ Tracks \subseteq Nat
    /\ 0 \in Drives /\ Drives \subseteq 0 .. 1
    /\ 0 \in Values

\* The disc d with byte n of a sector replaced.
Stored(d, drive, t, s, n, v) == [d EXCEPT ![drive][t][s][n] = v]
=============================================================================
