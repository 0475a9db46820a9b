----------------------------- MODULE PoduleRom -----------------------------
(***************************************************************************)
(* The image of the extension ROM that initpodulerom builds from the files  *)
(* of a directory: a header, a directory of chunks, a description and the   *)
(* files, each on a word boundary.  Files are their lengths.                *)
(***************************************************************************)
EXTENDS Integers, Sequences

CONSTANTS MaxRoms,      \* 16
          Description,  \* the length of the description with its final 0, 22
          Lengths       \* the lengths of files
\* No more than sixteen files of 128 MB: the 32-bit counters hold their sum.
Longest == 134217728
ASSUME RomAssumption ==
    /\ MaxRoms \in 0 .. 16 /\ Description \in 0 .. 255
    /\ Lengths \subseteq Nat /\ \A len \in Lengths : len <= Longest

VARIABLE image
romvars == <<image>>

HeaderEnd == 16
Word(n) == 4 * ((n + 3) \div 4)

\* Mutant of FirstFile: the entry of the description is not counted.
FirstFile_ForgetsOne(files) == HeaderEnd + 8 * files

\* What the count of files decides: the place of the first chunk's contents.
FirstFile(files) == HeaderEnd + 8 * files + 8

\* An entry of the directory has three bytes for the size (makechunk).
Chunk(base, size) == [base |-> base, size |-> size % 16777216]

\* The header and the description, before the files are read.
Header(files) ==
    [files |-> files, state |-> "reading",
     chunkbase |-> HeaderEnd + 8,
     filebase |-> FirstFile(files) + Word(Description),
     poduleromsize |-> FirstFile(files) + Word(Description),
     chunks |-> <<Chunk(FirstFile(files), Description)>>]

RomInit == \E files \in 0 .. MaxRoms : image = Header(files)

Left == Len(image.chunks) - 1 < image.files

Added(len) == [image EXCEPT !.poduleromsize = @ + Word(len), !.filebase = @ + Word(len),
                            !.chunkbase = @ + 8, !.chunks = Append(@, Chunk(image.filebase, len))]

\* A file that is too large, or that makes the image too large, is complained
\* of and added all the same: fatal is a printf in this port.
AddFile == image.state = "reading" /\ Left /\ \E len \in Lengths : image' = Added(len)

\* A file that has gone since the directory was read is complained of, and
\* fseek is then called with no file, which ends the program.
LoseFile ==
    /\ image.state = "reading" /\ Left
    /\ image' = [image EXCEPT !.state = "stopped"]

RomDone ==
    /\ image.state = "reading" /\ ~Left
    /\ image' = [image EXCEPT !.state = "podule"]

\* Where in the image an access reads: the bytes of EASI space come from 24
\* bits of the address, one of four, so that the image is read to 4 MB.
Reach == 4194304
readpodulerom(easi, addr) ==
    LET at == (addr % 16777216) \div 4
    IN IF ~easi \/ image.poduleromsize = 0 THEN <<"0xff">>
       ELSE IF at < image.poduleromsize THEN <<"image", at>> ELSE <<"0">>

RomNext == AddFile \/ LoseFile \/ RomDone \/ (image.state # "reading" /\ UNCHANGED image)
=============================================================================
