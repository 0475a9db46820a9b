---------------------------- MODULE FilingSystem ----------------------------
(***************************************************************************)
(* What HostFS promises to its guest: a catalogue from RISC OS paths to    *)
(* objects.  An operation changes the object it names and nothing else,    *)
(* and keeps what it was not asked to change; the data of a file open for  *)
(* update may also change when the host writes out what was put.           *)
(***************************************************************************)
EXTENDS Naturals, Sequences, SequencesExt, Functions

CONSTANTS Paths, Types, Contents
VARIABLES cat, writers   \* path -> object; the paths open for update

Under(p)   == {q \in DOMAIN cat : IsPrefix(p, q)}
Room(p)    == Len(p) = 1 \/ (Front(p) \in DOMAIN cat /\ cat[Front(p)].kind = "dir")
IsFile(p)  == p \in DOMAIN cat /\ cat[p].kind = "file"
With(p, o) == [q \in DOMAIN cat \cup {p} |-> IF q = p THEN o ELSE cat[q]]

Init == writers = {}

Save(p, t, d) ==
    /\ Room(p) /\ (p \in DOMAIN cat => IsFile(p) /\ cat[p].type = t)
    /\ cat' = With(p, [kind |-> "file", type |-> t, data |-> d])
Retype(p, t) == IsFile(p) /\ cat' = [cat EXCEPT ![p].type = t]
MakeDir(p, t) == Room(p) /\ p \notin DOMAIN cat
    /\ cat' = With(p, [kind |-> "dir", type |-> t, data |-> <<>>])
Delete(p) == Under(p) = {p} /\ cat' = Restrict(cat, DOMAIN cat \ {p})
Moved(p, q, r) == IF IsPrefix(p, r) THEN q \o SubSeq(r, Len(p) + 1, Len(r)) ELSE r
Rename(p, q) ==
    /\ p \in DOMAIN cat /\ q \notin DOMAIN cat /\ Room(q)
    /\ DOMAIN cat' = {Moved(p, q, r) : r \in DOMAIN cat}
    /\ \A r \in DOMAIN cat : cat'[Moved(p, q, r)] = cat[r]
Write ==
    \E C \in [{p \in writers : IsFile(p)} -> Contents] :
       cat' = [p \in DOMAIN cat |-> IF p \in DOMAIN C THEN [cat[p] EXCEPT !.data = C[p]] ELSE cat[p]]

Next ==
    \/ Write
    \/ \E p \in Paths : Delete(p) \/ (\E q \in Paths : Rename(p, q))
    \/ \E p \in Paths, t \in Types :
          Retype(p, t) \/ MakeDir(p, t) \/ (\E d \in Contents : Save(p, t, d))

Spec == Init /\ [][Next]_<<cat, writers>>
=============================================================================
