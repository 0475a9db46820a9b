---- MODULE MCTransfers ----
(***************************************************************************)
(* Every load and store of the registers 0, 1, 14 and 15 with base 1, 14   *)
(* or 15, on a memory of eight words in four pages that wraps around.      *)
(***************************************************************************)
EXTENDS Transfers

CONSTANTS Bases

MCInstructions ==
    {i \in InstructionType :
        /\ i.rn \in Bases
        /\ Sensible(i)
        /\ i.form = "multiple" => i.offset = 1}

(* User mode, and Supervisor mode with every way back.                     *)
Machine(mode, spsr) ==
    [mode |-> mode, spsr |-> spsr, memmode |-> mode # "User",
     reg |-> [r \in Registers |-> CASE r = 0 -> 4 [] r = 1 -> 2 [] r = 14 -> 5 [] r = 15 -> 7],
     hidden |-> [r \in Banked |-> 6]]

MCMachines ==
    {Machine("User", "User"), Machine("Supervisor", "User"), Machine("Supervisor", "Supervisor")}

MCContents == {[a \in Words |-> Plus(Modulus - 1 - a, 3)]}

(* No page at all, or pages of every kind.                                 *)
MCLayouts ==
    {[p \in Pages |-> "none"],
     [p \in Pages |-> CASE p = 0 -> "readonly" [] p = 1 -> "all"
                         [] p = 2 -> "system" [] p = 3 -> "none"]}
====
