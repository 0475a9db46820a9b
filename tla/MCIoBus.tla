------------------------------ MODULE MCIoBus ------------------------------
(* The parts of the IO bus one by one, with one timer and two slots.      *)
EXTENDS IoBus

MCGroup == [b \in Bits |->
    IF b \in {"TIMER_0", "TIMER_1", "FLYBACK", "PARALLEL", "FORCE"} THEN "A"
    ELSE IF b \in {"SERIAL", "FIQ_PODULE", "FIQ_FORCE"} THEN "FIQ" ELSE "B"]
MCFloor == -2

\* The printer and the serial port are watched on the chip without the keyboard.
OneAtATime == super = "FDC37C672" => printstat = {} /\ status \cap {"PARALLEL", "SERIAL"} = {}
=============================================================================
