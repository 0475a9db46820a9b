----------------------------- MODULE I2cMemory -----------------------------
(***************************************************************************)
(* What the guest's I2C bus promises: a clocked memory device. The master  *)
(* drives SCL and SDA; the device answers on SDA. A transaction starts     *)
(* when SDA falls while SCL is high and stops when it rises. Between them  *)
(* go frames of one byte and one acknowledge. The first byte names the     *)
(* device and the direction; after it the master sends the pointer and     *)
(* then bytes to store, or reads bytes, the pointer going up by one each   *)
(* time. Cmos implements this with the serialiser of cmos.c.               *)
(***************************************************************************)
EXTENDS CmosTypes

VARIABLES
    scl, sda,   \* what the master drives
    out,        \* what the device drives on SDA
    frame,      \* "idle", "address", "receive", "answer" or "transmit"
    pos,        \* clock pulses of this frame so far
    byte,       \* the bits received, or the byte being sent
    expects,    \* the next byte received is the "pointer" or "data"
    pointer, mem, saved

line == <<frame, pos, byte, expects>>
store == <<pointer, mem, saved>>
vars == <<scl, sda, out, line, store>>

After(a)    == (a + 1) % ByteSize
Enter(f, p) == frame' = f /\ pos' = p /\ byte' = 0 /\ expects' = "pointer"

Init ==
    /\ scl = 0 /\ sda = 0 /\ out = 1
    /\ frame = "idle" /\ pos = 0 /\ byte = 0 /\ expects = "pointer"
    /\ pointer = 0 /\ mem \in Ram /\ saved \in Ram
    /\ \A a \in Plain : mem[a] = saved[a]

\* SDA changes while SCL is high, or goes high together with it.
Start ==
    /\ scl' = 1 /\ sda = 1 /\ sda' = 0
    /\ Enter("address", 0) /\ out' = 1
    /\ UNCHANGED store

Stop ==
    /\ scl' = 1 /\ sda = 0 /\ sda' = 1
    /\ Enter("idle", 0) /\ out' = 1
    /\ UNCHANGED store

\* The master prepares SDA, or writes the same levels again.
Prepare ==
    /\ scl' = scl /\ (scl = 1 => sda' = sda)
    /\ UNCHANGED <<out, line, store>>

Rise == scl = 0 /\ scl' = 1 /\ sda' = sda /\ UNCHANGED out
Fall == scl = 1 /\ scl' = 0

RiseIdle == Rise /\ frame = "idle" /\ UNCHANGED <<line, store>>
FallIdle == Fall /\ frame = "idle" /\ out' = 1 /\ UNCHANGED <<line, store>>

\* A bit of the address byte; with the last one the device is named, or not.
AddressBit ==
    LET b == Shift(byte, sda) IN
    /\ Rise /\ frame = "address"
    /\ IF pos + 1 < Bits
       THEN frame' = frame /\ pos' = pos + 1 /\ byte' = b /\ UNCHANGED expects
       ELSE IF b \div 2 # Device THEN Enter("idle", 0)
       ELSE /\ frame' = IF b % 2 = 1 THEN "answer" ELSE "receive"
            /\ pos' = Bits /\ byte' = b /\ expects' = "pointer"
    /\ UNCHANGED store

\* A bit of a byte for the device. The last one moves the pointer or stores.
Keep(b) ==
    IF expects = "pointer"
    THEN pointer' = b /\ expects' = "data" /\ UNCHANGED <<mem, saved>>
    ELSE /\ b \in Words
         /\ mem' = [mem EXCEPT ![pointer] = b]
         /\ saved' = IF pointer = Commit THEN mem' ELSE saved
         /\ pointer' = After(pointer)
         /\ UNCHANGED expects

ReceiveBit ==
    LET b == Shift(byte, sda) IN
    /\ Rise /\ frame = "receive" /\ pos < Bits
    /\ pos' = pos + 1 /\ byte' = b /\ UNCHANGED frame
    /\ IF pos + 1 = Bits THEN Keep(b) ELSE UNCHANGED <<store, expects>>

\* The clock pulse of the device's acknowledge.
Acknowledged ==
    /\ Rise /\ frame \in {"receive", "answer"} /\ pos = Bits
    /\ frame' = IF frame = "answer" THEN "transmit" ELSE "receive"
    /\ pos' = 0 /\ byte' = 0
    /\ UNCHANGED <<expects, store>>

\* The device releases SDA but for its acknowledges.
FallListening ==
    /\ Fall /\ frame \in {"address", "receive", "answer"}
    /\ out' = IF pos = Bits THEN 0 ELSE 1
    /\ UNCHANGED <<line, store>>

\* The device fetches a byte and puts its bits on SDA while SCL is low; the
\* master samples them with SCL high.
Fetch ==
    /\ Fall /\ frame = "transmit" /\ pos = 0
    /\ IF pointer \in Registers THEN \E t \in Times : mem' = AtTime(mem, t) ELSE UNCHANGED mem
    /\ byte' = mem'[pointer]
    /\ pointer' = After(pointer)
    /\ out' = BitOf(byte', Bits - 1)
    /\ UNCHANGED <<frame, pos, expects, saved>>

PutBit ==
    /\ Fall /\ frame = "transmit" /\ pos \in 1 .. Bits - 1
    /\ out' = BitOf(byte, Bits - 1 - pos)
    /\ UNCHANGED <<line, store>>

Sampled ==
    /\ Rise /\ frame = "transmit" /\ pos < Bits
    /\ pos' = pos + 1
    /\ UNCHANGED <<frame, byte, expects, store>>

\* The master acknowledges to get another byte.
Release ==
    /\ Fall /\ frame = "transmit" /\ pos = Bits /\ out' = 1
    /\ UNCHANGED <<line, store>>

MasterAnswers ==
    /\ Rise /\ frame = "transmit" /\ pos = Bits
    /\ IF sda = 1 THEN Enter("idle", 0) ELSE Enter("transmit", 0)
    /\ UNCHANGED store

\* The emulator is stopped and started again: what was saved comes back, with
\* the settings of the machine, their checksum and zeroed registers.
Restart ==
    /\ scl' = 0 /\ sda' = 0 /\ out' = 1
    /\ Enter("idle", 0)
    /\ pointer' = 0 /\ UNCHANGED saved
    /\ mem' \in Ram /\ \A a \in Plain : mem'[a] = saved[a]

Next ==
    \/ Start \/ Stop \/ Prepare \/ RiseIdle \/ FallIdle
    \/ AddressBit \/ ReceiveBit \/ Acknowledged \/ FallListening
    \/ Fetch \/ PutBit \/ Sampled \/ Release \/ MasterAnswers
    \/ Restart

Spec == Init /\ [][Next]_vars
=============================================================================
